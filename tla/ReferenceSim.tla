----------------------------- MODULE ReferenceSim -----------------------------
(***************************************************************************)
(* The older reference RIL (libril2/reference-ril/reference-ril.c), which  *)
(* tells the state of the SIM through the radio state: it polls the SIM    *)
(* after the radio is powered on, and opens the AT channel again whenever  *)
(* it closes.                                                              *)
(*                                                                         *)
(* Three threads: libril's event thread runs requests and timed callbacks, *)
(* the reader of the AT channel notices that it closed, and mainLoop waits *)
(* for that and opens it again.  setRadioState is called by the first two. *)
(* A command to a channel that has closed fails; the modem and its         *)
(* settings survive that.  How a command gets its answer is the subject of *)
(* AtChannel.                                                              *)
(***************************************************************************)
EXTENDS Naturals, Scenario

\* The instances.
\* the SIMs that may be in: "none", "open", "pin"
Cards == InRun([
     safety |-> {"none", "open", "pin"},
     progress |-> {"open", "pin"}])
\* the requests made
Requests == InRun([
     safety |-> {"on", "off", "pin", "status"},
     progress |-> {"on", "off", "pin"}])
MaxCloses == InRun([safety |-> 2, progress |-> 1])  \* bound: times the channel closes
MaxRequests == InRun([safety |-> 3, progress |-> 2])  \* bound: requests
MaxFaults == InRun([safety |-> 0, progress |-> 1])  \* bound: answers of the modem that are errors

VARIABLES
    sState,     \* the radio state
    s_closed,
    open,       \* the AT channel works
    loop,       \* mainLoop
    reader,     \* the thread that notices the close
    event,      \* the event thread
    inits,      \* initializeCallback is due, this often
    polls,      \* pollSIMState is due, this often
    begun,      \* initializeCallback has begun on this channel
    unreported, \* the state changed and nobody has reported since
    modem,      \* the modem: on, its SIM, and whether SMS are routed here
    card,       \* the SIM that is in
    closes, made, answered, faults

vars == <<sState, s_closed, open, loop, reader, event, inits, polls, begun,
          unreported, modem, card, closes, made, answered, faults>>

channel == <<open, closes>>
timers == <<inits, polls>>
book == <<made, answered>>

NoWork == [at |-> "idle", want |-> "UNAVAILABLE", old |-> "UNAVAILABLE",
           then |-> "idle", req |-> FALSE]

\* The modem may have been left on.
Init ==
    /\ sState = "UNAVAILABLE" /\ s_closed = FALSE /\ open = FALSE
    /\ loop = "opening" /\ reader = NoWork /\ event = NoWork
    /\ inits = 0 /\ polls = 0 /\ begun = FALSE /\ unreported = FALSE
    /\ card \in Cards
    /\ modem \in [on : BOOLEAN, sim : {"busy"}, routed : {FALSE}]
    /\ closes = 0 /\ made = 0 /\ answered = 0 /\ faults = 0

-----------------------------------------------------------------------------
(* The modem, and the link to it.                                          *)

Settled ==
    CASE card = "none" -> "absent"
      [] card = "pin" -> "pin"
      [] card = "open" -> "ready"

\* The SIM takes its time.
SimSettles ==
    /\ modem.on /\ modem.sim = "busy"
    /\ modem' = [modem EXCEPT !.sim = Settled]
    /\ UNCHANGED <<sState, s_closed, channel, loop, reader, event, timers,
                   begun, unreported, card, book, faults>>

Close ==
    /\ open /\ reader.at = "idle" /\ closes < MaxCloses
    /\ open' = FALSE /\ closes' = closes + 1
    /\ reader' = [NoWork EXCEPT !.at = "closed"]
    /\ UNCHANGED <<sState, s_closed, loop, event, timers, begun, unreported,
                   modem, card, book, faults>>

\* A command succeeds, or it fails: on a channel that is closed, or because
\* the modem says so.
Succeeds == open /\ UNCHANGED faults
Fails ==
    \/ ~open /\ UNCHANGED faults
    \/ open /\ faults < MaxFaults /\ faults' = faults + 1

-----------------------------------------------------------------------------
(* setRadioState, for the thread that calls it.                            *)

\* "If we're closed, the only reasonable state is RADIO_STATE_UNAVAILABLE"
NewState(want) == IF s_closed THEN "UNAVAILABLE" ELSE want

\* sState != newState || s_closed > 0
Broadcast(new) == sState # new \/ s_closed

\* The part under s_state_mutex
SetLocked(self) ==
    LET new == NewState(self.want)
    IN  /\ sState' = new
        /\ unreported' = (unreported \/ sState # new)
        /\ loop' = IF Broadcast(new) /\ loop = "waiting" THEN "woken" ELSE loop

\* "do these outside of the mutex"
Changed(self) == sState # self.old

Reported(self) == unreported' = (unreported /\ ~Changed(self))

-----------------------------------------------------------------------------
(* onATReaderClosed, on the reader thread.                                 *)

OnATReaderClosed ==
    /\ reader.at = "closed"
    /\ s_closed' = TRUE
    /\ reader' = [reader EXCEPT !.at = "set"]
    /\ UNCHANGED <<sState, channel, loop, event, timers, begun, unreported,
                   modem, card, book, faults>>

ReaderSets ==
    /\ reader.at = "set"
    /\ SetLocked(reader)
    /\ reader' = [reader EXCEPT !.at = "report", !.old = sState]
    /\ UNCHANGED <<s_closed, channel, event, timers, begun, modem, card, book,
                   faults>>

\* The FIXME of setRadioState: neither function it would call next is due,
\* the state being what the reader set or what the event thread sees to.
ReaderReports ==
    /\ reader.at = "report"
    /\ Reported(reader)
    /\ reader' = NoWork
    /\ UNCHANGED <<sState, s_closed, channel, loop, event, timers, begun,
                   modem, card, book, faults>>

-----------------------------------------------------------------------------
(* mainLoop.                                                               *)

\* "opening AT interface. retrying...", then at_open and a timed callback
Opens ==
    /\ loop = "opening" /\ reader.at \in {"idle", "report"}
    /\ s_closed' = FALSE
    /\ open' = TRUE /\ begun' = FALSE
    /\ inits' = inits + 1
    /\ loop' = "sleeping"
    /\ UNCHANGED <<sState, closes, reader, event, polls, unreported, modem,
                   card, book, faults>>

\* waitForClose: the flag is looked at with the mutex held
WaitForClose ==
    /\ loop \in {"sleeping", "woken"}
    /\ loop' = IF s_closed THEN "opening" ELSE "waiting"
    /\ UNCHANGED <<sState, s_closed, channel, reader, event, timers, begun,
                   unreported, modem, card, book, faults>>

-----------------------------------------------------------------------------
(* The event thread.                                                       *)

EventIdle == event.at = "idle"

eventElse == <<s_closed, channel, reader, card>>

\* Calls setRadioState(want) and goes on at step then
Sets(want, then) ==
    event' = [event EXCEPT !.at = "set", !.want = want, !.then = then]

EventSets ==
    /\ event.at = "set"
    /\ SetLocked(event)
    /\ event' = [event EXCEPT !.at = "report", !.old = sState]
    /\ UNCHANGED <<eventElse, timers, begun, modem, book, faults>>

\* onSIMReady or onRadioPowerOn, by the state as it is now
AfterReport ==
    CASE sState = "SIM_READY" -> "simReady"
      [] sState = "SIM_NOT_READY" -> "poll"
      [] OTHER -> event.then

EventReports ==
    /\ event.at = "report"
    /\ Reported(event)
    /\ event' = [event EXCEPT !.at = IF Changed(event) THEN AfterReport
                                     ELSE event.then]
    /\ UNCHANGED <<eventElse, sState, loop, timers, begun, modem, book, faults>>

\* onSIMReady: AT+CNMI routes the messages here
OnSIMReady ==
    /\ event.at = "simReady"
    /\ \/ Succeeds /\ modem' = [modem EXCEPT !.routed = modem.on]
       \/ Fails /\ UNCHANGED modem
    /\ event' = [event EXCEPT !.at = "finish"]
    /\ UNCHANGED <<eventElse, sState, loop, timers, begun, unreported, book>>

\* initializeCallback
InitializeCallback ==
    /\ EventIdle /\ inits > 0
    /\ inits' = inits - 1 /\ begun' = TRUE
    /\ event' = [NoWork EXCEPT !.at = "set", !.want = "OFF", !.then = "probe"]
    /\ UNCHANGED <<eventElse, sState, loop, polls, unreported, modem, book,
                   faults>>

\* isRadioOn: "assume radio is off on error"
Probe ==
    /\ event.at = "probe"
    /\ \/ Succeeds /\ modem.on /\ Sets("SIM_NOT_READY", "finish")
       \/ /\ \/ Succeeds /\ ~modem.on
             \/ Fails
          /\ event' = [event EXCEPT !.at = "finish"]
    /\ UNCHANGED <<eventElse, sState, loop, timers, begun, unreported, modem,
                   book>>

PollCallback ==
    /\ EventIdle /\ polls > 0
    /\ polls' = polls - 1
    /\ event' = [NoWork EXCEPT !.at = "poll"]
    /\ UNCHANGED <<eventElse, sState, loop, inits, begun, unreported, modem,
                   book, faults>>

\* "no longer valid to poll"
StillPolls == sState = "SIM_NOT_READY"

\* pollSIMState, getSIMStatus: AT+CPIN?
PollSIMState ==
    /\ event.at = "poll"
    /\ event' = [event EXCEPT !.at = IF StillPolls THEN "cpin" ELSE "finish"]
    /\ UNCHANGED <<eventElse, sState, loop, timers, begun, unreported, modem,
                   book, faults>>

\* +CME ERROR other than "SIM not inserted"
SimNotReady == ~modem.on \/ modem.sim = "busy"

GetSIMStatus ==
    /\ event.at = "cpin"
    /\ \/ /\ Succeeds /\ ~SimNotReady
          /\ sState \notin {"OFF", "UNAVAILABLE"}
          /\ Sets(IF modem.sim = "ready" THEN "SIM_READY"
                  ELSE "SIM_LOCKED_OR_ABSENT", "finish")
          /\ UNCHANGED polls
       \/ /\ \/ Succeeds /\ SimNotReady
             \/ Fails
             \/ sState \in {"OFF", "UNAVAILABLE"} /\ UNCHANGED faults
          /\ polls' = polls + 1
          /\ event' = [event EXCEPT !.at = "finish"]
    /\ UNCHANGED <<eventElse, sState, loop, inits, begun, unreported, modem,
                   book>>

Finish ==
    /\ event.at = "finish"
    /\ answered' = IF event.req THEN answered + 1 ELSE answered
    /\ event' = NoWork
    /\ UNCHANGED <<eventElse, sState, loop, timers, begun, unreported, modem,
                   made, faults>>

\* onRequest: what is ignored while the radio is unavailable or off
Ignored(r) ==
    \/ sState = "UNAVAILABLE" /\ r # "status"
    \/ sState = "OFF" /\ r \notin {"on", "off", "status"}

\* RIL_REQUEST_GET_SIM_STATUS and most others change nothing here.
OnRequest(r) ==
    /\ EventIdle /\ made < MaxRequests
    /\ made' = made + 1
    /\ event' = [NoWork EXCEPT !.req = TRUE,
                    !.at = IF Ignored(r) \/ r = "status"
                           THEN "finish" ELSE r]
    /\ UNCHANGED <<eventElse, sState, loop, timers, begun, unreported, modem,
                   answered, faults>>

\* requestRadioPower, off: AT+CFUN=0
PowerOff ==
    /\ event.at = "off"
    /\ \/ /\ sState # "OFF" /\ Succeeds
          /\ modem' = [on |-> FALSE, sim |-> "busy", routed |-> FALSE]
          /\ Sets("OFF", "finish")
       \/ /\ \/ sState # "OFF" /\ Fails
             \/ sState = "OFF" /\ UNCHANGED faults
          /\ event' = [event EXCEPT !.at = "finish"]
          /\ UNCHANGED modem
    /\ UNCHANGED <<eventElse, sState, loop, timers, begun, unreported, book>>

\* requestRadioPower, on: AT+CFUN=1, and AT+CFUN? if that fails
PowerOn ==
    /\ event.at = "on"
    /\ \/ /\ sState = "OFF" /\ Succeeds
          /\ modem' = [modem EXCEPT !.on = TRUE]
          /\ Sets("SIM_NOT_READY", "finish")
       \/ /\ \/ sState = "OFF" /\ Fails
             \/ sState # "OFF" /\ UNCHANGED faults
          /\ event' = [event EXCEPT !.at = "finish"]
          /\ UNCHANGED modem
    /\ UNCHANGED <<eventElse, sState, loop, timers, begun, unreported, book>>

\* requestEnterSimPin: AT+CPIN=
EnterSimPin ==
    /\ event.at = "pin"
    /\ \/ /\ Succeeds
          /\ modem' = IF modem.on /\ modem.sim = "pin"
                      THEN [modem EXCEPT !.sim = "ready"] ELSE modem
       \/ Fails /\ UNCHANGED modem
    /\ event' = [event EXCEPT !.at = "finish"]
    /\ UNCHANGED <<eventElse, sState, loop, timers, begun, unreported, book>>

-----------------------------------------------------------------------------
EventStep ==
    \/ EventSets \/ EventReports \/ OnSIMReady \/ Probe \/ PollSIMState
    \/ GetSIMStatus \/ Finish \/ PowerOff \/ PowerOn \/ EnterSimPin

ReaderStep == OnATReaderClosed \/ ReaderSets \/ ReaderReports
LoopStep == Opens \/ WaitForClose

Next ==
    \/ SimSettles \/ Close \/ ReaderStep \/ LoopStep
    \/ EventStep \/ InitializeCallback \/ PollCallback
    \/ \E r \in Requests : OnRequest(r)

Spec == Init /\ [][Next]_vars

-----------------------------------------------------------------------------
(* Properties.                                                             *)

RadioStates == {"UNAVAILABLE", "OFF", "SIM_NOT_READY", "SIM_LOCKED_OR_ABSENT",
                "SIM_READY"}

Steps == {"idle", "set", "report", "simReady", "probe", "poll", "cpin",
          "finish", "on", "off", "pin", "closed"}

TypeOK ==
    /\ sState \in RadioStates /\ s_closed \in BOOLEAN /\ open \in BOOLEAN
    /\ loop \in {"opening", "sleeping", "waiting", "woken"}
    /\ \A self \in {event, reader} :
          /\ self.at \in Steps /\ self.then \in Steps
          /\ self.want \in RadioStates /\ self.old \in RadioStates
    /\ inits \in 0 .. 1 + MaxCloses /\ polls \in Nat
    /\ answered <= made /\ made <= MaxRequests /\ closes <= MaxCloses
    /\ modem.sim \in {"busy", "absent", "pin", "ready"}

\* Every thread rests, the channel is open and no callback is due.
Quiet ==
    /\ EventIdle /\ reader.at = "idle" /\ loop = "waiting" /\ open
    /\ inits = 0 /\ polls = 0

\* Every request is answered and nothing is left to do.
Over == answered = made /\ Quiet

Expected ==
    CASE ~modem.on -> "OFF"
      [] modem.on /\ modem.sim = "busy" -> "SIM_NOT_READY"
      [] modem.on /\ modem.sim = "ready" -> "SIM_READY"
      [] OTHER -> "SIM_LOCKED_OR_ABSENT"

\* The PIN was entered after the lock had been reported: requestEnterSimPin polls
\* the SIM no more, and the state stays that of a locked SIM.
UnlockedUnseen ==
    sState = "SIM_LOCKED_OR_ABSENT" /\ card = "pin" /\ modem.sim = "ready"

\* Once everything rests, the radio state says what the modem and its SIM are,
\* however often the channel closed and in whatever step, while the modem
\* answers no command with an error (isRadioOn takes one for "off"); a SIM that
\* is unlocked by its PIN is still reported locked (UnlockedUnseen).
StateFollowsModem == Quiet => sState = Expected \/ UnlockedUnseen

\* Once everything rests and the SIM is ready, short messages are routed to
\* the RIL: setRadioState has set the SIM up, on a channel that worked, the
\* modem answering no command with an error (onSIMReady does not look).
SmsRouted == Quiet /\ sState = "SIM_READY" => modem.routed

\* A change of the radio state has been reported once the threads are done,
\* although each compares the state with the one it found outside the mutex.
ChangesReported == EventIdle /\ reader.at = "idle" => ~unreported
=============================================================================
