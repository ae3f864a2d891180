------------------------------ MODULE RadioState ------------------------------
(***************************************************************************)
(* The radio state in libril (libril2/libril/ril.cpp), the daemon of one   *)
(* command socket that also serves RILs of before version 6.               *)
(*                                                                         *)
(* Those RILs tell the card and the technology through the radio state     *)
(* alone, so libril derives the voice technology, the CDMA subscription    *)
(* source and the card status from it: processRadioState keeps the last    *)
(* of each in a global and notifies the phone process of a change, and     *)
(* the dispatch functions of the two requests such a RIL does not know     *)
(* answer from the same globals.  Nothing guards the globals.  A RIL       *)
(* reports a change from a thread of its own, or from the event thread     *)
(* through RIL_requestTimedCallback, and the event thread reports the      *)
(* state to each new connection.                                           *)
(*                                                                         *)
(* A write to the command socket is one step: what may happen to the       *)
(* descriptor meanwhile is the subject of Libril.                          *)
(***************************************************************************)
EXTENDS Naturals, FiniteSets, Scenario

\* The instances.
\* the radio states the RIL uses
States == InRun([
     safety |-> {"UNAVAILABLE", "SIM_READY", "RUIM_READY", "NV_READY"},
     further |-> {"UNAVAILABLE", "SIM_READY"},
     progress |-> {"UNAVAILABLE", "OFF", "ON"}])
\* the threads of the RIL that report changes
Reporter == InRun([safety |-> {}, further |-> {"t1", "t2"}, progress |-> {"t1"}])
\* the RIL reports from the event thread instead
OnMain == InRun([safety |-> TRUE, further |-> FALSE, progress |-> FALSE])
Debug == InRun([safety |-> FALSE, progress |-> TRUE])  \* somebody uses the debug port
\* bound: changes of the radio state
MaxChanges == InRun([safety |-> 3, further |-> 3, progress |-> 2])
MaxRequests == InRun([safety |-> 1, further |-> 0, progress |-> 2])  \* bound: requests
MaxSessions == 2  \* bound: connections of the phone process

SimStates == {"SIM_NOT_READY", "SIM_LOCKED_OR_ABSENT", "SIM_READY"}
RuimStates == {"RUIM_NOT_READY", "RUIM_LOCKED_OR_ABSENT", "RUIM_READY"}
NvStates == {"NV_NOT_READY", "NV_READY"}

\* RADIO_STATE_UNAVAILABLE < state < RADIO_STATE_ON
OldStates == SimStates \cup RuimStates \cup NvStates

Main == "main"
Threads == Reporter \cup {Main}
Ids == 1 .. MaxRequests
Kinds == {"voice", "cdma", "other"}

VARIABLES
    radio,     \* what onStateRequest returns
    changes,   \* changes so far
    due,       \* reports the RIL has asked the event thread to make
    voiceRadioTech, cdmaSubscriptionSource, simRuimStatus,
    conn,      \* the connection s_fdCommand denotes, 0 if none
    sessions,  \* connections so far
    thread,    \* what each thread is doing
    made,      \* requests so far
    pending,   \* s_pendingRequests
    cancelled, \* those of them with cancelled set
    local,     \* those issued by the debug port
    held,      \* requests passed to the RIL and not completed
    answers,   \* answers written for each request
    told,      \* what the connected phone process has been told; history: late, the state had
               \* changed again when the last report of it was written
    dead       \* the event loop has ended, and the daemon with it

vars == <<radio, changes, due, voiceRadioTech, cdmaSubscriptionSource,
          simRuimStatus, conn, sessions, thread, made, pending, cancelled,
          local, held, answers, told, dead>>

rilVars == <<radio, changes>>
derived == <<voiceRadioTech, cdmaSubscriptionSource, simRuimStatus>>
connVars == <<conn, sessions>>
requests == <<made, pending, cancelled, local, held, answers>>

Idle == [at |-> "idle", state |-> None, val |-> None, req |-> 0]
ToldNothing == [states |-> {}, state |-> None, late |-> FALSE, tech |-> None,
                source |-> None, card |-> None]

\* RIL_register, with the RIL not yet talking to its modem
Init ==
    /\ radio = "UNAVAILABLE" /\ changes = 0 /\ due = 0
    /\ voiceRadioTech = None /\ cdmaSubscriptionSource = None
    /\ simRuimStatus = None
    /\ conn = 0 /\ sessions = 0
    /\ thread = [t \in Threads |-> Idle]
    /\ made = 0 /\ pending = {} /\ cancelled = {} /\ local = {} /\ held = {}
    /\ answers = [r \in Ids |-> 0]
    /\ told = ToldNothing
    /\ dead = FALSE

-----------------------------------------------------------------------------
(* What a radio state says.                                                *)

DecodeVoiceRadioTechnology(s) ==
    CASE s \in SimStates -> "umts"
      [] s \in RuimStates \cup NvStates -> "1xrtt"
      [] OTHER -> None

DecodeCdmaSubscriptionSource(s) ==
    CASE s \in SimStates \cup RuimStates -> "ruim"
      [] s \in NvStates -> "nv"
      [] OTHER -> None

DecodeSimStatus(s) ==
    IF s \in {"SIM_LOCKED_OR_ABSENT", "SIM_READY", "RUIM_READY",
              "RUIM_LOCKED_OR_ABSENT"}
    THEN s ELSE None

Is3gpp2(tech) == tech = "1xrtt"

\* What the phone process is told of a state: "Send RADIO_ON to telephony"
Shown(s) == IF s \in OldStates THEN "ON" ELSE s

-----------------------------------------------------------------------------
(* The RIL.                                                                *)

SetRadioState(s) ==
    /\ ~dead /\ changes < MaxChanges /\ s # radio
    /\ radio' = s /\ changes' = changes + 1
    /\ \/ /\ OnMain
          /\ due' = due + 1
          /\ UNCHANGED thread
       \/ /\ ~OnMain
          /\ \E t \in Reporter :
                /\ thread[t].at = "idle"
                /\ thread' = [thread EXCEPT ![t].at = "read"]
          /\ UNCHANGED due
    /\ UNCHANGED <<derived, connVars, requests, told, dead>>

\* checkAndDequeueRequestInfo: a token that is not in the list is refused
CheckAndDequeueRequestInfo(r) == r \in pending

\* RIL_onRequestComplete called for request r: nothing is written for a
\* request that is local or cancelled.
Completed(r) ==
    IF CheckAndDequeueRequestInfo(r)
    THEN /\ pending' = pending \ {r}
         /\ answers' = IF r \in local \cup cancelled \/ conn = 0
                       THEN answers
                       ELSE [answers EXCEPT ![r] = @ + 1]
    ELSE UNCHANGED <<pending, answers>>

RilCompletes(r) ==
    /\ ~dead /\ r \in held
    /\ held' = held \ {r}
    /\ Completed(r)
    /\ UNCHANGED <<rilVars, due, derived, connVars, thread, made, cancelled,
                   local, told, dead>>

-----------------------------------------------------------------------------
(* RIL_onUnsolicitedResponse(RIL_UNSOL_RESPONSE_RADIO_STATE_CHANGED).      *)

Goes(t, at) == thread' = [thread EXCEPT ![t].at = at]

At(t, at) == ~dead /\ thread[t].at = at

\* processRadioState(s_callbacks.onStateRequest())
ReadState(t) ==
    /\ At(t, "read")
    /\ thread' = [thread EXCEPT ![t].state = radio,
                     ![t].at = IF radio \in OldStates THEN "tech" ELSE "send"]
    /\ UNCHANGED <<rilVars, due, derived, connVars, requests, told, dead>>

\* "send change notifications if there has been a change"
NoteTech(t) ==
    LET new == DecodeVoiceRadioTechnology(thread[t].state)
    IN  /\ At(t, "tech")
        /\ voiceRadioTech' = new
        /\ thread' = [thread EXCEPT ![t].val = new,
                         ![t].at = IF new # voiceRadioTech THEN "techSend"
                                   ELSE "source"]
        /\ UNCHANGED <<rilVars, due, cdmaSubscriptionSource, simRuimStatus,
                       connVars, requests, told, dead>>

NoteSource(t) ==
    LET new == DecodeCdmaSubscriptionSource(thread[t].state)
        changed == /\ Is3gpp2(DecodeVoiceRadioTechnology(thread[t].state))
                   /\ new # cdmaSubscriptionSource
    IN  /\ At(t, "source")
        /\ cdmaSubscriptionSource' =
              IF changed THEN new ELSE cdmaSubscriptionSource
        /\ thread' = [thread EXCEPT ![t].val = new,
                         ![t].at = IF changed THEN "sourceSend" ELSE "card"]
        /\ UNCHANGED <<rilVars, due, voiceRadioTech, simRuimStatus, connVars,
                       requests, told, dead>>

NoteCard(t) ==
    LET new == DecodeSimStatus(thread[t].state)
    IN  /\ At(t, "card")
        /\ simRuimStatus' = new
        /\ thread' = [thread EXCEPT ![t].val = new,
                         ![t].at = IF new # simRuimStatus THEN "cardSend"
                                   ELSE "send"]
        /\ UNCHANGED <<rilVars, due, voiceRadioTech, cdmaSubscriptionSource,
                       connVars, requests, told, dead>>

\* sendResponse: with no connection it fails, and nothing is kept
Tells(new) == told' = IF conn = 0 THEN told ELSE new

\* Each notification is written when the write mutex is free.
SendNote(t) ==
    /\ \/ /\ At(t, "techSend") /\ Goes(t, "source")
          /\ Tells([told EXCEPT !.tech = thread[t].val])
       \/ /\ At(t, "sourceSend") /\ Goes(t, "card")
          /\ Tells([told EXCEPT !.source = thread[t].val])
       \/ /\ At(t, "cardSend") /\ Goes(t, "send")
          /\ Tells([told EXCEPT !.card = thread[t].val])
    /\ UNCHANGED <<rilVars, due, derived, connVars, requests, dead>>

SendState(t) ==
    /\ At(t, "send")
    /\ Tells([told EXCEPT !.state = Shown(thread[t].state),
                          !.states = @ \cup {Shown(thread[t].state)},
                          !.late = thread[t].state # radio])
    /\ thread' = [thread EXCEPT ![t] = Idle]
    /\ UNCHANGED <<rilVars, due, derived, connVars, requests, dead>>

-----------------------------------------------------------------------------
(* The event thread.                                                       *)

\* A timed callback of the RIL that reports its state
TimedReport ==
    /\ At(Main, "idle") /\ due > 0
    /\ due' = due - 1
    /\ Goes(Main, "read")
    /\ UNCHANGED <<rilVars, derived, connVars, requests, told, dead>>

\* onNewCommandConnect: "implicit radio state changed"
OnNewCommandConnect == Goes(Main, "read")

ListenCallback ==
    /\ At(Main, "idle") /\ conn = 0 /\ sessions < MaxSessions
    /\ sessions' = sessions + 1 /\ conn' = sessions'
    /\ told' = ToldNothing
    /\ OnNewCommandConnect
    /\ UNCHANGED <<rilVars, due, derived, requests, dead>>

\* processCommandsCallback finds the connection ended:
\* onCommandsSocketClosed marks every request in the list
CommandsClosed ==
    /\ At(Main, "idle") /\ conn # 0
    /\ conn' = 0
    /\ cancelled' = cancelled \cup pending
    /\ UNCHANGED <<rilVars, due, derived, sessions, thread, made, pending,
                   local, held, answers, told, dead>>

\* processCommandBuffer, up to the dispatch function: dispatchVoid and its
\* like pass the request to the RIL
ProcessCommandBuffer(kind) ==
    LET r == made + 1
    IN  /\ At(Main, "idle") /\ conn # 0 /\ made < MaxRequests
        /\ made' = r
        /\ pending' = pending \cup {r}
        /\ \/ /\ kind = "other"
              /\ held' = held \cup {r}
              /\ UNCHANGED thread
           \/ /\ kind # "other"
              /\ thread' = [thread EXCEPT ![Main] =
                    [at |-> kind, state |-> radio, val |-> None, req |-> r]]
              /\ UNCHANGED held
        /\ UNCHANGED <<rilVars, due, derived, connVars, cancelled, local,
                       answers, told, dead>>

Unavailable == {"UNAVAILABLE", "OFF"}

\* dispatchVoiceRadioTech, dispatchCdmaSubscriptionSource: a radio that is
\* not available ends the request, and the function goes on
DispatchUnavailable ==
    LET self == thread[Main]
    IN  /\ ~dead /\ self.at \in {"voice", "cdma"} /\ self.state \in Unavailable
        /\ Completed(self.req)
        /\ Goes(Main, IF self.at = "voice" THEN "decodeVoice" ELSE "decodeCdma")
        /\ UNCHANGED <<rilVars, due, derived, connVars, made, cancelled, local,
                       held, told, dead>>

\* "RILs that support RADIO_STATE_ON should support this request."
DispatchVoid ==
    LET self == thread[Main]
    IN  /\ ~dead /\ self.at \in {"voice", "cdma"} /\ self.state = "ON"
        /\ held' = held \cup {self.req}
        /\ thread' = [thread EXCEPT ![Main] = Idle]
        /\ UNCHANGED <<rilVars, due, derived, connVars, made, pending,
                       cancelled, local, answers, told, dead>>

KeepVoice(tech) == voiceRadioTech' = tech
KeepSource(source) == cdmaSubscriptionSource' = source

\* The values are decoded from the state that was read first.
DispatchDecode ==
    LET self == thread[Main]
        tech == DecodeVoiceRadioTechnology(self.state)
        source == DecodeCdmaSubscriptionSource(self.state)
    IN  /\ ~dead
        /\ \/ /\ \/ self.at = "voice" /\ self.state \in OldStates
                 \/ self.at = "decodeVoice"
              /\ KeepVoice(tech)
              /\ thread' = [thread EXCEPT ![Main].at = "marshallVoice",
                                          ![Main].val = tech]
              /\ UNCHANGED cdmaSubscriptionSource
           \/ /\ \/ self.at = "cdma" /\ self.state \in OldStates
                 \/ self.at = "decodeCdma"
              /\ KeepSource(source)
              /\ thread' = [thread EXCEPT ![Main].at = "marshallCdma",
                                          ![Main].val = source]
              /\ UNCHANGED voiceRadioTech
        /\ UNCHANGED <<rilVars, due, simRuimStatus, connVars, requests, told,
                       dead>>

\* RIL_onRequestComplete is passed a pointer to the global.
Marshalled ==
    IF thread[Main].at = "marshallVoice" THEN voiceRadioTech
    ELSE cdmaSubscriptionSource

\* The token is looked up and the answer marshalled; a second completion of
\* the same request ends here.
DispatchMarshall ==
    LET self == thread[Main]
    IN  /\ ~dead /\ self.at \in {"marshallVoice", "marshallCdma"}
        /\ thread' =
              IF CheckAndDequeueRequestInfo(self.req)
              THEN [thread EXCEPT ![Main].val = Marshalled,
                       ![Main].at = IF self.at = "marshallVoice"
                                    THEN "answerVoice" ELSE "answerCdma"]
              ELSE [thread EXCEPT ![Main] = Idle]
        /\ pending' = pending \ {self.req}
        /\ UNCHANGED <<rilVars, due, derived, connVars, made, cancelled, local,
                       held, answers, told, dead>>

DispatchAnswer ==
    LET self == thread[Main]
    IN  /\ ~dead /\ self.at \in {"answerVoice", "answerCdma"}
        /\ answers' = IF conn = 0 THEN answers
                      ELSE [answers EXCEPT ![self.req] = @ + 1]
        /\ Tells(IF self.val = None THEN told
                 ELSE IF self.at = "answerVoice"
                      THEN [told EXCEPT !.tech = self.val]
                      ELSE [told EXCEPT !.source = self.val])
        /\ thread' = [thread EXCEPT ![Main] = Idle]
        /\ UNCHANGED <<rilVars, due, derived, connVars, made, pending,
                       cancelled, local, held, dead>>

\* debugCallback, issueLocalRequest: a request with no connection behind it.
\* The radio power off also closes the command socket, which stays in the
\* watch table: select fails and the daemon kills itself.
DebugCallback ==
    LET r == made + 1
    IN  /\ Debug /\ At(Main, "idle") /\ made < MaxRequests
        /\ made' = r
        /\ pending' = pending \cup {r} /\ local' = local \cup {r}
        /\ held' = held \cup {r}
        /\ dead' \in {FALSE, conn # 0}
        /\ UNCHANGED <<rilVars, due, derived, connVars, thread, cancelled,
                       answers, told>>

-----------------------------------------------------------------------------
ReportStep(t) ==
    \/ ReadState(t) \/ NoteTech(t) \/ NoteSource(t) \/ NoteCard(t)
    \/ SendNote(t) \/ SendState(t)

DispatchStep ==
    \/ DispatchUnavailable \/ DispatchVoid \/ DispatchDecode
    \/ DispatchMarshall \/ DispatchAnswer

Next ==
    \/ \E s \in States : SetRadioState(s)
    \/ \E r \in Ids : RilCompletes(r)
    \/ \E t \in Threads : ReportStep(t)
    \/ TimedReport \/ ListenCallback \/ CommandsClosed
    \/ \E kind \in Kinds : ProcessCommandBuffer(kind)
    \/ DispatchStep \/ DebugCallback

Spec == Init /\ [][Next]_vars

-----------------------------------------------------------------------------
(* Properties.                                                             *)

Techs == {"umts", "1xrtt", None}
Sources == {"ruim", "nv", None}

TypeOK ==
    /\ radio \in States /\ changes \in 0 .. MaxChanges
    /\ due \in 0 .. MaxChanges
    /\ voiceRadioTech \in Techs /\ cdmaSubscriptionSource \in Sources
    /\ simRuimStatus \in OldStates \cup {None}
    /\ sessions \in 0 .. MaxSessions /\ conn \in 0 .. sessions
    /\ made \in 0 .. MaxRequests
    /\ pending \subseteq 1 .. made /\ cancelled \subseteq 1 .. made
    /\ local \subseteq 1 .. made /\ held \subseteq 1 .. made
    /\ told.tech \in Techs /\ told.source \in Sources
    /\ told.state \in States \cup {"ON", None} /\ told.late \in BOOLEAN
    /\ told.states \subseteq States \cup {"ON"}
    /\ told.card \in OldStates \cup {None}
    /\ answers \in [Ids -> Nat]
    /\ \A t \in Threads : thread[t].state \in States \cup {None}
    /\ dead \in BOOLEAN

\* Nobody is about to tell the phone process anything.
Quiet == due = 0 /\ \A t \in Threads : thread[t].at = "idle"

\* A request is answered at most once, and one that was answered is out of
\* the list of pending requests, although the dispatch functions of the two
\* derived requests complete a request twice when the radio is not available.
AnsweredOnce ==
    \A r \in Ids :
        /\ answers[r] <= 1
        /\ answers[r] = 1 => r \notin pending \cup held \cup local

\* Once nothing is under way, the current radio state is among those that
\* this connection was told, whichever threads reported and however the
\* connection was made between a change and its report.
CurrentStateTold == ~dead /\ conn # 0 /\ Quiet => Shown(radio) \in told.states

\* Once nothing is under way, the radio state that was written last is the
\* current one, unless that report was late: its thread had read the state
\* before it changed, and the report of the change was written first.  From one
\* thread no report is late in the end.
LastToldIsCurrent ==
    ~dead /\ conn # 0 /\ Quiet =>
        /\ told.state = Shown(radio) \/ told.late
        /\ told.late => Reporter # {}

\* A phone process that was told a voice technology, as an answer or as a
\* notification, has been told the one of the current radio state.
TechKnown ==
    ~dead /\ conn # 0 /\ Quiet /\ told.tech # None /\ radio \in OldStates =>
        told.tech = DecodeVoiceRadioTechnology(radio)

\* The same of the CDMA subscription source, where there is CDMA.
SourceKnown ==
    /\ ~dead /\ conn # 0 /\ Quiet /\ told.source # None
    /\ radio \in RuimStates \cup NvStates
    => told.source = DecodeCdmaSubscriptionSource(radio)

\* A phone process that was notified of the card was notified of the card
\* status that the current radio state says.
CardKnown ==
    /\ ~dead /\ conn # 0 /\ Quiet /\ told.card # None /\ radio \in OldStates
    => told.card = DecodeSimStatus(radio)
=============================================================================
