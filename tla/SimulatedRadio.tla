---------------------------- MODULE SimulatedRadio ----------------------------
(***************************************************************************)
(* The simulated radio of the mock RIL (simulated_radio.js): the array of   *)
(* calls, the requests of the framework and of the control server, and the  *)
(* requests the radio makes of itself, now or after some seconds.           *)
(*                                                                         *)
(* Requests are processed one after the other by a worker; a delayed one    *)
(* joins the queue when the queue is empty (WorkerQueue).  timers is in the *)
(* order the requests are due.  Every call has a number of its own, which   *)
(* the code does not keep.  Handlers that only read are "QUERY"; the signal *)
(* strength, sent every minute, is left out.                               *)
(***************************************************************************)
EXTENDS Integers, Sequences, FiniteSets, SequencesExt, FiniteSetsExt, Scenario

\* The instances.
\* maxNumberActiveCalls
MaxCalls == InRun([safety |-> 3, progress |-> 2])
MaxParties == 2  \* maxConnectionsPerCall
MaxAsked == InRun([safety |-> 3, further |-> 5])  \* requests from outside
\* which of them are made
Requests == InRun([
     safety |-> {"QUERY", "DIAL", "HANGUP", "HANGUP_WB", "HANGUP_FG", "SWITCH", "CONFERENCE",
        "ANSWER", "SEPARATE", "MT_CALL", "HANGUP_REMOTE", "FLAG", "ALERT", "ACTIVE",
        "ADD_DIALING"},
     further |-> {"DIAL", "MT_CALL", "HANGUP_WB", "SWITCH"},
     progress |-> {"DIAL", "SWITCH", "CONFERENCE", "HANGUP_REMOTE", "MT_CALL"}])

VARIABLES
    calls,        \* the array, by index
    numberActiveCalls,
    incomingCallIsProcessed,
    mistaken,     \* what incomingCallIsProcessed is and should not be: "no", "set"
                  \* while a call rings, "unset" while none does
    callTransitionFlag,
    lastSwitch,   \* the last request of the framework was SWITCH
    queue,        \* requests to process
    timers,       \* requests that are delayed, and the seconds left
    asked,        \* how many requests came from outside
    ids,          \* how many calls there were
    unannounced   \* the calls differ from what the framework was told of

flags == <<incomingCallIsProcessed, mistaken, callTransitionFlag>>
vars == <<calls, numberActiveCalls, flags, lastSwitch, queue, timers, asked, ids, unannounced>>

Index == 1 .. MaxCalls
CallState == {"ACTIVE", "HOLDING", "DIALING", "ALERTING", "INCOMING", "WAITING"}

\* A request: what is asked, the index or flag it is about, and the next state
\* of that call.
Request(num, arg) == [num |-> num, arg |-> arg, next |-> "ACTIVE"]
CallStateChange(i, s) == [num |-> "STATE_CHANGE", arg |-> i, next |-> s]
STATE_CHANGED == Request("STATE_CHANGED", 0)
RING == Request("RING", 0)

Args(num) ==
    CASE num \in {"HANGUP", "SEPARATE", "HANGUP_REMOTE"} -> Index
      [] num = "FLAG" -> {0, 1}
      [] OTHER -> {0}

Init ==
    /\ calls = [i \in Index |-> None] /\ numberActiveCalls = 0
    /\ incomingCallIsProcessed = FALSE /\ mistaken = "no" /\ callTransitionFlag = FALSE
    /\ lastSwitch = FALSE /\ queue = <<>> /\ timers = <<>>
    /\ asked = 0 /\ ids = 0 /\ unannounced = FALSE

Used == {i \in Index : calls[i] # None}
In(states) == {i \in Used : calls[i].state \in states}
Ringing == In({"INCOMING", "WAITING"})

-----------------------------------------------------------------------------
(* The worker.                                                             *)

\* Requests of the framework and of the control server.
Ask(num, arg) ==
    /\ asked < MaxAsked
    /\ asked' = asked + 1
    /\ queue' = Append(queue, Request(num, arg))
    /\ UNCHANGED <<calls, numberActiveCalls, flags, lastSwitch, timers, ids, unannounced>>

Later(ts, r, seconds) ==
    SelectSeq(ts, LAMBDA t : t.left <= seconds) \o <<[req |-> r, left |-> seconds]>>
        \o SelectSeq(ts, LAMBDA t : t.left > seconds)

Tick ==
    /\ \E k \in DOMAIN timers : timers[k].left > 0
    /\ timers' = [k \in DOMAIN timers |->
                     [timers[k] EXCEPT !.left = IF @ = 0 THEN 0 ELSE @ - 1]]
    /\ UNCHANGED <<calls, numberActiveCalls, flags, lastSwitch, queue, asked, ids, unannounced>>

Expire ==
    /\ queue = <<>> /\ timers # <<>> /\ timers[1].left = 0
    /\ LET due == SelectSeq(timers, LAMBDA t : t.left = 0)
       IN  queue' = [k \in DOMAIN due |-> due[k].req]
    /\ timers' = SelectSeq(timers, LAMBDA t : t.left > 0)
    /\ UNCHANGED <<calls, numberActiveCalls, flags, lastSwitch, asked, ids, unannounced>>

\* The request at the head of the queue is processed.
At(num) == queue # <<>> /\ Head(queue).num = num
Arg == Head(queue).arg
Framework == {"QUERY", "DIAL", "HANGUP", "HANGUP_WB", "HANGUP_FG", "SWITCH",
              "CONFERENCE", "ANSWER", "SEPARATE"}

\* What every request ends with; added are the requests it made of the radio.
Done(added) ==
    /\ queue' = Tail(queue) \o added
    /\ lastSwitch' = IF Head(queue).num \in Framework
                     THEN Head(queue).num = "SWITCH" ELSE lastSwitch
    /\ UNCHANGED asked

Keep == UNCHANGED <<calls, numberActiveCalls, ids, unannounced>>
NewCalls(c) == calls' = c /\ unannounced' = (unannounced \/ c # calls)

-----------------------------------------------------------------------------
(* The array of calls.                                                     *)

\* Mutant of addCall: one call too many is counted.
AddCallUncounted(s) ==
    IF numberActiveCalls <= MaxCalls /\ Used # Index
    THEN LET i == Min(Index \ Used)
         IN  /\ ids' = ids + 1 /\ numberActiveCalls' = numberActiveCalls
             /\ NewCalls([calls EXCEPT ![i] = [id |-> ids + 1, state |-> s]])
    ELSE Keep

\* The call takes the first element that is undefined; too many are refused, which
\* the control server's call takes no notice of.
addCall(s) ==
    IF numberActiveCalls < MaxCalls
    THEN LET i == Min(Index \ Used)
         IN  /\ ids' = ids + 1
             /\ numberActiveCalls' = numberActiveCalls + 1
             /\ NewCalls([calls EXCEPT ![i] = [id |-> ids + 1, state |-> s]])
    ELSE Keep

removeCall(i) ==
    /\ NewCalls([calls EXCEPT ![i] = None])
    /\ numberActiveCalls' = numberActiveCalls - 1
    /\ UNCHANGED ids

\* These calls are over or active, and nobody stops the ring of one of them.
Unstopped(gone) ==
    /\ mistaken' = IF gone \cap Ringing = {} THEN mistaken
                   ELSE IF incomingCallIsProcessed THEN "no" ELSE "unset"
    /\ UNCHANGED <<incomingCallIsProcessed, callTransitionFlag>>

\* The loop of three handlers: calls in a state the handler knows get their
\* new state or are removed, in the order of the array, up to the first call
\* in another state.
FirstOther(f) ==
    LET other == {i \in Used : calls[i].state \notin DOMAIN f}
    IN  IF other = {} THEN MaxCalls + 1 ELSE Min(other)
Reached(f) == {i \in Used : i < FirstOther(f)}
Removed(f) == {i \in Reached(f) : f[calls[i].state] = "removed"}
Walk(f) ==
    /\ NewCalls([i \in Index |->
          IF i \in Removed(f) THEN None
          ELSE IF i \in Reached(f) THEN [calls[i] EXCEPT !.state = f[@]]
          ELSE calls[i]])
    /\ numberActiveCalls' = numberActiveCalls - Cardinality(Removed(f))
    /\ UNCHANGED ids
\* Only a loop that got to the end announces what it did.
Announce(f) == IF FirstOther(f) > MaxCalls THEN <<STATE_CHANGED>> ELSE <<>>

-----------------------------------------------------------------------------
(* Requests of the framework.                                              *)

Query ==
    /\ At("QUERY")
    /\ Keep /\ Done(<<>>) /\ UNCHANGED <<flags, timers>>

\* A dialled call alerts after a second and is active after two, unless the
\* transitions are left to the control server.
rilRequestDial ==
    /\ At("DIAL")
    /\ addCall("DIALING")
    /\ IF numberActiveCalls < MaxCalls
       THEN LET i == Min(Index \ Used)
            IN  /\ Done(<<CallStateChange(i, "DIALING")>>)
                /\ timers' = IF callTransitionFlag THEN timers
                             ELSE Later(Later(timers, CallStateChange(i, "ALERTING"), 1),
                                        CallStateChange(i, "ACTIVE"), 2)
       ELSE Done(<<>>) /\ UNCHANGED timers
    /\ UNCHANGED flags

rilRequestHangUp ==
    /\ At("HANGUP")
    /\ IF Arg \in Used THEN removeCall(Arg) ELSE Keep
    /\ Unstopped({Arg})
    /\ Done(<<>>) /\ UNCHANGED timers

Background == [s \in {"HOLDING", "WAITING", "INCOMING"} |-> "removed"]
rilRequestHangupWaitingOrBackground ==
    /\ At("HANGUP_WB")
    /\ Walk(Background)
    /\ Done(Announce(Background))
    /\ IF Removed(Background) = {} THEN UNCHANGED <<incomingCallIsProcessed, mistaken>>
       ELSE /\ incomingCallIsProcessed' = TRUE
            /\ mistaken' = IF Ringing \subseteq Removed(Background) THEN "no" ELSE "set"
    /\ UNCHANGED <<callTransitionFlag, timers>>

Foreground == [s \in {"ACTIVE", "HOLDING", "WAITING"} |->
                  IF s = "ACTIVE" THEN "removed" ELSE "ACTIVE"]
rilRequestHangUpForegroundResumeBackground ==
    /\ At("HANGUP_FG")
    /\ Walk(Foreground)
    /\ Done(Announce(Foreground))
    /\ Unstopped(Reached(Foreground)) /\ UNCHANGED timers

\* The second of two such requests in a row does nothing.
Switched == [s \in {"ACTIVE", "HOLDING", "WAITING"} |->
                IF s = "ACTIVE" THEN "HOLDING" ELSE "ACTIVE"]
rilRequestSwitchWaitingOrHoldingAndActive ==
    /\ At("SWITCH")
    /\ IF lastSwitch THEN Keep /\ Done(<<>>) /\ UNCHANGED flags
       ELSE Walk(Switched) /\ Done(Announce(Switched)) /\ Unstopped(Reached(Switched))
    /\ UNCHANGED timers

rilRequestConference ==
    /\ At("CONFERENCE")
    /\ IF numberActiveCalls \in 1 .. MaxParties /\ Used = In({"ACTIVE", "HOLDING"})
       THEN /\ NewCalls([i \in Index |-> IF i \in Used
                                         THEN [calls[i] EXCEPT !.state = "ACTIVE"]
                                         ELSE None])
            /\ UNCHANGED <<numberActiveCalls, ids>>
            /\ Done(<<STATE_CHANGED>>)
       ELSE Keep /\ Done(<<>>)
    /\ UNCHANGED <<flags, timers>>

\* A single call that is not incoming is removed.
rilRequestAnswer ==
    /\ At("ANSWER")
    /\ IF numberActiveCalls # 1 THEN Keep /\ UNCHANGED flags
       ELSE LET i == Min(Used)
            IN  IF calls[i].state = "INCOMING"
                THEN /\ NewCalls([calls EXCEPT ![i].state = "ACTIVE"])
                     /\ incomingCallIsProcessed' = TRUE /\ mistaken' = "no"
                     /\ UNCHANGED <<numberActiveCalls, ids, callTransitionFlag>>
                ELSE removeCall(i) /\ Unstopped({i})
    /\ Done(<<>>) /\ UNCHANGED timers

\* The others are held, in the order of the array, up to the first that is
\* not active.
rilReqestSeparateConnection ==
    /\ At("SEPARATE")
    /\ IF Arg \in In({"ACTIVE"})
       THEN LET other == Used \ (In({"ACTIVE"}) \cup {Arg})
                stop == IF other = {} THEN MaxCalls + 1 ELSE Min(other)
            IN  /\ NewCalls([i \in Index |-> IF i \in Used \ {Arg} /\ i < stop
                                             THEN [calls[i] EXCEPT !.state = "HOLDING"]
                                             ELSE calls[i]])
                /\ UNCHANGED <<numberActiveCalls, ids>>
                /\ Done(IF other = {} THEN <<STATE_CHANGED>> ELSE <<>>)
       ELSE Keep /\ Done(<<>>)
    /\ UNCHANGED <<flags, timers>>

-----------------------------------------------------------------------------
(* Requests the radio makes of itself.                                     *)

cmdUnsolCallStateChanged ==
    /\ At("STATE_CHANGED")
    /\ unannounced' = FALSE
    /\ Done(<<>>)
    /\ UNCHANGED <<calls, numberActiveCalls, ids, flags, timers>>

\* The call at the index gets the state, whichever call that is by now.
cmdCallStateChange ==
    /\ At("STATE_CHANGE")
    /\ IF Arg \in Used
       THEN /\ NewCalls([calls EXCEPT ![Arg].state = Head(queue).next])
            /\ UNCHANGED <<numberActiveCalls, ids>>
       ELSE Keep
    /\ Unstopped({Arg})
    /\ Done(<<STATE_CHANGED>>) /\ UNCHANGED timers

cmdUnsolCallRing ==
    /\ At("RING")
    /\ IF incomingCallIsProcessed THEN UNCHANGED <<timers, unannounced>>
       ELSE timers' = Later(timers, RING, 3) /\ unannounced' = FALSE
    /\ Done(<<>>) /\ UNCHANGED <<calls, numberActiveCalls, ids, flags>>

-----------------------------------------------------------------------------
(* Commands of the control server.                                         *)

SettingUp == In({"DIALING", "ALERTING", "INCOMING", "WAITING"})
ctrlServerCmdStartInComingCall ==
    /\ At("MT_CALL")
    /\ IF SettingUp = {}
       THEN /\ addCall(IF numberActiveCalls = 0 THEN "INCOMING" ELSE "WAITING")
            /\ incomingCallIsProcessed' = FALSE
            /\ mistaken' = IF numberActiveCalls < MaxCalls THEN "no" ELSE "unset"
            /\ Done(<<RING>>)
       ELSE Keep /\ Done(<<>>) /\ UNCHANGED <<incomingCallIsProcessed, mistaken>>
    /\ UNCHANGED <<callTransitionFlag, timers>>

ctrlServerCmdHangupConnRemote ==
    /\ At("HANGUP_REMOTE")
    /\ IF Arg \in Used
       THEN /\ removeCall(Arg)
            /\ incomingCallIsProcessed' = (incomingCallIsProcessed \/ Arg \in Ringing)
            /\ mistaken' = IF Arg \in Ringing THEN "no" ELSE mistaken
            /\ Done(<<STATE_CHANGED>>)
       ELSE Keep /\ Done(<<>>) /\ UNCHANGED <<incomingCallIsProcessed, mistaken>>
    /\ UNCHANGED <<callTransitionFlag, timers>>

ctrlServerCmdSetCallTransitionFlag ==
    /\ At("FLAG")
    /\ callTransitionFlag' = (Arg = 1)
    /\ Keep /\ Done(<<>>) /\ UNCHANGED <<incomingCallIsProcessed, mistaken, timers>>

\* The one call in a state moves on, when the transitions are not automatic.
MoveOn(from, to) ==
    /\ IF callTransitionFlag /\ Cardinality(In({from})) = 1
       THEN /\ NewCalls([calls EXCEPT ![Min(In({from}))].state = to])
            /\ UNCHANGED <<numberActiveCalls, ids>>
            /\ Done(<<STATE_CHANGED>>)
       ELSE Keep /\ Done(<<>>)
    /\ UNCHANGED <<flags, timers>>
ctrlServerCmdSetCallAlert == At("ALERT") /\ MoveOn("DIALING", "ALERTING")
ctrlServerCmdSetCallActive == At("ACTIVE") /\ MoveOn("ALERTING", "ACTIVE")

ctrlServerCmdAddDialingCall ==
    /\ At("ADD_DIALING")
    /\ IF In({"DIALING"}) = {} THEN addCall("DIALING") ELSE Keep
    /\ Done(<<>>) /\ UNCHANGED <<flags, timers>>

process ==
    \/ Query \/ rilRequestDial \/ rilRequestHangUp
    \/ rilRequestHangupWaitingOrBackground
    \/ rilRequestHangUpForegroundResumeBackground
    \/ rilRequestSwitchWaitingOrHoldingAndActive
    \/ rilRequestConference \/ rilRequestAnswer \/ rilReqestSeparateConnection
    \/ cmdUnsolCallStateChanged \/ cmdCallStateChange \/ cmdUnsolCallRing
    \/ ctrlServerCmdStartInComingCall \/ ctrlServerCmdHangupConnRemote
    \/ ctrlServerCmdSetCallTransitionFlag
    \/ ctrlServerCmdSetCallAlert \/ ctrlServerCmdSetCallActive
    \/ ctrlServerCmdAddDialingCall

Next ==
    \/ \E num \in Requests : \E arg \in Args(num) : Ask(num, arg)
    \/ process \/ Expire \/ Tick

Spec == Init /\ [][Next]_vars

-----------------------------------------------------------------------------
(* Properties.                                                             *)

\* The types of the variables.
TypeOK ==
    LET Req == [num : Framework \cup {"STATE_CHANGED", "STATE_CHANGE", "RING", "MT_CALL",
                                      "HANGUP_REMOTE", "FLAG", "ALERT", "ACTIVE", "ADD_DIALING"},
                arg : 0 .. MaxCalls, next : CallState]
    IN  /\ calls \in [Index -> [id : 1 .. ids, state : CallState] \cup {None}]
        /\ numberActiveCalls \in 0 .. MaxCalls
        /\ <<incomingCallIsProcessed, callTransitionFlag>> \in BOOLEAN \X BOOLEAN
        /\ mistaken \in {"no", "set", "unset"}
        /\ lastSwitch \in BOOLEAN /\ unannounced \in BOOLEAN
        /\ queue \in Seq(Req)
        /\ timers \in Seq([req : Req, left : 0 .. 3])
        /\ asked \in 0 .. MaxAsked /\ ids \in Nat

\* numberActiveCalls counts the calls of the array, whatever requests and late
\* state changes come between; addCall relies on it to find a free element.
CountMatches == numberActiveCalls = Cardinality(Used)

\* There is one call at most that rings, whichever way its state came about.
OneIncoming == Cardinality(Ringing) <= 1

\* The call with this number is dialled, and is active or over.
Dialling(c) == \E i \in Used : calls[i].id = c /\ calls[i].state \in {"DIALING", "ALERTING"}
Settled(c) == \A i \in Used : calls[i].id = c => calls[i].state = "ACTIVE"

RingPending ==
    \/ \E k \in DOMAIN queue : queue[k].num = "RING"
    \/ \E k \in DOMAIN timers : timers[k].req.num = "RING"

\* The phone rings for a call that is incoming or waiting. It also rings on for
\* one that was hung up, resumed, switched to, removed by an ANSWER or overtaken by
\* the late state change of an older call, and for one there was no room for: there
\* nothing sets incomingCallIsProcessed (simulated_radio.js 429-436, 492-494,
\* 543-546, 724-727, 927, 995-1001), and mistaken is "unset".
NoPhantomRing ==
    At("RING") /\ ~incomingCallIsProcessed => Ringing # {} \/ mistaken = "unset"

\* A call that is incoming or waiting keeps ringing, unless the hang-up of held
\* calls set incomingCallIsProcessed and stopped at another call before it reached
\* this one (simulated_radio.js 450-468).
RingsUntilAnswered ==
    Ringing # {} => (RingPending /\ ~incomingCallIsProcessed) \/ mistaken = "set"
=============================================================================
