-------------------------------- MODULE Calls --------------------------------
(***************************************************************************)
(* Hanging up and the failure cause of the last call in Samsung-RIL        *)
(* (call.c).  A hang-up leaves a flag in the request data; a call status   *)
(* takes it, and a release that finds no flag leaves the cause of the      *)
(* call, which the next query of the cause takes.                          *)
(***************************************************************************)
EXTENDS QueueView

CONSTANT Call  \* the calls, each of which happens once

CallsAssumption == None \notin Call

VARIABLES
    hangup,    \* request data of RIL_REQUEST_HANGUP: set or not
    cause,     \* request data of RIL_REQUEST_LAST_CALL_FAIL_CAUSE: whose cause
    calls,     \* the calls: "new", "active" or "over"
    given      \* history: whose cause each query was answered with

callVars == <<hangup, cause, calls, given>>
vars == <<queueVars, callVars>>

Kind == {"HANGUP", "LAST_CALL_FAIL_CAUSE"}
Request == [token : Token, kind : Kind, seq : Nat]
Command == [cmd : {"CALL_RELEASE"}, seq : Nat, old : BOOLEAN, done : BOOLEAN]

Init ==
    /\ QueueInit
    /\ hangup = FALSE /\ cause = None
    /\ calls = [c \in Call |-> "new"]
    /\ given = [t \in Token |-> None]

OnRequest(t, k) ==
    /\ Issue(t, [token |-> t, kind |-> k, seq |-> 0])
    /\ UNCHANGED callVars

Ready == IF radio \in {"sim", "ready"} THEN 1 .. Len(requests) ELSE {}

-----------------------------------------------------------------------------
Hangup(i) ==
    /\ Dispatched(i, Ready) /\ requests[i].kind = "HANGUP"
    /\ LET c == [cmd |-> "CALL_RELEASE", seq |-> seq + 1, old |-> FALSE,
                 done |-> FALSE]
       IN  Send(i, c, Expecting(c, "complete"))
    /\ hangup' = TRUE
    /\ UNCHANGED <<cause, calls, given>>

\* It cannot be sent: the flag is freed, also one that was set before.
HangupFails(i) ==
    /\ Dispatched(i, Ready) /\ requests[i].kind = "HANGUP"
    /\ CompleteNow(i, "GENERIC_FAILURE")
    /\ hangup' = FALSE
    /\ UNCHANGED <<cause, calls, given>>

\* Mutant of LastCallFailCause: the cause is not taken out.
LastCallFailCauseKeeps(i) ==
    /\ Dispatched(i, Ready) /\ requests[i].kind = "LAST_CALL_FAIL_CAUSE"
    /\ CompleteNow(i, IF cause = None THEN "GENERIC_FAILURE" ELSE "SUCCESS")
    /\ given' = [given EXCEPT ![requests[i].token] = cause]
    /\ UNCHANGED <<hangup, cause, calls>>

LastCallFailCause(i) ==
    /\ Dispatched(i, Ready) /\ requests[i].kind = "LAST_CALL_FAIL_CAUSE"
    /\ CompleteNow(i, IF cause = None THEN "GENERIC_FAILURE" ELSE "SUCCESS")
    /\ given' = [given EXCEPT ![requests[i].token] = cause]
    /\ cause' = None
    /\ UNCHANGED <<hangup, calls>>

-----------------------------------------------------------------------------
(* The modem and ipc_call_status.                                          *)

\* Call c is in state s now: any status takes the flag, and only a release
\* that finds none leaves the cause.
CallStatus(c, s) ==
    /\ calls' = [calls EXCEPT ![c] = s]
    /\ hangup' = FALSE
    /\ cause' = IF s = "over" /\ ~hangup THEN c ELSE cause
    /\ UNCHANGED given

\* A call is made or comes in, or the other side or the network ends it.
CallStarts(c) ==
    /\ radio \in {"sim", "ready"} /\ calls[c] = "new"
    /\ CallStatus(c, "active")
    /\ UNCHANGED queueVars

CallEnds(c) ==
    /\ radio # "out" /\ calls[c] = "active"
    /\ CallStatus(c, "over")
    /\ UNCHANGED queueVars

\* The modem releases a call because of command r.
CallReleased(r, c) ==
    /\ radio # "out" /\ calls[c] = "active" /\ ~r.done
    /\ CallStatus(c, "over")
    /\ wire' = (wire \ {r}) \cup {[r EXCEPT !.done = TRUE]}
    /\ stale' = (stale \/ r.old)
    /\ UNCHANGED <<radio, requests, seq, expects, asked, answer, outages>>

\* The generic response to a hang-up: it fails when nothing was released.
HangupResponse(r) == GenResponse(r, r.done) /\ UNCHANGED callVars

\* An outage flushes the request data and ends the calls, unnoticed.
Outage ==
    /\ QueueOutage
    /\ hangup' = FALSE /\ cause' = None
    /\ calls' \in {calls, [c \in Call |-> IF calls[c] = "active" THEN "over"
                                          ELSE calls[c]]}
    /\ UNCHANGED given

RadioChange(s) == RadioState(s) /\ UNCHANGED callVars

Next ==
    \/ \E t \in Token, k \in Kind : OnRequest(t, k)
    \/ \E i \in 1 .. Len(requests) :
          Hangup(i) \/ HangupFails(i) \/ LastCallFailCause(i)
    \/ \E c \in Call :
          CallStarts(c) \/ CallEnds(c) \/ (\E r \in wire : CallReleased(r, c))
    \/ \E r \in wire : HangupResponse(r)
    \/ Outage
    \/ \E s \in {"off", "sim"} : RadioChange(s)

Spec == Init /\ [][Next]_vars
-----------------------------------------------------------------------------
(* Properties.                                                             *)

TypeOK ==
    /\ requests \in Seq(Request) /\ wire \subseteq Command
    /\ hangup \in BOOLEAN /\ cause \in Call \cup {None}
    /\ calls \in [Call -> {"new", "active", "over"}]
    /\ given \in [Token -> Call \cup {None}]

\* The cause of a call is given once, to one query, whatever is hung up and
\* asked for in between.
CauseOnce ==
    \A t, u \in Token : t # u /\ given[t] # None => given[t] # given[u]
=============================================================================
