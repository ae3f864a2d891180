----------------------------- MODULE HandlersProofs -----------------------------
(***************************************************************************)
(* Proofs about Handlers: what the modules of the components prove of one  *)
(* component holds of the handlers, since a step of the handlers is a step *)
(* of one of them, and the others have no value.                           *)
(***************************************************************************)
EXTENDS Handlers, TLAPS

-----------------------------------------------------------------------------
(* Calls (call.c).                                                         *)

\* Types: those of TypeOK, of the queue, and of the expects of hang-ups.
CallExpect == [seq : Nat, cmd : {"CALL_RELEASE"}, mode : {"complete"}]

CallTypes == Hangups!TypeOK /\ Hangups!QueueInv /\ expects \in Seq(CallExpect)

\* Where the cause of a call can be: a call that is not over has left none, and
\* the one that is kept has been given to no query.
CausesKept ==
    /\ \A c \in Call : calls[c] # "over" =>
          cause # c /\ \A t \in Token : given[t] # c
    /\ cause # None => \A t \in Token : given[t] # cause
    /\ Hangups!CauseOnce

\* Requests, commands, and expects are what the lemmas about the queue need.
LEMMA CallShapes ==
    /\ Hangups!Numberable(Hangups!Request) /\ Hangups!Ageable(Hangups!Command)
    /\ \A n \in Nat :
          LET c == [cmd |-> "CALL_RELEASE", seq |-> n, old |-> FALSE, done |-> FALSE]
          IN  /\ c \in Hangups!Command
              /\ Hangups!Expecting(c, "complete") \in Seq(CallExpect)
    /\ \A c \in Hangups!Command : [c EXCEPT !.done = TRUE] \in Hangups!Command
<1>1. Hangups!Numberable(Hangups!Request)
  BY DEF Hangups!Numberable, Hangups!Request
<1>2. /\ Hangups!Ageable(Hangups!Command)
      /\ \A c \in Hangups!Command : [c EXCEPT !.done = TRUE] \in Hangups!Command
  BY DEF Hangups!Ageable, Hangups!Command
<1>3. ASSUME NEW n \in Nat
      PROVE  LET c == [cmd |-> "CALL_RELEASE", seq |-> n, old |-> FALSE, done |-> FALSE]
             IN  /\ c \in Hangups!Command
                 /\ Hangups!Expecting(c, "complete") \in Seq(CallExpect)
  BY DEF Hangups!Command, Hangups!Expecting, CallExpect
<1> QED
  BY <1>1, <1>2, <1>3

\* Initially nothing is queued, no call was made and no cause given.
LEMMA CallsInit ==
    ASSUME Hangups!CallsAssumption, Hangups!Init
    PROVE  CallTypes /\ CausesKept
<1>1. Hangups!QueueInv
  BY Hangups!QueueInitInv, QueueAssumption DEF Hangups!Init
<1>2. CallTypes
  <2>1. /\ requests \in Seq(Hangups!Request) /\ expects \in Seq(CallExpect)
        /\ wire \subseteq Hangups!Command
    BY DEF Hangups!Init, Hangups!QueueInit
  <2>2. /\ hangup \in BOOLEAN /\ cause \in Call \cup {None}
        /\ calls \in [Call -> {"new", "active", "over"}]
        /\ given \in [Token -> Call \cup {None}]
    BY DEF Hangups!Init
  <2> QED
    BY <1>1, <2>1, <2>2 DEF CallTypes, Hangups!TypeOK
<1>3. /\ \A c \in Call : calls[c] = "new" /\ c # None
      /\ \A t \in Token : given[t] = None
      /\ cause = None
  BY DEF Hangups!Init, Hangups!CallsAssumption
<1> QED
  BY <1>2, <1>3 DEF CausesKept, Hangups!CauseOnce

\* ril_on_request, the handlers, and the modem keep the types.
LEMMA CallTypeStep ==
    ASSUME Hangups!CallsAssumption, None \notin Token, CallTypes,
           [Hangups!Next]_(Hangups!vars)
    PROVE  CallTypes'
<1> USE DEF Hangups!CallsAssumption
<1>0. /\ requests \in Seq(Hangups!Request) /\ Hangups!QueueInv
      /\ wire \subseteq Hangups!Command
      /\ expects \in Seq(CallExpect) /\ seq \in Nat
  BY DEF CallTypes, Hangups!TypeOK, Hangups!QueueInv
<1> USE <1>0
<1>1. ASSUME NEW t \in Token, NEW k \in Hangups!Kind, Hangups!OnRequest(t, k)
      PROVE  CallTypes'
  <2> DEFINE r == [token |-> t, kind |-> k, seq |-> 0]
  <2>1. r \in Hangups!Request /\ r.token = t /\ r.kind # "none" /\ r.seq = 0
    BY DEF Hangups!Request, Hangups!Kind
  <2>2. Hangups!Issue(t, r)
    BY <1>1 DEF Hangups!OnRequest
  <2> HIDE DEF r
  <2>3. Hangups!QueueInv' /\ requests' \in Seq(Hangups!Request)
    BY <2>1, <2>2, Hangups!IssueKeeps, QueueAssumption
  <2> QED
    BY <1>1, <2>2, <2>3
       DEF Hangups!OnRequest, Hangups!Issue, Hangups!callVars, CallTypes,
           Hangups!TypeOK
<1>2. ASSUME NEW i \in 1 .. Len(requests), Hangups!Hangup(i)
      PROVE  CallTypes'
  <2> DEFINE c == [cmd |-> "CALL_RELEASE", seq |-> seq + 1, old |-> FALSE,
                   done |-> FALSE]
             E == Hangups!Expecting(c, "complete")
  <2>1. c \in Hangups!Command /\ E \in Seq(CallExpect)
    BY CallShapes
  <2>2. Hangups!Send(i, c, E)
    BY <1>2 DEF Hangups!Hangup
  <2> HIDE DEF c, E
  <2>3. Hangups!QueueInv' /\ requests' \in Seq(Hangups!Request)
    BY <2>2, Hangups!SendKeeps, CallShapes, QueueAssumption
  <2>4. wire' \subseteq Hangups!Command /\ expects' \in Seq(CallExpect)
    BY <2>1, <2>2 DEF Hangups!Send
  <2> QED
    BY <1>2, <2>3, <2>4 DEF Hangups!Hangup, CallTypes, Hangups!TypeOK
<1>3. ASSUME NEW i \in 1 .. Len(requests), NEW e, Hangups!CompleteNow(i, e),
             hangup' \in BOOLEAN, cause' \in {cause, None}, UNCHANGED calls,
             given' = given \/ given' = [given EXCEPT ![requests[i].token] = cause]
      PROVE  CallTypes'
  <2>1. Hangups!QueueInv' /\ requests' \in Seq(Hangups!Request)
    BY <1>3, Hangups!CompleteNowKeeps, QueueAssumption
  <2>2. wire' = wire /\ expects' = expects
    BY <1>3 DEF Hangups!CompleteNow
  <2>3. given' \in [Token -> Call \cup {None}]
    BY <1>3 DEF CallTypes, Hangups!TypeOK
  <2> QED
    BY <1>3, <2>1, <2>2, <2>3 DEF CallTypes, Hangups!TypeOK
<1>4. ASSUME NEW i \in 1 .. Len(requests),
             Hangups!HangupFails(i) \/ Hangups!LastCallFailCause(i)
      PROVE  CallTypes'
  BY <1>3, <1>4
     DEF Hangups!HangupFails, Hangups!LastCallFailCause, CallTypes, Hangups!TypeOK
<1>5. ASSUME NEW c \in Call, NEW s \in {"active", "over"}, Hangups!CallStatus(c, s)
      PROVE  /\ hangup' \in BOOLEAN /\ cause' \in Call \cup {None}
             /\ calls' \in [Call -> {"new", "active", "over"}]
             /\ given' \in [Token -> Call \cup {None}]
  BY <1>5 DEF Hangups!CallStatus, CallTypes, Hangups!TypeOK
<1>6. ASSUME NEW c \in Call, Hangups!CallStarts(c) \/ Hangups!CallEnds(c)
      PROVE  CallTypes'
  <2>1. UNCHANGED Hangups!queueVars
    BY <1>6 DEF Hangups!CallStarts, Hangups!CallEnds
  <2>2. Hangups!QueueInv'
    BY <2>1, Hangups!RadioKeeps, QueueAssumption DEF Hangups!queueVars
  <2> QED
    BY <1>5, <1>6, <2>1, <2>2
       DEF Hangups!CallStarts, Hangups!CallEnds, Hangups!queueVars, CallTypes,
           Hangups!TypeOK
<1>7. ASSUME NEW c \in Call, NEW r \in wire, Hangups!CallReleased(r, c)
      PROVE  CallTypes'
  <2>1. Hangups!QueueInv'
    BY <1>7, Hangups!RadioKeeps, QueueAssumption DEF Hangups!CallReleased
  <2>2. wire' \subseteq Hangups!Command
    BY <1>7, CallShapes DEF Hangups!CallReleased
  <2> QED
    BY <1>5, <1>7, <2>1, <2>2 DEF Hangups!CallReleased, CallTypes, Hangups!TypeOK
<1>8. ASSUME NEW r \in wire, Hangups!HangupResponse(r)
      PROVE  CallTypes'
  <2>1. r.done \in BOOLEAN
    BY DEF Hangups!Command
  <2>2. Hangups!GenResponse(r, r.done) /\ wire' \subseteq wire
    BY <1>8
       DEF Hangups!HangupResponse, Hangups!GenResponse, Hangups!Receive,
           Hangups!ReceiveState
  <2>3. /\ Hangups!QueueInv' /\ requests' \in Seq(Hangups!Request)
        /\ expects' \in Seq(CallExpect)
    BY <2>1, <2>2, Hangups!GenResponseKeeps, QueueAssumption
  <2> QED
    BY <1>8, <2>2, <2>3
       DEF Hangups!HangupResponse, Hangups!callVars, CallTypes, Hangups!TypeOK
<1>9. CASE Hangups!Outage
  <2>1. /\ Hangups!QueueInv' /\ requests' = <<>> /\ expects' = <<>>
        /\ wire' \subseteq Hangups!Command
    BY <1>9, Hangups!OutageKeeps, CallShapes, QueueAssumption DEF Hangups!Outage
  <2>2. requests' \in Seq(Hangups!Request) /\ expects' \in Seq(CallExpect)
    BY <2>1
  <2>3. calls' \in [Call -> {"new", "active", "over"}]
    BY <1>9 DEF Hangups!Outage, CallTypes, Hangups!TypeOK
  <2> QED
    BY <1>9, <2>1, <2>2, <2>3 DEF Hangups!Outage, CallTypes, Hangups!TypeOK
<1>10. ASSUME NEW s, Hangups!RadioChange(s)
       PROVE  CallTypes'
  <2>1. Hangups!QueueInv'
    BY <1>10, Hangups!RadioKeeps, QueueAssumption
       DEF Hangups!RadioChange, Hangups!RadioState
  <2> QED
    BY <1>10, <2>1
       DEF Hangups!RadioChange, Hangups!RadioState, Hangups!callVars, CallTypes,
           Hangups!TypeOK
<1>11. CASE UNCHANGED Hangups!vars
  <2>1. Hangups!QueueInv'
    BY <1>11, Hangups!RadioKeeps, QueueAssumption
       DEF Hangups!vars, Hangups!queueVars
  <2> QED
    BY <1>11, <2>1
       DEF Hangups!vars, Hangups!queueVars, Hangups!callVars, CallTypes,
           Hangups!TypeOK
<1> QED
  BY <1>1, <1>2, <1>4, <1>6, <1>7, <1>8, <1>9, <1>10, <1>11 DEF Hangups!Next

\* The cause of a call is given once: only the end of the call leaves it, which
\* comes once, and whoever takes it leaves none.
LEMMA CauseStep ==
    ASSUME Hangups!CallsAssumption, CallTypes, CausesKept, [Hangups!Next]_(Hangups!vars)
    PROVE  CausesKept'
<1> USE DEF Hangups!CallsAssumption, CausesKept, Hangups!CauseOnce, CallTypes, Hangups!TypeOK
<1>1. CASE UNCHANGED <<cause, calls, given>>
  BY <1>1
<1>2. ASSUME NEW i \in 1 .. Len(requests), Hangups!LastCallFailCause(i)
      PROVE  CausesKept'
  <2>1. requests[i].token \in Token
    <3>1. requests[i] \in Hangups!Request
      OBVIOUS
    <3> QED
      BY <3>1 DEF Hangups!Request
  <2>2. cause' = None /\ calls' = calls
        /\ given' = [given EXCEPT ![requests[i].token] = cause]
    BY <1>2 DEF Hangups!LastCallFailCause
  <2>3. \A t \in Token : given'[t] = IF t = requests[i].token THEN cause ELSE given[t]
    BY <2>1, <2>2
  <2> QED
    BY <2>1, <2>2, <2>3
<1>3. ASSUME NEW c \in Call, NEW s \in {"active", "over"}, Hangups!CallStatus(c, s),
             calls[c] # "over"
      PROVE  CausesKept'
  <2>1. given' = given /\ (cause' = cause \/ (cause' = c /\ s = "over"))
        /\ \A d \in Call : calls'[d] = IF d = c THEN s ELSE calls[d]
    BY <1>3 DEF Hangups!CallStatus
  <2>2. c # None
    OBVIOUS
  <2> QED
    BY <1>3, <2>1, <2>2
<1>4. CASE Hangups!Outage
  <2>1. cause' = None /\ given' = given
        /\ \A c \in Call : calls'[c] = calls[c] \/ calls'[c] = "over"
    BY <1>4 DEF Hangups!Outage
  <2>2. \A c \in Call : calls'[c] # "over" => calls[c] # "over"
    BY <2>1
  <2>3. \A c \in Call : cause' # c
    BY <2>1
  <2> QED
    BY <2>1, <2>2, <2>3
<1>5. ASSUME NEW c \in Call,
             \/ Hangups!CallStarts(c) \/ Hangups!CallEnds(c)
             \/ \E r \in wire : Hangups!CallReleased(r, c)
      PROVE  CausesKept'
  BY <1>3, <1>5 DEF Hangups!CallStarts, Hangups!CallEnds, Hangups!CallReleased
<1> QED
  BY <1>1, <1>2, <1>4, <1>5
     DEF Hangups!Next, Hangups!vars, Hangups!callVars, Hangups!OnRequest,
         Hangups!Hangup, Hangups!HangupFails, Hangups!HangupResponse,
         Hangups!RadioChange

CallsInv == part = "calls" => CallTypes /\ CausesKept

LEMMA CallsStep ==
    ASSUME CallsInv, [Next]_vars
    PROVE  CallsInv'
<1> SUFFICES ASSUME part' = "calls"
             PROVE  CallTypes' /\ CausesKept'
  BY DEF CallsInv
<1>1. Hangups!CallsAssumption
  BY HandlersAssumption
<1>2. None \notin Token
  BY QueueAssumption
<1>3. part = "calls"
  BY DEF Next, vars
<1>4. [Hangups!Next]_(Hangups!vars)
  BY <1>3 DEF Next, vars, Hangups!vars, Hangups!queueVars, Hangups!callVars
<1>5. CallTypes'
  BY <1>1, <1>2, <1>3, <1>4, CallTypeStep DEF CallsInv
<1> QED
  BY <1>1, <1>3, <1>4, <1>5, CauseStep DEF CallsInv

LEMMA CallsHold == Spec => []CallsInv
<1>1. Init => CallsInv
  BY HandlersAssumption, CallsInit DEF Init, CallsInv
<1> QED
  BY <1>1, CallsStep, PTL DEF Spec

\* The cause of a call is given once, to one query: what ipc_call_list notes
\* when a call ends is taken by the first RIL_REQUEST_LAST_CALL_FAIL_CAUSE.
THEOREM CausesGivenOnce == Spec => []CauseOnce
<1>1. CallsInv => CauseOnce
  BY DEF CallsInv, CauseOnce, CausesKept
<1> QED
  BY <1>1, CallsHold, PTL

-----------------------------------------------------------------------------
(* Tones (call.c).                                                         *)

TonesInv ==
    part = "dtmf" => Tones!TypeInv /\ Tones!PlayedInv /\ Tones!FollowedInv

LEMMA TonesStep ==
    ASSUME TonesInv, [Next]_vars
    PROVE  TonesInv'
<1> SUFFICES ASSUME part' = "dtmf"
             PROVE  Tones!TypeInv' /\ Tones!PlayedInv' /\ Tones!FollowedInv'
  BY DEF TonesInv
<1>1. None \notin Token
  BY QueueAssumption
<1>2. part = "dtmf"
  BY DEF Next, vars
<1>3. [Tones!Next]_(Tones!vars)
  BY <1>2 DEF Next, vars, Tones!vars, Tones!queueVars, Tones!dataVars, Tones!histVars
<1>4. Tones!TypeInv'
  BY <1>1, <1>2, <1>3, Tones!TypeStep, QueueAssumption DEF TonesInv
<1>5. Tones!PlayedInv'
  BY <1>1, <1>2, <1>3, <1>4, Tones!PlayedStep, QueueAssumption DEF TonesInv
<1>6. Tones!FollowedInv'
  BY <1>2, <1>3, Tones!FollowedStep, QueueAssumption DEF TonesInv
<1> QED
  BY <1>4, <1>5, <1>6

LEMMA TonesHold == Spec => []TonesInv
<1>1. Init => TonesInv
  BY Tones!TypeInit, Tones!PlayedInit, Tones!FollowedInit, QueueAssumption
     DEF Init, TonesInv
<1> QED
  BY <1>1, TonesStep, PTL DEF Spec

\* A tone reported as played was handed to the modem, and as long as nothing
\* fails none is left playing with nobody to stop it: what
\* ril_request_dtmf_start stores is what ipc_call_cont_dtmf_callback sends.
THEOREM TonesAreFollowed == Spec => []TonesFollowed
<1>1. TonesInv => TonesFollowed
  BY Tones!TonesHold, QueueAssumption DEF TonesInv, TonesFollowed
<1> QED
  BY <1>1, TonesHold, PTL

-----------------------------------------------------------------------------
(* Network registration (network.c).                                       *)

NetworkInv == part = "network" => Registration!TypeInv /\ Registration!FreshInv

LEMMA NetworkStep ==
    ASSUME NetworkInv, [Next]_vars
    PROVE  /\ NetworkInv'
           /\ part = "network" => Registration!FreshAfterOutage
<1> SUFFICES ASSUME part = "network" \/ part' = "network"
             PROVE  /\ Registration!TypeInv' /\ Registration!FreshInv'
                    /\ Registration!FreshAfterOutage
  BY DEF NetworkInv
<1>1. Registration!NetworkAssumption
  BY HandlersAssumption
<1>2. None \notin Token
  BY QueueAssumption
<1>3. part = "network"
  BY DEF Next, vars
<1>4. [Registration!Next]_(Registration!vars)
  BY <1>3 DEF Next, vars, Registration!vars, Registration!queueVars, Registration!netVars
<1>5. Registration!TypeInv'
  BY <1>1, <1>2, <1>3, <1>4, Registration!TypeStep, QueueAssumption DEF NetworkInv
<1> QED
  BY <1>1, <1>2, <1>3, <1>4, <1>5, Registration!FreshStep, QueueAssumption DEF NetworkInv

LEMMA NetworkHolds == Spec => []NetworkInv
<1>1. Init => NetworkInv
  BY HandlersAssumption, Registration!InitHolds, QueueAssumption DEF Init, NetworkInv
<1> QED
  BY <1>1, NetworkStep, PTL DEF Spec

\* A query of the registration or the operator is never answered with a state
\* from before the last outage: ril_request_data_flush drops what
\* ipc_net_regist and the others kept.
THEOREM FreshStates == Spec => FreshAfterOutage
<1>1. NetworkInv /\ [Next]_vars => [part = "network" => Registration!FreshAfterOutage]_vars
  BY NetworkStep
<1> QED
  BY <1>1, NetworkHolds, PTL DEF Spec, FreshAfterOutage

-----------------------------------------------------------------------------
(* Serial numbers (misc.c).                                                *)

SerialTypes == Serials!TypeOK /\ Serials!QueueInv /\ expects = <<>>

\* One request of each kind is handled at a time, and a handled one waits for
\* a command.
SerialsWaited ==
    /\ \A i, j \in 1 .. Len(requests) :
          /\ Serials!Handled(requests[i]) /\ Serials!Handled(requests[j])
          /\ requests[i].kind = requests[j].kind
          => i = j
    /\ Serials!SerialWaits

\* Requests and commands are what the lemmas about the queue need.
LEMMA SerialShapes ==
    /\ Serials!Numberable(Serials!Request) /\ Serials!Ageable(Serials!Command)
    /\ \A n \in Nat : [cmd |-> "MISC_ME_SN", seq |-> n, old |-> FALSE] \in Serials!Command
<1>1. Serials!Numberable(Serials!Request)
  BY DEF Serials!Numberable, Serials!Request
<1>2. Serials!Ageable(Serials!Command)
  BY DEF Serials!Ageable, Serials!Command
<1>3. \A n \in Nat : [cmd |-> "MISC_ME_SN", seq |-> n, old |-> FALSE] \in Serials!Command
  BY DEF Serials!Command
<1> QED
  BY <1>1, <1>2, <1>3

\* Initially nothing is queued.
LEMMA SerialsInit == ASSUME Serials!Init PROVE SerialTypes /\ SerialsWaited
<1>1. Serials!QueueInv
  BY Serials!QueueInitInv, QueueAssumption DEF Serials!Init
<1>2. requests = <<>> /\ wire = {} /\ expects = <<>> /\ answer = [t \in Token |-> "none"]
  BY DEF Serials!Init, Serials!QueueInit
<1> QED
  BY <1>1, <1>2 DEF SerialTypes, Serials!TypeOK, SerialsWaited, Serials!SerialWaits

\* A request that shares the answer keeps its place without a number.
LEMMA SharedKeeps ==
    ASSUME SerialTypes, NEW i \in 1 .. Len(requests),
           requests' = [requests EXCEPT ![i].seq = Serials!NoNumber],
           UNCHANGED <<seq, asked, answer>>
    PROVE  /\ Serials!QueueInv' /\ requests' \in Seq(Serials!Request)
           /\ Len(requests') = Len(requests)
           /\ \A j \in 1 .. Len(requests) :
                 /\ requests'[j].token = requests[j].token
                 /\ requests'[j].kind = requests[j].kind
                 /\ requests'[j].seq = IF j = i THEN -1 ELSE requests[j].seq
<1>1. requests \in Seq(Serials!Request) /\ Serials!QueueInv
  BY DEF SerialTypes, Serials!TypeOK
<1>2. requests[i] \in Serials!Request
  BY <1>1
<1>3. PICK r : r = [requests[i] EXCEPT !.seq = -1]
  OBVIOUS
<1>4. /\ r \in Serials!Request /\ r.token = requests[i].token
      /\ r.kind = requests[i].kind /\ r.seq = -1
  BY <1>2, <1>3 DEF Serials!Request
<1>5. requests' = [requests EXCEPT ![i] = r]
  BY <1>3 DEF Serials!NoNumber
<1>6. /\ requests' \in Seq(Serials!Request) /\ Len(requests') = Len(requests)
      /\ \A j \in 1 .. Len(requests) :
            requests'[j] = IF j = i THEN r ELSE requests[j]
  BY <1>1, <1>4, <1>5
<1>7. \A j \in 1 .. Len(requests) :
         /\ requests'[j].token = requests[j].token
         /\ requests'[j].kind = requests[j].kind
         /\ requests'[j].seq = IF j = i THEN -1 ELSE requests[j].seq
  <2> TAKE j \in 1 .. Len(requests)
  <2>1. CASE j = i
    BY <1>4, <1>6, <2>1
  <2>2. CASE j # i
    BY <1>6, <2>2
  <2> QED
    BY <2>1, <2>2
<1>8. Serials!QueueInv'
  <2>1. ASSUME NEW j \in 1 .. Len(requests) PROVE Serials!Queued(requests[j])'
    <3>1. Serials!Queued(requests[j]) /\ seq \in Nat
      BY <1>1 DEF Serials!QueueInv
    <3>2. requests'[j].seq \in Int /\ requests'[j].seq <= seq
      BY <1>7, <3>1 DEF Serials!Queued
    <3> QED
      BY <1>7, <3>1, <3>2 DEF Serials!Queued
  <2>2. Serials!DistinctTokens(requests')
    BY <1>1, <1>6, <1>7 DEF Serials!DistinctTokens, Serials!QueueInv
  <2> QED
    BY <1>1, <1>6, <2>1, <2>2 DEF Serials!QueueInv
<1> QED
  BY <1>6, <1>7, <1>8

\* Whom an answer completes: no handled request of the kind, or the first.
LEMMA HandledCases ==
    ASSUME SerialTypes, NEW k \in Serials!Kind
    PROVE  \/ /\ Serials!HandledOf(k) = None
              /\ \A i \in 1 .. Len(requests) :
                    ~(requests[i].kind = k /\ Serials!Handled(requests[i]))
           \/ \E i \in 1 .. Len(requests) :
                 /\ requests[i].kind = k /\ Serials!Handled(requests[i])
                 /\ Serials!HandledOf(k) = requests[i].token
<1> DEFINE H == {i \in 1 .. Len(requests) : requests[i].kind = k /\ Serials!Handled(requests[i])}
<1>1. CASE H = {}
  BY <1>1 DEF Serials!HandledOf
<1>2. CASE H # {}
  <2>1. H \in SUBSET Nat
    OBVIOUS
  <2>2. PICK i \in H : \A j \in H : i <= j
    BY <1>2, <2>1, Serials!LeastOf, QueueAssumption
  <2>3. (CHOOSE l \in H : \A j \in H : l <= j) \in H
    BY <2>2
  <2> QED
    BY <1>2, <2>3 DEF Serials!HandledOf
<1> QED
  BY <1>1, <1>2

\* ipc_misc_me_sn leaves the requests it does not find, in the list once.
LEMMA MeSnKeeps ==
    ASSUME None \notin Token, SerialTypes, NEW c \in wire, Serials!MeSn(c)
    PROVE  /\ Serials!QueueInv' /\ requests' \in Seq(Serials!Request)
           /\ \A j \in 1 .. Len(requests') :
                 /\ requests'[j].token \notin Serials!Found
                 /\ \E l \in 1 .. Len(requests) : requests'[j] = requests[l]
<1>1. requests \in Seq(Serials!Request) /\ Serials!QueueInv
  BY DEF SerialTypes, Serials!TypeOK
<1>2. PICK q : q = Serials!Unregister(requests, Serials!HandledOf("IMEI"))
  OBVIOUS
<1>3. requests' = Serials!Unregister(q, Serials!HandledOf("IMEISV"))
  BY <1>2 DEF Serials!MeSn
<1>4. /\ q \in Seq(Serials!Request) /\ Serials!DistinctTokens(q)
      /\ \A j \in 1 .. Len(q) :
            /\ q[j].token # Serials!HandledOf("IMEI")
            /\ \E l \in 1 .. Len(requests) : q[j] = requests[l]
  BY <1>1, <1>2, Serials!UnregisterType, Serials!UnregisterDistinct, Serials!UnregisterGone, Serials!UnregisterElements, QueueAssumption
     DEF Serials!QueueInv
<1>5. /\ requests' \in Seq(Serials!Request) /\ Serials!DistinctTokens(requests')
      /\ \A j \in 1 .. Len(requests') :
            /\ requests'[j].token # Serials!HandledOf("IMEISV")
            /\ \E l \in 1 .. Len(q) : requests'[j] = q[l]
  BY <1>3, <1>4, Serials!UnregisterType, Serials!UnregisterDistinct, Serials!UnregisterGone, Serials!UnregisterElements, QueueAssumption
<1>6. \A j \in 1 .. Len(requests') :
         /\ requests'[j].token \notin Serials!Found
         /\ \E l \in 1 .. Len(requests) : requests'[j] = requests[l]
  BY <1>4, <1>5 DEF Serials!Found, Serials!Kind
<1>7. PICK e \in {"SUCCESS", "GENERIC_FAILURE"} :
         answer' = [t \in Token |-> IF t \in Serials!Found THEN e ELSE answer[t]]
  BY DEF Serials!MeSn
<1>8. seq' = seq /\ asked' = asked
  BY DEF Serials!MeSn, Serials!Receive, Serials!ReceiveState
<1>9. \A t \in Token : asked[t] = "none" => t \notin Serials!Found
  <2>1. ASSUME NEW k \in Serials!Kind, Serials!HandledOf(k) \in Token PROVE asked[Serials!HandledOf(k)] # "none"
    BY <1>1, <2>1, HandledCases DEF Serials!QueueInv, Serials!Queued
  <2> QED
    BY <2>1 DEF Serials!Found
<1>10. ASSUME NEW j \in 1 .. Len(requests') PROVE Serials!Queued(requests[j])'
  <2>1. PICK l \in 1 .. Len(requests) : requests'[j] = requests[l]
    BY <1>6
  <2>2. Serials!Queued(requests[l]) /\ requests[l].token \notin Serials!Found
    BY <1>1, <1>6, <2>1 DEF Serials!QueueInv
  <2> QED
    BY <1>7, <1>8, <2>1, <2>2 DEF Serials!Queued
<1>11. Serials!QueueInv'
  BY <1>1, <1>5, <1>7, <1>8, <1>9, <1>10 DEF Serials!QueueInv
<1> QED
  BY <1>5, <1>6, <1>11

\* ril_on_request, the handlers, and the modem keep the types, and nobody is
\* left waiting: an answer completes every request that is handled.
LEMMA SerialStep ==
    ASSUME None \notin Token, SerialTypes, SerialsWaited, [Serials!Next]_(Serials!vars)
    PROVE  SerialTypes' /\ SerialsWaited'
<1>0. /\ requests \in Seq(Serials!Request) /\ Serials!QueueInv /\ wire \subseteq Serials!Command
      /\ expects \in Seq(Nat) /\ expects = <<>> /\ seq \in Nat
      /\ answer \in [Token -> {"none", "SUCCESS", "GENERIC_FAILURE",
                               "RADIO_NOT_AVAILABLE"}]
  BY DEF SerialTypes, Serials!TypeOK, Serials!QueueInv
<1> USE <1>0
<1> DEFINE OnePerKind ==
              \A i, j \in 1 .. Len(requests) :
                 /\ Serials!Handled(requests[i]) /\ Serials!Handled(requests[j])
                 /\ requests[i].kind = requests[j].kind
                 => i = j
           Waited == (\E i \in 1 .. Len(requests) : Serials!Handled(requests[i]))
                        => wire # {} \/ refused \/ stale
<1>a. OnePerKind /\ Waited
  BY DEF SerialsWaited, Serials!SerialWaits
<1>b. SerialsWaited' <=> OnePerKind' /\ Waited'
  BY DEF SerialsWaited, Serials!SerialWaits
\* Whatever only removes requests keeps one request per kind.
<1>c. ASSUME Serials!QueueInv', \A j \in 1 .. Len(requests') :
                \E l \in 1 .. Len(requests) : requests'[j] = requests[l]
      PROVE  OnePerKind'
  <2> SUFFICES ASSUME NEW j \in 1 .. Len(requests'), NEW m \in 1 .. Len(requests'),
                      Serials!Handled(requests'[j]), Serials!Handled(requests'[m]),
                      requests'[j].kind = requests'[m].kind
               PROVE  j = m
    BY DEF Serials!Handled
  <2>1. PICK l \in 1 .. Len(requests) : requests'[j] = requests[l]
    BY <1>c
  <2>2. PICK n \in 1 .. Len(requests) : requests'[m] = requests[n]
    BY <1>c
  <2>3. l = n
    BY <1>a, <2>1, <2>2
  <2>4. requests'[j].token = requests'[m].token
    BY <2>1, <2>2, <2>3
  <2> QED
    BY <1>c, <2>4 DEF Serials!QueueInv, Serials!DistinctTokens
\* A request becomes handled that is the first of its kind.
<1>d. ASSUME NEW i \in 1 .. Len(requests), i \in Serials!Ready,
             Len(requests') = Len(requests),
             \A j \in 1 .. Len(requests) :
                /\ requests'[j].kind = requests[j].kind
                /\ j # i => requests'[j].seq = requests[j].seq
      PROVE  OnePerKind'
  <2>1. ~Serials!Busy(requests[i].kind)
    BY <1>d DEF Serials!Ready, Serials!CanRun
  <2> SUFFICES ASSUME NEW j \in 1 .. Len(requests), NEW m \in 1 .. Len(requests),
                      Serials!Handled(requests'[j]), Serials!Handled(requests'[m]),
                      requests'[j].kind = requests'[m].kind
               PROVE  j = m
    BY <1>d
  <2>2. ASSUME NEW n \in 1 .. Len(requests), n # i, Serials!Handled(requests'[n]),
               requests'[n].kind = requests[i].kind
        PROVE  FALSE
    BY <1>d, <2>1, <2>2 DEF Serials!Busy, Serials!Handled
  <2>3. CASE j # i /\ m # i
    <3>1. Serials!Handled(requests[j]) /\ Serials!Handled(requests[m])
      BY <1>d, <2>3 DEF Serials!Handled
    <3> QED
      BY <1>a, <1>d, <3>1
  <2> QED
    BY <1>d, <2>2, <2>3
<1>1. ASSUME NEW t \in Token, NEW k \in Serials!Kind, Serials!OnRequest(t, k)
      PROVE  SerialTypes' /\ SerialsWaited'
  <2>1. PICK r \in Serials!Request : /\ Serials!Issue(t, r) /\ r.token = t /\ r.kind = k /\ r.seq = 0
    BY <1>1 DEF Serials!OnRequest, Serials!Request
  <2>2. r.kind # "none"
    BY <2>1 DEF Serials!Kind
  <2>3. Serials!QueueInv' /\ requests' \in Seq(Serials!Request)
    BY <2>1, <2>2, Serials!IssueKeeps, QueueAssumption
  <2>4. /\ requests' = Append(requests, r)
        /\ UNCHANGED <<wire, expects, answer, stale, refused>>
    BY <1>1, <2>1 DEF Serials!OnRequest, Serials!Issue
  <2>5. \A j \in 1 .. Len(requests') :
           Serials!Handled(requests'[j]) => /\ j \in 1 .. Len(requests)
                                    /\ requests'[j] = requests[j]
    BY <2>1, <2>4 DEF Serials!Handled
  <2>6. OnePerKind' /\ Waited'
    BY <1>a, <2>4, <2>5
  <2> QED
    BY <1>b, <2>3, <2>4, <2>6 DEF SerialTypes, Serials!TypeOK
<1>2. ASSUME NEW i \in 1 .. Len(requests), NEW k \in Serials!Kind, Serials!GetSerialNumber(i, k)
      PROVE  SerialTypes' /\ SerialsWaited'
  <2>1. i \in Serials!Ready /\ requests[i].kind = k /\ refused' = refused
    BY <1>2 DEF Serials!GetSerialNumber, Serials!Dispatched
  <2>2. CASE Serials!Shares(k) /\ requests' = [requests EXCEPT ![i].seq = Serials!NoNumber]
             /\ UNCHANGED <<radio, seq, expects, wire, asked, answer, outages, stale>>
    <3>1. /\ Serials!QueueInv' /\ requests' \in Seq(Serials!Request) /\ Len(requests') = Len(requests)
          /\ \A j \in 1 .. Len(requests) :
                /\ requests'[j].kind = requests[j].kind
                /\ requests'[j].seq = IF j = i THEN -1 ELSE requests[j].seq
      BY <2>2, SharedKeeps
    <3>2. OnePerKind'
      BY <1>d, <2>1, <3>1
    <3>3. wire # {} \/ refused \/ stale
      BY <1>a, <2>2 DEF Serials!Shares, Serials!Busy
    <3> QED
      BY <1>b, <2>1, <2>2, <3>1, <3>2, <3>3 DEF SerialTypes, Serials!TypeOK
  <2>3. CASE Serials!Send(i, [cmd |-> "MISC_ME_SN", seq |-> seq + 1, old |-> FALSE], <<>>)
    <3>1. PICK c \in Serials!Command : Serials!Send(i, c, <<>>)
      BY <2>3, SerialShapes
    <3>2. /\ Serials!QueueInv' /\ requests' \in Seq(Serials!Request) /\ Len(requests') = Len(requests)
          /\ \A j \in 1 .. Len(requests) :
                /\ requests'[j].kind = requests[j].kind
                /\ j # i => requests'[j].seq = requests[j].seq
      BY <3>1, Serials!SendKeeps, SerialShapes, QueueAssumption
    <3>3. OnePerKind'
      BY <1>d, <2>1, <3>2
    <3>4. wire' = wire \cup {c} /\ expects' = <<>> /\ answer' = answer
      BY <3>1 DEF Serials!Send
    <3> QED
      BY <1>b, <3>2, <3>3, <3>4 DEF SerialTypes, Serials!TypeOK
  <2>4. CASE Serials!CompleteNow(i, "GENERIC_FAILURE")
    <3>1. /\ Serials!QueueInv' /\ requests' \in Seq(Serials!Request)
          /\ \A j \in 1 .. Len(requests') :
                \E l \in 1 .. Len(requests) : requests'[j] = requests[l]
          /\ \A u \in Token : answer'[u] \in {"GENERIC_FAILURE", answer[u]}
      BY <2>4, Serials!CompleteNowKeeps, QueueAssumption
    <3>2. /\ requests' = Serials!Unregister(requests, requests[i].token)
          /\ UNCHANGED <<wire, expects, stale>>
      BY <2>4 DEF Serials!CompleteNow, Serials!CompleteToken
    <3>3. OnePerKind'
      BY <1>c, <3>1
    <3>4. Waited'
      BY <1>a, <2>1, <3>1, <3>2
    <3>5. answer' \in [Token -> {"none", "SUCCESS", "GENERIC_FAILURE",
                                 "RADIO_NOT_AVAILABLE"}]
      BY <2>4 DEF Serials!CompleteNow, Serials!CompleteToken
    <3> QED
      BY <1>b, <3>1, <3>2, <3>3, <3>4, <3>5 DEF SerialTypes, Serials!TypeOK
  <2> QED
    BY <1>2, <2>2, <2>3, <2>4 DEF Serials!GetSerialNumber
<1>3. ASSUME NEW c \in wire, Serials!MeSn(c)
      PROVE  SerialTypes' /\ SerialsWaited'
  <2>1. /\ Serials!QueueInv' /\ requests' \in Seq(Serials!Request)
        /\ \A j \in 1 .. Len(requests') :
              /\ requests'[j].token \notin Serials!Found
              /\ \E l \in 1 .. Len(requests) : requests'[j] = requests[l]
    BY <1>3, MeSnKeeps
  <2>2. ASSUME NEW j \in 1 .. Len(requests') PROVE ~Serials!Handled(requests'[j])
    <3>1. PICK l \in 1 .. Len(requests) : requests'[j] = requests[l]
      BY <2>1
    <3>2. requests[l] \in Serials!Request
      OBVIOUS
    <3>3. requests[l].kind \in Serials!Kind /\ requests[l].token # None
      BY <3>2 DEF Serials!Request
    <3>4. CASE Serials!Handled(requests[l])
      <4>1. PICK m \in 1 .. Len(requests) :
               /\ requests[m].kind = requests[l].kind /\ Serials!Handled(requests[m])
               /\ Serials!HandledOf(requests[l].kind) = requests[m].token
        BY <3>3, <3>4, HandledCases
      <4>2. m = l
        BY <1>a, <3>4, <4>1
      <4> QED
        BY <2>1, <3>1, <3>3, <4>1, <4>2 DEF Serials!Found
    <3> QED
      BY <3>1, <3>4
  <2>3. /\ wire' \subseteq Serials!Command /\ expects' = <<>>
        /\ answer' \in [Token -> {"none", "SUCCESS", "GENERIC_FAILURE",
                                  "RADIO_NOT_AVAILABLE"}]
    BY <1>3 DEF Serials!MeSn, Serials!Receive, Serials!ReceiveState
  <2> QED
    BY <1>b, <2>1, <2>2, <2>3 DEF SerialTypes, Serials!TypeOK
<1>4. ASSUME NEW c \in wire, Serials!Refused(c)
      PROVE  SerialTypes' /\ SerialsWaited'
  <2>1. Serials!GenResponse(c, FALSE) /\ wire' \subseteq wire /\ refused'
    BY <1>4 DEF Serials!Refused, Serials!GenResponse, Serials!Receive, Serials!ReceiveState
  <2>2. Serials!Mode(c) = "ignore"
    BY DEF Serials!Mode, Serials!Numbered
  <2>3. UNCHANGED <<requests, answer, expects, asked, seq>>
    BY <2>1, <2>2 DEF Serials!GenResponse, Serials!Receive, Serials!ReceiveState
  <2>4. Serials!QueueInv'
    BY <2>3, Serials!RadioKeeps, QueueAssumption
  <2> QED
    BY <1>a, <1>b, <2>1, <2>3, <2>4 DEF SerialTypes, Serials!TypeOK
<1>5. CASE Serials!Outage
  <2>1. /\ Serials!QueueInv' /\ requests' = <<>> /\ expects' = <<>> /\ wire' \subseteq Serials!Command
        /\ \A t \in Token : answer'[t] \in {"RADIO_NOT_AVAILABLE", answer[t]}
    BY <1>5, Serials!OutageKeeps, SerialShapes, QueueAssumption DEF Serials!Outage
  <2>2. answer' \in [Token -> {"none", "SUCCESS", "GENERIC_FAILURE",
                               "RADIO_NOT_AVAILABLE"}]
    BY <1>5 DEF Serials!Outage, Serials!QueueOutage
  <2> QED
    BY <1>b, <2>1, <2>2 DEF SerialTypes, Serials!TypeOK
<1>6. CASE UNCHANGED <<requests, seq, expects, wire, asked, answer, stale, refused>>
  <2>1. Serials!QueueInv'
    BY <1>6, Serials!RadioKeeps, QueueAssumption
  <2> QED
    BY <1>6, <1>a, <1>b, <2>1 DEF SerialTypes, Serials!TypeOK
<1>7. CASE UNCHANGED Serials!vars \/ \E s \in {"off", "sim"} : Serials!RadioChange(s)
  BY <1>6, <1>7 DEF Serials!vars, Serials!queueVars, Serials!RadioChange, Serials!RadioState
<1>8. ASSUME NEW i \in 1 .. Len(requests), Serials!GetImei(i) \/ Serials!GetImeisv(i)
      PROVE  SerialTypes' /\ SerialsWaited'
  BY <1>2, <1>8 DEF Serials!GetImei, Serials!GetImeisv, Serials!Kind
<1> QED
  BY <1>1, <1>3, <1>4, <1>5, <1>7, <1>8 DEF Serials!Next

SerialsInv == part = "identity" => SerialTypes /\ SerialsWaited

LEMMA SerialsInvStep ==
    ASSUME SerialsInv, [Next]_vars
    PROVE  SerialsInv'
<1> SUFFICES ASSUME part' = "identity"
             PROVE  SerialTypes' /\ SerialsWaited'
  BY DEF SerialsInv
<1>1. None \notin Token
  BY QueueAssumption
<1>2. part = "identity"
  BY DEF Next, vars
<1>3. [Serials!Next]_(Serials!vars)
  BY <1>2 DEF Next, vars, Serials!vars, Serials!queueVars
<1> QED
  BY <1>1, <1>2, <1>3, SerialStep DEF SerialsInv

LEMMA SerialsHold == Spec => []SerialsInv
<1>1. Init => SerialsInv
  BY SerialsInit DEF Init, SerialsInv
<1> QED
  BY <1>1, SerialsInvStep, PTL DEF Spec

\* A query of the serial number that waits waits for a command that the modem
\* has: ril_request_get_imei and ril_request_get_imeisv share one query.
THEOREM SerialsWait == Spec => []SerialWaits
<1>1. SerialsInv => SerialWaits
  BY DEF SerialsInv, SerialWaits, SerialsWaited
<1> QED
  BY <1>1, SerialsHold, PTL

-----------------------------------------------------------------------------
(* Short messages (sms.c).                                                 *)

MessagesInv == part = "sms" => Messages!TypeInv /\ Messages!ReportsInv

LEMMA MessagesStep ==
    ASSUME MessagesInv, [Next]_vars
    PROVE  MessagesInv'
<1> SUFFICES ASSUME part' = "sms"
             PROVE  Messages!TypeInv' /\ Messages!ReportsInv'
  BY DEF MessagesInv
<1>1. Messages!SmsAssumption
  BY HandlersAssumption
<1>2. None \notin Token
  BY QueueAssumption
<1>3. part = "sms"
  BY DEF Next, vars
<1>4. [Messages!Next]_(Messages!vars)
  BY <1>3 DEF Next, vars, Messages!vars, Messages!queueVars, Messages!dataVars,
              Messages!histVars
<1>5. Messages!TypeInv'
  BY <1>1, <1>2, <1>3, <1>4, Messages!TypeStep, QueueAssumption DEF MessagesInv
<1> QED
  BY <1>3, <1>4, <1>5, Messages!ReportsStep, QueueAssumption DEF MessagesInv

LEMMA MessagesHold == Spec => []MessagesInv
<1>1. Init => MessagesInv
  BY Messages!TypeInit, Messages!ReportsInit, QueueAssumption DEF Init, MessagesInv
<1> QED
  BY <1>1, MessagesStep, PTL DEF Spec

\* No incoming message is acknowledged twice or out of order: the identifier
\* ipc_sms_incoming_msg keeps is taken by the one acknowledgement that uses it.
THEOREM MessagesReportedOnce == Spec => []ReportedOnce
<1>1. MessagesInv => ReportedOnce
  BY DEF MessagesInv, ReportedOnce, Messages!ReportsInv
<1> QED
  BY <1>1, MessagesHold, PTL

\* With requests of one kind only, success is reported for messages that were
\* sent and "retry" for messages that were not: the PDU that
\* ril_request_send_sms stores and the request whose number the service centre
\* query has find together again.
THEOREM PdusMatch ==
    ASSUME "SEND_SMS_EXPECT_MORE" \notin SmsKind
    PROVE  Spec => []StoredPduMatches
<1> DEFINE Inv == part = "sms" => Messages!MatchInv
<1>1. Messages!SmsAssumption /\ Messages!OneKind
  BY HandlersAssumption DEF Messages!OneKind
<1>2. None \notin Token
  BY QueueAssumption
<1>3. Init => Inv
  BY Messages!MatchInit, QueueAssumption DEF Init
<1>4. MessagesInv /\ Inv /\ [Next]_vars => Inv'
  <2> SUFFICES ASSUME MessagesInv, Inv, [Next]_vars, part' = "sms"
               PROVE  Messages!MatchInv'
    OBVIOUS
  <2>1. part = "sms"
    BY DEF Next, vars
  <2>2. [Messages!Next]_(Messages!vars)
    BY <2>1 DEF Next, vars, Messages!vars, Messages!queueVars, Messages!dataVars,
                Messages!histVars
  <2> QED
    BY <1>1, <1>2, <2>1, <2>2, Messages!MatchStep, QueueAssumption DEF MessagesInv
<1>5. Inv => StoredPduMatches
  BY Messages!MatchedPdus, QueueAssumption DEF StoredPduMatches
<1> HIDE DEF Inv
<1> QED
  BY <1>3, <1>4, <1>5, MessagesHold, PTL DEF Spec

-----------------------------------------------------------------------------
(* SIM (sim.c).                                                            *)

CardInv == part = "sim" => Card!TypeInv /\ Card!AskedInv

LEMMA CardStep ==
    ASSUME CardInv, [Next]_vars
    PROVE  CardInv'
<1> SUFFICES ASSUME part' = "sim"
             PROVE  Card!TypeInv' /\ Card!AskedInv'
  BY DEF CardInv
<1>1. Card!SimAssumption
  BY HandlersAssumption
<1>2. None \notin Token
  BY QueueAssumption
<1>3. part = "sim"
  BY DEF Next, vars
<1>4. [Card!Next]_(Card!vars)
  BY <1>3 DEF Next, vars, Card!vars, Card!queueVars, Card!simVars
<1>5. Card!TypeInv'
  BY <1>1, <1>2, <1>3, <1>4, Card!TypeStep, QueueAssumption DEF CardInv
<1> QED
  BY <1>1, <1>2, <1>3, <1>4, <1>5, Card!AskedStep, QueueAssumption DEF CardInv

LEMMA CardInvHolds == Spec => []CardInv
<1>1. Init => CardInv
  BY HandlersAssumption, Card!TypeInit, Card!AskedInit, QueueAssumption
     DEF Init, CardInv
<1> QED
  BY <1>1, CardStep, PTL DEF Spec

\* Until an answer from before an outage comes in, the lock is set and the file
\* opened only after the card has accepted the PIN2 of that very request, and a
\* handled request that no command is under way for is one of four: its answer
\* was dropped below SIM_NOT_READY, refused where nothing expects it, or used to
\* enter the stored PIN (sim.c:226-248), or its stored verdict was taken by
\* another request, the SIM handlers sharing one slot per kind of request.
THEOREM CardsAsked == Spec => []CardAsked
<1>1. CardInv => CardAsked
  BY Card!CardHolds, QueueAssumption DEF CardInv, CardAsked
<1> QED
  BY <1>1, CardInvHolds, PTL

-----------------------------------------------------------------------------
(* All of them.                                                            *)

\* The handlers keep the types of their components' data, for any requests,
\* tones, calls, PINs and bounds.
THEOREM TypesHold == Spec => []TypeOK
<1>1. /\ CallsInv => (part = "calls" => Hangups!TypeOK)
      /\ TonesInv => (part = "dtmf" => Tones!TypeOK)
      /\ NetworkInv => (part = "network" => Registration!TypeOK)
  BY DEF CallsInv, CallTypes, TonesInv, Tones!TypeInv, NetworkInv, Registration!TypeInv
<1>2. /\ SerialsInv => (part = "identity" => Serials!TypeOK)
      /\ MessagesInv => (part = "sms" => Messages!TypeOK)
      /\ CardInv => (part = "sim" => Card!TypeOK)
  BY DEF SerialsInv, SerialTypes, MessagesInv, Messages!TypeInv, CardInv, Card!TypeInv
<1>3. CallsInv /\ TonesInv /\ NetworkInv /\ SerialsInv /\ MessagesInv /\ CardInv => TypeOK
  BY <1>1, <1>2 DEF TypeOK
<1> QED
  BY <1>3, CallsHold, TonesHold, NetworkHolds, SerialsHold, MessagesHold, CardInvHolds, PTL
=============================================================================
