------------------------------- MODULE Network -------------------------------
(***************************************************************************)
(* The registration state and the operator of Samsung-RIL (network.c).     *)
(*                                                                         *)
(* When the modem reports a change, the new state is added to the request  *)
(* data of its kind and libril is told that something changed.  A query    *)
(* takes the oldest state kept for its kind, and asks the modem only if    *)
(* there is none.  States are numbered in the order of the changes.        *)
(***************************************************************************)
EXTENDS QueueView

CONSTANTS
    MaxChanges,  \* bound: changes of the network state, of all kinds
    MaxQueries   \* bound: queries

NetworkAssumption == MaxChanges \in Nat /\ MaxQueries \in Nat

Kinds == {"VOICE", "DATA", "OPERATOR"}
Kind == Kinds     \* the kinds of query libril issues

VARIABLES
    data,      \* the request data of each kind, oldest first
    state,     \* the state of the modem, per kind
    base,      \* history: the state of the modem at the last outage
    given      \* history: the state that each query was answered with

netVars == <<data, state, base, given>>
vars == <<queueVars, netVars>>

Request == [token : Token, kind : Kind, seq : Nat]
Command == [cmd : Kinds, seq : Nat, old : BOOLEAN]

Init ==
    /\ QueueInit
    /\ data = [k \in Kinds |-> <<>>]
    /\ state = [k \in Kinds |-> 1]
    /\ base = [k \in Kinds |-> 0]
    /\ given = [t \in Token |-> 0]

OnRequest(t, k) ==
    /\ Cardinality({u \in Token : asked[u] # "none"}) < MaxQueries
    /\ Issue(t, [token |-> t, kind |-> k, seq |-> 0])
    /\ UNCHANGED netVars

-----------------------------------------------------------------------------
(* Queries.                                                                *)

CanRun(r) == radio \in {"sim", "ready"} /\ ~Busy(r.kind)
Ready == {i \in 1 .. Len(requests) : CanRun(requests[i])}

Give(t, v) == given' = IF t = None THEN given ELSE [given EXCEPT ![t] = v]

\* A query of kind k: the oldest state is taken, or the modem asked; if that
\* fails the query does.
Query(i, k) ==
    /\ Dispatched(i, Ready) /\ requests[i].kind = k
    /\ \/ /\ data[k] # <<>>
          /\ CompleteNow(i, "SUCCESS")
          /\ Give(requests[i].token, Head(data[k]))
          /\ data' = [data EXCEPT ![k] = Tail(@)]
       \/ /\ data[k] = <<>>
          /\ Send(i, [cmd |-> k, seq |-> seq + 1, old |-> FALSE], <<>>)
          /\ UNCHANGED <<data, given>>
       \/ /\ data[k] = <<>>
          /\ CompleteNow(i, "GENERIC_FAILURE")
          /\ UNCHANGED <<data, given>>
    /\ UNCHANGED <<state, base>>

RequestOperator(i) == Query(i, "OPERATOR")
VoiceRegistrationState(i) == Query(i, "VOICE")
DataRegistrationState(i) == Query(i, "DATA")

-----------------------------------------------------------------------------
(* Messages: the answer to a command, and the notification of a change.    *)

\* The state is passed on, or cannot be converted; with the radio off the
\* message is dropped.
Response(c) ==
    /\ Receive(c, {})
    /\ \/ /\ radio # "off"
          /\ CompleteToken(FindToken(c.seq), "SUCCESS")
          /\ Give(FindToken(c.seq), state[c.cmd])
       \/ /\ radio # "off"
          /\ CompleteToken(FindToken(c.seq), "GENERIC_FAILURE")
          /\ UNCHANGED given
       \/ /\ radio = "off"
          /\ UNCHANGED <<requests, answer, given>>
    /\ UNCHANGED <<expects, data, state, base>>

\* ril_request_data_set
Kept(q, v) == Append(q, v)

Changes == state["VOICE"] + state["DATA"] + state["OPERATOR"] - 3

Notification(k) ==
    /\ radio # "out" /\ Changes < MaxChanges
    /\ state' = [state EXCEPT ![k] = @ + 1]
    /\ data' = IF radio = "off" THEN data ELSE [data EXCEPT ![k] = Kept(@, state'[k])]
    /\ UNCHANGED <<queueVars, base, given>>

\* ipc_net_serving_network, ipc_net_regist
ServingNetwork(c) == c.cmd = "OPERATOR" /\ Response(c)
Regist(c) == c.cmd \in {"VOICE", "DATA"} /\ Response(c)
ServingNetworkReport == Notification("OPERATOR")
RegistReport(k) == k \in {"VOICE", "DATA"} /\ Notification(k)

\* The modem refuses a query; no generic response is expected.
Refused(c) == GenResponse(c, FALSE) /\ UNCHANGED netVars

\* Mutant of Outage: the request data stay.
OutageLeavesData ==
    /\ QueueOutage
    /\ base' = state
    /\ UNCHANGED <<data, state, given>>

\* An outage flushes the request data.
Outage ==
    /\ QueueOutage
    /\ data' = [k \in Kinds |-> <<>>]
    /\ base' = state
    /\ UNCHANGED <<state, given>>

RadioChange(s) == RadioState(s) /\ UNCHANGED netVars

Next ==
    \/ \E t \in Token, k \in Kind : OnRequest(t, k)
    \/ \E i \in 1 .. Len(requests) :
          RequestOperator(i) \/ VoiceRegistrationState(i) \/ DataRegistrationState(i)
    \/ \E c \in wire : ServingNetwork(c) \/ Regist(c) \/ Refused(c)
    \/ ServingNetworkReport
    \/ \E k \in Kind : RegistReport(k)
    \/ Outage
    \/ \E s \in {"off", "sim"} : RadioChange(s)

Spec == Init /\ [][Next]_vars
-----------------------------------------------------------------------------
(* Properties.                                                             *)

TypeOK ==
    /\ requests \in Seq(Request) /\ wire \subseteq Command
    /\ data \in [Kinds -> Seq(1 .. MaxChanges + 1)]
    /\ state \in [Kinds -> 1 .. MaxChanges + 1]
    /\ given \in [Token -> 0 .. MaxChanges + 1]

Answered(t) == given'[t] # given[t]

\* A query is never answered with a state from before the last outage, also
\* when states were kept or a query was under way when it happened, unless an
\* answer from before it is taken for one from after it.
FreshAfterOutage ==
    \A t \in Token : Answered(t) /\ ~stale' => given'[t] >= base[asked[t]]
-----------------------------------------------------------------------------
(* Proofs, for any requests and bounds.                                    *)

TypeInv == TypeOK /\ QueueInv /\ expects = <<>>

\* What is kept is not older than the last outage, and a command that was sent
\* after it is about the kind of the request that waits for it.
FreshInv ==
    /\ \A k \in Kinds :
          /\ base[k] \in 0 .. state[k]
          /\ \A n \in 1 .. Len(data[k]) : data[k][n] >= base[k]
    /\ \A c \in wire : ~c.old =>
          /\ c.seq \in 1 .. seq
          /\ \A i \in 1 .. Len(requests) :
                requests[i].seq = c.seq => requests[i].kind = c.cmd

\* Requests and commands are what the lemmas about the queue need.
LEMMA Shapes ==
    /\ Numberable(Request) /\ Ageable(Command)
    /\ \A k \in Kinds, n \in Nat : [cmd |-> k, seq |-> n, old |-> FALSE] \in Command
<1>1. Numberable(Request)
  BY DEF Numberable, Request
<1>2. Ageable(Command)
  BY DEF Ageable, Command
<1>3. \A k \in Kinds, n \in Nat : [cmd |-> k, seq |-> n, old |-> FALSE] \in Command
  BY DEF Command
<1> QED
  BY <1>1, <1>2, <1>3

\* Initially no state is kept and nothing is queued.
LEMMA InitHolds == ASSUME NetworkAssumption, Init PROVE TypeInv /\ FreshInv
<1>1. QueueInv
  BY QueueInitInv DEF Init
<1>2. requests \in Seq(Request) /\ wire = {} /\ expects = <<>>
  BY DEF Init, QueueInit
<1>3. /\ data = [k \in Kinds |-> <<>>] /\ state = [k \in Kinds |-> 1]
      /\ base = [k \in Kinds |-> 0] /\ given = [t \in Token |-> 0]
  BY DEF Init
<1>4. /\ 0 \in 0 .. MaxChanges + 1 /\ 1 \in 1 .. MaxChanges + 1
      /\ <<>> \in Seq(1 .. MaxChanges + 1)
  BY DEF NetworkAssumption
<1>5. TypeOK
  BY <1>2, <1>3, <1>4 DEF TypeOK
<1>6. FreshInv
  BY <1>2, <1>3 DEF FreshInv
<1> QED
  BY <1>1, <1>2, <1>5, <1>6 DEF TypeInv

\* A state that is passed on is one the modem had.
LEMMA GiveType ==
    ASSUME TypeOK, NetworkAssumption, NEW t \in Token \cup {None}, NEW v \in 1 .. MaxChanges + 1,
           Give(t, v)
    PROVE  given' \in [Token -> 0 .. MaxChanges + 1]
<1>1. v \in 0 .. MaxChanges + 1
  BY DEF NetworkAssumption
<1> QED
  BY <1>1 DEF Give, TypeOK

\* ril_on_request, the queries, and the messages keep the types.
LEMMA TypeStep ==
    ASSUME NetworkAssumption, None \notin Token, TypeInv, [Next]_vars
    PROVE  TypeInv'
<1>0. /\ requests \in Seq(Request) /\ QueueInv /\ wire \subseteq Command
      /\ expects \in Seq(Nat) /\ expects = <<>> /\ seq \in Nat
  BY DEF TypeInv, TypeOK, QueueInv
<1> USE <1>0
<1>1. ASSUME NEW t \in Token, NEW k \in Kind, OnRequest(t, k)
      PROVE  TypeInv'
  <2> DEFINE r == [token |-> t, kind |-> k, seq |-> 0]
  <2>1. r \in Request /\ r.token = t /\ r.kind # "none" /\ r.seq = 0
    BY DEF Request, Kind, Kinds
  <2>2. Issue(t, r)
    BY <1>1 DEF OnRequest
  <2> HIDE DEF r
  <2>3. QueueInv' /\ requests' \in Seq(Request)
    BY <2>1, <2>2, IssueKeeps
  <2> QED
    BY <1>1, <2>2, <2>3 DEF OnRequest, Issue, netVars, TypeInv, TypeOK
<1>2. ASSUME NEW i \in 1 .. Len(requests), NEW k \in Kinds, Query(i, k)
      PROVE  TypeInv'
  <2>1. requests[i] \in Request
    OBVIOUS
  <2>2. requests[i].token \in Token
    BY <2>1 DEF Request
  <2>3. CASE CompleteNow(i, "SUCCESS") /\ data[k] # <<>>
             /\ Give(requests[i].token, Head(data[k]))
             /\ data' = [data EXCEPT ![k] = Tail(@)]
    <3>1. QueueInv' /\ requests' \in Seq(Request)
      BY <2>3, CompleteNowKeeps
    <3>2. data[k] \in Seq(1 .. MaxChanges + 1)
      BY DEF TypeInv, TypeOK
    <3>3. Head(data[k]) \in 1 .. MaxChanges + 1 /\ Tail(data[k]) \in Seq(1 .. MaxChanges + 1)
      <4>1. \A S : \A q \in Seq(S) : q # <<>> => Head(q) \in S /\ Tail(q) \in Seq(S)
        OBVIOUS
      <4> QED
        BY <2>3, <3>2, <4>1
    <3>4. given' \in [Token -> 0 .. MaxChanges + 1]
      BY <2>2, <2>3, <3>3, GiveType DEF TypeInv
    <3>5. data' \in [Kinds -> Seq(1 .. MaxChanges + 1)]
      BY <2>3, <3>3 DEF TypeInv, TypeOK
    <3> QED
      BY <1>2, <2>3, <3>1, <3>4, <3>5 DEF Query, CompleteNow, TypeInv, TypeOK
  <2>4. CASE Send(i, [cmd |-> k, seq |-> seq + 1, old |-> FALSE], <<>>)
             /\ UNCHANGED <<data, given>>
    <3> DEFINE c == [cmd |-> k, seq |-> seq + 1, old |-> FALSE]
    <3>1. c \in Command
      BY Shapes
    <3>2. Send(i, c, <<>>)
      BY <2>4
    <3> HIDE DEF c
    <3>3. QueueInv' /\ requests' \in Seq(Request)
      BY <3>2, SendKeeps, Shapes
    <3>4. wire' \subseteq Command /\ expects' = <<>>
      BY <3>1, <3>2 DEF Send
    <3> QED
      BY <1>2, <2>4, <3>3, <3>4 DEF Query, TypeInv, TypeOK
  <2>5. CASE CompleteNow(i, "GENERIC_FAILURE") /\ UNCHANGED <<data, given>>
    <3>1. QueueInv' /\ requests' \in Seq(Request)
      BY <2>5, CompleteNowKeeps
    <3> QED
      BY <1>2, <2>5, <3>1 DEF Query, CompleteNow, TypeInv, TypeOK
  <2> QED
    BY <1>2, <2>3, <2>4, <2>5 DEF Query
<1>3. ASSUME NEW c \in wire, Response(c)
      PROVE  TypeInv'
  <2>1. wire' \subseteq Command /\ asked' = asked /\ seq' = seq
    BY <1>3 DEF Response, Receive, ReceiveState
  <2>2. c \in Command /\ c.cmd \in Kinds
    BY DEF Command
  <2>3. state[c.cmd] \in 1 .. MaxChanges + 1
    BY <2>2 DEF TypeInv, TypeOK
  <2>4. FindToken(c.seq) \in Token \cup {None}
    BY FindTokenQueued
  <2>5. given' \in [Token -> 0 .. MaxChanges + 1]
    BY <1>3, <2>3, <2>4, GiveType DEF Response, TypeInv, TypeOK
  <2>6. QueueInv' /\ requests' \in Seq(Request)
    <3>1. CASE UNCHANGED <<requests, answer>>
      BY <2>1, <3>1, RadioKeeps
    <3>2. ASSUME NEW e, CompleteToken(FindToken(c.seq), e)
          PROVE  QueueInv' /\ requests' \in Seq(Request)
      BY <2>1, <3>2, CompleteFoundKeeps
    <3> QED
      BY <1>3, <3>1, <3>2 DEF Response
  <2> QED
    BY <1>3, <2>1, <2>5, <2>6 DEF Response, TypeInv, TypeOK
<1>4. ASSUME NEW k \in Kinds, Notification(k)
      PROVE  TypeInv'
  <2>1. QueueInv'
    BY <1>4, RadioKeeps DEF Notification, queueVars
  <2>2. /\ state["VOICE"] \in 1 .. MaxChanges + 1 /\ state["DATA"] \in 1 .. MaxChanges + 1
        /\ state["OPERATOR"] \in 1 .. MaxChanges + 1
    BY DEF TypeInv, TypeOK, Kinds
  <2>3. state[k] + 1 \in 1 .. MaxChanges + 1
    <3> DEFINE a == state["VOICE"]
               b == state["DATA"]
               d == state["OPERATOR"]
    <3>1. a + b + d - 3 < MaxChanges
      BY <1>4 DEF Notification, Changes
    <3>2. k \in {"VOICE", "DATA", "OPERATOR"} /\ MaxChanges \in Nat
      BY DEF Kinds, NetworkAssumption
    <3>3. a \in Nat \ {0} /\ b \in Nat \ {0} /\ d \in Nat \ {0}
      BY <2>2
    <3> HIDE DEF a, b, d
    <3>4. /\ a + 1 \in 1 .. MaxChanges + 1 /\ b + 1 \in 1 .. MaxChanges + 1
          /\ d + 1 \in 1 .. MaxChanges + 1
      BY <3>1, <3>2, <3>3
    <3>5. CASE k = "VOICE"
      BY <3>4, <3>5 DEF a
    <3>6. CASE k = "DATA"
      BY <3>4, <3>6 DEF b
    <3>7. CASE k = "OPERATOR"
      BY <3>4, <3>7 DEF d
    <3> QED
      BY <3>2, <3>5, <3>6, <3>7
  <2>4. state' = [state EXCEPT ![k] = state[k] + 1] /\ state'[k] = state[k] + 1
    BY <1>4 DEF Notification, TypeInv, TypeOK
  <2>5. state' \in [Kinds -> 1 .. MaxChanges + 1]
    BY <2>3, <2>4 DEF TypeInv, TypeOK
  <2>6. Append(data[k], state'[k]) \in Seq(1 .. MaxChanges + 1)
    BY <2>3, <2>4 DEF TypeInv, TypeOK
  <2>7. data' \in [Kinds -> Seq(1 .. MaxChanges + 1)]
    BY <1>4, <2>6 DEF Notification, Kept, TypeInv, TypeOK
  <2> QED
    BY <1>4, <2>1, <2>5, <2>7 DEF Notification, queueVars, TypeInv, TypeOK
<1>5. ASSUME NEW c \in wire, Refused(c)
      PROVE  TypeInv'
  <2>1. GenResponse(c, FALSE) /\ wire' \subseteq wire /\ UNCHANGED netVars
    BY <1>5 DEF Refused, GenResponse, Receive, ReceiveState
  <2>2. Mode(c) = "ignore"
    BY DEF Mode, Numbered
  <2>3. UNCHANGED <<requests, answer, expects, asked, seq>>
    BY <2>1, <2>2 DEF GenResponse, Receive, ReceiveState
  <2>4. QueueInv'
    BY <2>3, RadioKeeps
  <2> QED
    BY <2>1, <2>3, <2>4 DEF netVars, TypeInv, TypeOK
<1>6. CASE Outage
  <2>1. QueueInv' /\ requests' = <<>> /\ expects' = <<>> /\ wire' \subseteq Command
    BY <1>6, OutageKeeps, Shapes DEF Outage
  <2>2. requests' \in Seq(Request)
    BY <2>1
  <2>3. data' \in [Kinds -> Seq(1 .. MaxChanges + 1)]
    BY <1>6 DEF Outage
  <2> QED
    BY <1>6, <2>1, <2>2, <2>3 DEF Outage, TypeInv, TypeOK
<1>7. ASSUME NEW s, RadioChange(s)
      PROVE  TypeInv'
  <2>1. QueueInv'
    BY <1>7, RadioKeeps DEF RadioChange, RadioState
  <2> QED
    BY <1>7, <2>1 DEF RadioChange, RadioState, netVars, TypeInv, TypeOK
<1>8. CASE UNCHANGED vars
  <2>1. QueueInv'
    BY <1>8, RadioKeeps DEF vars, queueVars
  <2> QED
    BY <1>8, <2>1 DEF vars, queueVars, netVars, TypeInv, TypeOK
<1>9. ASSUME NEW i \in 1 .. Len(requests),
             RequestOperator(i) \/ VoiceRegistrationState(i) \/ DataRegistrationState(i)
      PROVE  TypeInv'
  BY <1>2, <1>9 DEF RequestOperator, VoiceRegistrationState, DataRegistrationState, Kinds
<1>10. ASSUME NEW c \in wire, ServingNetwork(c) \/ Regist(c)
       PROVE  TypeInv'
  BY <1>3, <1>10 DEF ServingNetwork, Regist
<1>11. CASE ServingNetworkReport \/ \E k \in Kind : RegistReport(k)
  BY <1>4, <1>11 DEF ServingNetworkReport, RegistReport, Kind, Kinds
<1> QED
  BY <1>1, <1>5, <1>6, <1>7, <1>8, <1>9, <1>10, <1>11 DEF Next

\* A query takes a state from after the last outage, or asks with a number of
\* its own; and only a query or the answer to a command gives out a state.
LEMMA FreshStep ==
    ASSUME NetworkAssumption, None \notin Token, TypeInv, FreshInv, [Next]_vars
    PROVE  FreshInv' /\ FreshAfterOutage
<1>0. /\ requests \in Seq(Request) /\ QueueInv /\ wire \subseteq Command
      /\ expects \in Seq(Nat) /\ expects = <<>> /\ seq \in Nat
      /\ data \in [Kinds -> Seq(1 .. MaxChanges + 1)]
      /\ state \in [Kinds -> 1 .. MaxChanges + 1]
      /\ given \in [Token -> 0 .. MaxChanges + 1]
  BY DEF TypeInv, TypeOK, QueueInv
<1> USE <1>0
<1> DEFINE Kept1 == \A k \in Kinds :
              /\ base[k] \in 0 .. state[k]
              /\ \A n \in 1 .. Len(data[k]) : data[k][n] >= base[k]
           Asks(c) == ~c.old =>
              /\ c.seq \in 1 .. seq
              /\ \A j \in 1 .. Len(requests) :
                    requests[j].seq = c.seq => requests[j].kind = c.cmd
<1>a. FreshInv <=> Kept1 /\ \A c \in wire : Asks(c)
  BY DEF FreshInv
<1>b. FreshInv' <=> Kept1' /\ \A c \in wire' : Asks(c)'
  BY DEF FreshInv
<1>c. \A c \in wire : c.seq \in Nat /\ c.cmd \in Kinds /\ c.old \in BOOLEAN
  BY DEF Command
\* Commands stay right when the queue only loses requests.
<1>1. ASSUME wire' \subseteq wire, seq' = seq,
             \A j \in 1 .. Len(requests') :
                \E i \in 1 .. Len(requests) : requests'[j] = requests[i]
      PROVE  \A c \in wire' : Asks(c)'
  <2> SUFFICES ASSUME NEW c \in wire', ~c.old PROVE Asks(c)'
    OBVIOUS
  <2>1. c \in wire /\ Asks(c)
    BY <1>1, <1>a
  <2> QED
    BY <1>1, <2>1
<1>2. ASSUME UNCHANGED <<data, state, base>> PROVE Kept1'
  BY <1>2, <1>a
<1>3. ASSUME UNCHANGED given PROVE FreshAfterOutage
  BY <1>3 DEF FreshAfterOutage, Answered
<1>4. ASSUME NEW t \in Token, NEW k \in Kind, OnRequest(t, k)
      PROVE  FreshInv' /\ FreshAfterOutage
  <2> DEFINE r == [token |-> t, kind |-> k, seq |-> 0]
  <2>1. r \in Request /\ r.seq = 0
    BY DEF Request
  <2>2. Issue(t, r) /\ UNCHANGED netVars
    BY <1>4 DEF OnRequest
  <2> HIDE DEF r
  <2>3. wire' = wire /\ seq' = seq /\ requests' = Append(requests, r)
    BY <2>2 DEF Issue
  <2>4. ASSUME NEW c \in wire, ~c.old PROVE Asks(c)'
    <3>1. Asks(c)
      BY <1>a
    <3>2. c.seq \in 1 .. seq
      BY <2>4, <3>1
    <3>3. c.seq # 0
      BY <3>2
    <3> QED
      BY <2>1, <2>3, <2>4, <3>1, <3>3
  <2> QED
    BY <1>2, <1>3, <1>b, <2>2, <2>3, <2>4 DEF netVars
<1>5. ASSUME NEW i \in 1 .. Len(requests), NEW k \in Kinds, Query(i, k)
      PROVE  FreshInv' /\ FreshAfterOutage
  <2>1. requests[i] \in Request /\ Queued(requests[i]) /\ requests[i].kind = k
    BY <1>5 DEF QueueInv, Query
  <2>2. requests[i].token \in Token /\ asked[requests[i].token] = k
    BY <2>1 DEF Queued
  <2>3. UNCHANGED <<state, base>>
    BY <1>5 DEF Query
  <2>4. ASSUME NEW e, CompleteNow(i, e) PROVE \A c \in wire' : Asks(c)'
    <3>1. wire' = wire /\ seq' = seq
      BY <2>4 DEF CompleteNow
    <3>2. \A j \in 1 .. Len(requests') :
             \E l \in 1 .. Len(requests) : requests'[j] = requests[l]
      BY <2>4, CompleteNowKeeps
    <3> QED
      BY <1>1, <3>1, <3>2
  <2>5. CASE CompleteNow(i, "SUCCESS") /\ data[k] # <<>>
             /\ Give(requests[i].token, Head(data[k]))
             /\ data' = [data EXCEPT ![k] = Tail(@)]
    <3>1. data[k] \in Seq(1 .. MaxChanges + 1) /\ Len(data[k]) >= 1
      BY <2>5
    <3>2. Head(data[k]) >= base[k]
      BY <1>a, <3>1
    <3>3. ASSUME NEW l \in Kinds, NEW n \in 1 .. Len(data'[l]) PROVE data'[l][n] >= base[l]
      <4>1. CASE l = k
        <5>1. data'[l] = Tail(data[k])
          BY <2>5, <4>1
        <5>2. data'[l][n] = data[k][n + 1] /\ n + 1 \in 1 .. Len(data[k])
          BY <3>1, <5>1
        <5> QED
          BY <1>a, <4>1, <5>2
      <4>2. CASE l # k
        BY <1>a, <2>5, <4>2
      <4> QED
        BY <4>1, <4>2
    <3>4. Kept1'
      BY <1>a, <2>3, <3>3
    <3>5. given' = [given EXCEPT ![requests[i].token] = Head(data[k])]
      BY <2>2, <2>5 DEF Give
    <3>6. FreshAfterOutage
      BY <2>2, <3>2, <3>5 DEF FreshAfterOutage, Answered
    <3> QED
      BY <1>b, <2>4, <2>5, <3>4, <3>6
  <2>6. CASE Send(i, [cmd |-> k, seq |-> seq + 1, old |-> FALSE], <<>>)
             /\ UNCHANGED <<data, given>>
    <3>1. PICK c : c.seq = seq + 1 /\ c.cmd = k /\ Send(i, c, <<>>)
      BY <2>6
    <3>2. Send(i, c, <<>>)
      BY <3>1
    <3>3. wire' = wire \cup {c} /\ seq' = seq + 1 /\ Len(requests') = Len(requests)
      BY <3>2, SendKeeps, Shapes DEF Send
    <3>4. \A j \in 1 .. Len(requests) :
             /\ requests'[j].kind = requests[j].kind
             /\ requests'[j].seq = IF j = i THEN seq + 1 ELSE requests[j].seq
      BY <3>2, SendKeeps, Shapes
    <3>5. \A j \in 1 .. Len(requests) : requests[j].seq \in Int /\ requests[j].seq <= seq
      BY DEF QueueInv, Queued
    <3>6. Asks(c)'
      <4>1. c.seq \in 1 .. seq'
        BY <3>1, <3>3
      <4>2. ASSUME NEW j \in 1 .. Len(requests'), requests'[j].seq = c.seq
            PROVE  requests'[j].kind = c.cmd
        <5>1. j \in 1 .. Len(requests) /\ requests[j].seq <= seq /\ seq \in Nat
              /\ requests[j].seq \in Int
          BY <3>3, <3>5
        <5>2. ASSUME j # i PROVE FALSE
          <6>1. requests[j].seq = c.seq
            BY <3>4, <4>2, <5>1, <5>2
          <6> QED
            BY <3>1, <5>1, <6>1
        <5> QED
          BY <2>1, <3>1, <3>4, <5>1, <5>2
      <4> QED
        BY <4>1, <4>2
    <3>7. ASSUME NEW d \in wire, ~d.old PROVE Asks(d)'
      <4>1. Asks(d)
        BY <1>a
      <4> QED
        BY <3>3, <3>4, <3>7, <4>1
    <3>8. \A d \in wire' : Asks(d)'
      BY <3>3, <3>6, <3>7
    <3> QED
      BY <1>2, <1>3, <1>b, <2>3, <2>6, <3>8
  <2>7. CASE CompleteNow(i, "GENERIC_FAILURE") /\ UNCHANGED <<data, given>>
    BY <1>2, <1>3, <1>b, <2>3, <2>4, <2>7
  <2> QED
    BY <1>5, <2>5, <2>6, <2>7 DEF Query
<1>6. ASSUME NEW c \in wire, Response(c)
      PROVE  FreshInv' /\ FreshAfterOutage
  <2>1. /\ wire' \subseteq wire /\ seq' = seq /\ asked' = asked
        /\ stale' = (stale \/ c.old) /\ UNCHANGED <<data, state, base>>
    BY <1>6 DEF Response, Receive, ReceiveState
  <2>2. \A j \in 1 .. Len(requests') :
           \E l \in 1 .. Len(requests) : requests'[j] = requests[l]
    <3>1. ASSUME NEW e, CompleteToken(FindToken(c.seq), e)
          PROVE  \A j \in 1 .. Len(requests') :
                    \E l \in 1 .. Len(requests) : requests'[j] = requests[l]
      BY <2>1, <3>1, CompleteFoundKeeps
    <3>2. CASE requests' = requests
      BY <3>2
    <3> QED
      BY <1>6, <3>1, <3>2 DEF Response
  <2>3. FreshInv'
    BY <1>1, <1>2, <1>b, <2>1, <2>2
  <2>4. ASSUME NEW t \in Token, Answered(t), ~stale' PROVE given'[t] >= base[asked[t]]
    <3>1. Give(FindToken(c.seq), state[c.cmd])
      BY <1>6, <2>4 DEF Response, Answered
    <3>2. t = FindToken(c.seq) /\ given'[t] = state[c.cmd]
      BY <2>4, <3>1 DEF Give, Answered
    <3>3. ~c.old
      BY <1>c, <2>1, <2>4
    <3>4. PICK j \in 1 .. Len(requests) :
             requests[j].seq = c.seq /\ t = requests[j].token
      BY <2>4, <3>2, FindTokenCases
    <3>5. requests[j].kind = c.cmd
      BY <1>a, <3>3, <3>4
    <3>6. asked[t] = c.cmd
      BY <3>4, <3>5 DEF QueueInv, Queued
    <3> QED
      BY <1>a, <1>c, <3>2, <3>6
  <2> QED
    BY <2>3, <2>4 DEF FreshAfterOutage
<1>7. ASSUME NEW k \in Kinds, Notification(k)
      PROVE  FreshInv' /\ FreshAfterOutage
  <2>1. /\ UNCHANGED <<base, given, wire, seq, requests>>
        /\ state' = [state EXCEPT ![k] = state[k] + 1]
        /\ data' = data \/ data' = [data EXCEPT ![k] = Append(data[k], state'[k])]
    BY <1>7 DEF Notification, Kept, queueVars
  <2>2. \A l \in Kinds : base[l] \in 0 .. state'[l]
    <3>1. \A l \in Kinds : state'[l] = IF l = k THEN state[k] + 1 ELSE state[l]
      BY <2>1
    <3>2. base[k] \in 0 .. state[k] + 1
      BY <1>a
    <3> QED
      BY <1>a, <3>1, <3>2
  <2>3. ASSUME NEW l \in Kinds, NEW n \in 1 .. Len(data'[l]) PROVE data'[l][n] >= base[l]
    <3>1. CASE data'[l] = data[l]
      BY <1>a, <3>1
    <3>2. CASE l = k /\ data'[l] = Append(data[k], state'[k])
      <4>1. data'[l][n] = (IF n = Len(data[k]) + 1 THEN state'[k] ELSE data[k][n])
            /\ (n # Len(data[k]) + 1 => n \in 1 .. Len(data[k]))
        BY <2>3, <3>2
      <4> QED
        BY <1>a, <2>2, <3>2, <4>1
    <3> QED
      BY <2>1, <3>1, <3>2
  <2>4. Kept1'
    BY <2>1, <2>2, <2>3
  <2>5. \A c \in wire' : Asks(c)'
    BY <1>1, <2>1
  <2> QED
    BY <1>3, <1>b, <2>1, <2>4, <2>5
<1>8. ASSUME NEW c \in wire, Refused(c)
      PROVE  FreshInv' /\ FreshAfterOutage
  <2>1. GenResponse(c, FALSE) /\ UNCHANGED netVars /\ wire' \subseteq wire /\ seq' = seq
    BY <1>8 DEF Refused, GenResponse, Receive, ReceiveState
  <2>2. \A j \in 1 .. Len(requests') :
           \E l \in 1 .. Len(requests) : requests'[j] = requests[l]
    BY <2>1, GenResponseKeeps
  <2> QED
    BY <1>1, <1>2, <1>3, <1>b, <2>1, <2>2 DEF netVars
<1>9. CASE Outage
  <2>1. /\ requests' = <<>> /\ \A c \in wire' : c.old
        /\ data' = [k \in Kinds |-> <<>>] /\ base' = state /\ UNCHANGED <<state, given>>
    BY <1>9, OutageKeeps, Shapes DEF Outage
  <2> QED
    BY <1>3, <1>b, <2>1
<1>10. CASE UNCHANGED <<requests, seq, wire, data, state, base, given>>
  <2>1. \A c \in wire' : Asks(c)'
    BY <1>1, <1>10
  <2> QED
    BY <1>2, <1>3, <1>10, <1>b, <2>1
<1>11. ASSUME NEW i \in 1 .. Len(requests),
              RequestOperator(i) \/ VoiceRegistrationState(i) \/ DataRegistrationState(i)
       PROVE  FreshInv' /\ FreshAfterOutage
  BY <1>5, <1>11 DEF RequestOperator, VoiceRegistrationState, DataRegistrationState, Kinds
<1>12. ASSUME NEW c \in wire, ServingNetwork(c) \/ Regist(c)
       PROVE  FreshInv' /\ FreshAfterOutage
  BY <1>6, <1>12 DEF ServingNetwork, Regist
<1>13. CASE ServingNetworkReport \/ \E k \in Kind : RegistReport(k)
  BY <1>7, <1>13 DEF ServingNetworkReport, RegistReport, Kind, Kinds
<1>14. CASE UNCHANGED vars \/ \E s \in {"off", "sim"} : RadioChange(s)
  BY <1>10, <1>14 DEF vars, queueVars, netVars, RadioChange, RadioState
<1> QED
  BY <1>4, <1>8, <1>9, <1>11, <1>12, <1>13, <1>14 DEF Next
=============================================================================
