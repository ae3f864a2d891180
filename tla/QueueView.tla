------------------------------ MODULE QueueView ------------------------------
(***************************************************************************)
(* The request queue of SamsungRil as the handlers that keep data between  *)
(* two messages of the modem see it.  A pass of the request loop           *)
(* dispatches, in list order, the requests whose handlers do not return    *)
(* RIL_REQUEST_UNHANDLED; an answer finds its request by its sequence      *)
(* number, and the numbers do not wrap around; an outage answers all       *)
(* requests and restarts the numbers.  A request is issued once and, as    *)
(* libril never calls ril_on_cancel, it is not cancelled.  The modem       *)
(* answers a command with its response or with a generic response.         *)
(***************************************************************************)
EXTENDS Integers, Sequences, FiniteSets, WellFoundedInduction, TLAPS

CONSTANTS
    Token,      \* the requests
    None,       \* no request found, no data stored
    MaxOutages  \* bound: outages of the modem

ASSUME QueueAssumption == None \notin Token /\ MaxOutages \in Nat

VARIABLES
    radio,      \* "out", "off", "sim" (SIM_NOT_READY or locked) or "ready"
    requests,   \* the queue; the number is 0 until the request is handled
    seq,        \* the last sequence number given
    expects,    \* data->gen_phone_res_expect: the generic responses expected
    wire,       \* commands the modem has not answered
    asked,      \* history: the kind of each request libril issued
    answer,     \* history: the answer to each request
    outages,    \* history: outages so far
    stale       \* history: an answer from before an outage was received

queueVars == <<radio, requests, seq, expects, wire, asked, answer, outages,
               stale>>

RadioStates == {"out", "off", "sim", "ready"}

QueueInit ==
    /\ radio = "out"
    /\ requests = <<>> /\ seq = 0 /\ expects = <<>> /\ wire = {}
    /\ asked = [t \in Token |-> "none"]
    /\ answer = [t \in Token |-> "none"]
    /\ outages = 0 /\ stale = FALSE

\* ril_on_request: r is the request without its number
Issue(t, r) ==
    /\ asked[t] = "none"
    /\ asked' = [asked EXCEPT ![t] = r.kind]
    /\ requests' = Append(requests, r)
    /\ UNCHANGED <<radio, seq, expects, wire, answer, outages, stale>>

Handled(r) == r.seq # 0

\* ril_request_find_request_status(kind, RIL_REQUEST_HANDLED)
Busy(kind) == \E i \in 1 .. Len(requests) :
                 requests[i].kind = kind /\ Handled(requests[i])

\* The request loop is at the i-th request.  R: the positions of the requests
\* whose handlers do not return RIL_REQUEST_UNHANDLED.
Dispatched(i, R) ==
    /\ radio # "out"
    /\ i \in R /\ ~Handled(requests[i])
    /\ \A j \in R : j < i => Handled(requests[j])

\* The expect a handler registers for its command c before it sends it:
\* ipc_gen_phone_res_expect_complete, _abort or _callback.
Expecting(c, mode) == <<[seq |-> c.seq, cmd |-> c.cmd, mode |-> mode]>>

\* ipc_fmt_request_seq, expects E, ipc_fmt_send of command c, and
\* RIL_REQUEST_HANDLED
Send(i, c, E) ==
    /\ seq' = seq + 1
    /\ requests' = [requests EXCEPT ![i].seq = seq + 1]
    /\ expects' = expects \o E
    /\ wire' = wire \cup {c}
    /\ UNCHANGED <<radio, asked, answer, outages, stale>>

\* The elements with number s of a list, and the first of them.
Numbered(q, s) == {i \in 1 .. Len(q) : q[i].seq = s}
First(q, s) == CHOOSE i \in Numbered(q, s) : \A j \in Numbered(q, s) : i <= j

\* ipc_fmt_request_token
FindToken(s) ==
    IF Numbered(requests, s) = {} THEN None
    ELSE requests[First(requests, s)].token

\* List q without its element i
Delete(q, i) == [j \in 1 .. Len(q) - 1 |-> IF j < i THEN q[j] ELSE q[j + 1]]

\* ril_request_unregister: the first request with the token is removed
Unregister(q, t) ==
    LET P == {i \in 1 .. Len(q) : q[i].token = t}
    IN  IF P = {} THEN q ELSE Delete(q, CHOOSE i \in P : \A j \in P : i <= j)

\* ril_request_complete
CompleteToken(t, e) ==
    /\ requests' = Unregister(requests, t)
    /\ answer' = IF t = None THEN answer ELSE [answer EXCEPT ![t] = e]

\* The handler of the i-th request answers it at once.
CompleteNow(i, e) ==
    /\ CompleteToken(requests[i].token, e)
    /\ UNCHANGED <<radio, seq, expects, wire, asked, outages, stale>>

\* An answer to command c is received; its handler sends commands C and sets
\* the radio state to s.
ReceiveState(c, C, s) ==
    /\ radio # "out"
    /\ wire' = (wire \ {c}) \cup C
    /\ stale' = (stale \/ c.old)
    /\ radio' = s
    /\ UNCHANGED <<seq, asked, outages>>

Receive(c, C) == ReceiveState(c, C, radio)

\* ipc_gen_phone_res_expect_find_aseq: how the generic response to command c
\* is to be treated
Mode(c) == IF Numbered(expects, c.seq) = {} THEN "ignore"
           ELSE LET e == expects[First(expects, c.seq)]
                IN  IF e.cmd = c.cmd THEN e.mode ELSE "mismatch"

\* ipc_gen_phone_res_expect_unregister, after the handler registered E
Unexpect(c, E) ==
    expects' = Delete(expects, First(expects, c.seq)) \o E

\* ipc_gen_phone_res, without a callback: the generic response to command c
\* reports success (ok) or failure
GenResponse(c, ok) ==
    /\ Receive(c, {})
    /\ \/ /\ Mode(c) = "ignore"
          /\ UNCHANGED <<requests, answer, expects>>
       \/ /\ Mode(c) = "complete" \/ (Mode(c) = "abort" /\ ~ok)
          /\ CompleteToken(FindToken(c.seq),
                           IF ok THEN "SUCCESS" ELSE "GENERIC_FAILURE")
          /\ Unexpect(c, <<>>)
       \/ /\ Mode(c) = "abort" /\ ok
          /\ Unexpect(c, <<>>)
          /\ UNCHANGED <<requests, answer>>

\* ril_radio_state_update(RADIO_STATE_UNAVAILABLE), also because a generic
\* response was not for the command that expected it; the modem keeps the
\* commands it has not answered if it is not power cycled.
QueueOutage ==
    /\ radio # "out" /\ outages < MaxOutages
    /\ radio' = "out" /\ outages' = outages + 1
    /\ requests' = <<>> /\ seq' = 0 /\ expects' = <<>>
    /\ answer' = [t \in Token |->
          IF \E i \in 1 .. Len(requests) : requests[i].token = t
          THEN "RADIO_NOT_AVAILABLE" ELSE answer[t]]
    /\ \E C \in SUBSET {c \in wire : Mode(c) = "mismatch"} :
          /\ Cardinality(C) <= 1
          /\ wire' \in {{}, {[c EXCEPT !.old = TRUE] : c \in wire \ C}}
    /\ UNCHANGED <<asked, stale>>

\* ril_radio_state_update to another state: nothing is flushed
RadioState(s) ==
    /\ s # radio /\ s # "out"
    /\ radio' = s
    /\ UNCHANGED <<requests, seq, expects, wire, asked, answer, outages, stale>>
-----------------------------------------------------------------------------
(* Lemmas about the queue as the handlers see it, for the proofs of the    *)
(* components.  They hold for any type of request and of command: a        *)
(* component names its own when it cites them.  First, lists.              *)

\* A list walk that finds something finds the least position.
LEMMA LeastOf ==
    ASSUME NEW I \in SUBSET Nat, I # {}
    PROVE  \E i \in I : \A j \in I : i <= j
<1> DEFINE R == {ss \in Nat \X Nat : ss[1] < ss[2]}
<1>1. IsWellFoundedOn(R, Nat)
  BY NatLessThanWellFounded, Zenon DEF OpToRel
<1>2. \A a, b \in Nat : a < b => <<a, b>> \in R
  BY Zenon
<1> HIDE DEF R
<1>3. PICK x \in I : \A y \in I : <<y, x>> \notin R
  BY <1>1, WFMin, Zenon
<1>4. \A y \in I : ~(y < x)
  BY <1>2, <1>3
<1> QED
  BY <1>4

\* The first element with a number has that number.
LEMMA FirstNumbered ==
    ASSUME NEW S, NEW q \in Seq(S), NEW s, Numbered(q, s) # {}
    PROVE  First(q, s) \in 1 .. Len(q) /\ q[First(q, s)].seq = s
<1>1. Numbered(q, s) \in SUBSET Nat
  BY DEF Numbered
<1>2. \E i \in Numbered(q, s) : \A j \in Numbered(q, s) : i <= j
  BY <1>1, LeastOf
<1>3. First(q, s) \in Numbered(q, s)
  BY <1>2 DEF First
<1> QED
  BY <1>3 DEF Numbered

\* ipc_fmt_request_token finds no request with the number, or one.
LEMMA FindTokenCases ==
    ASSUME NEW S, requests \in Seq(S), NEW s
    PROVE  \/ /\ FindToken(s) = None
              /\ \A i \in 1 .. Len(requests) : requests[i].seq # s
           \/ \E i \in 1 .. Len(requests) :
                 requests[i].seq = s /\ FindToken(s) = requests[i].token
<1>1. CASE Numbered(requests, s) = {}
  BY <1>1 DEF FindToken, Numbered
<1>2. CASE Numbered(requests, s) # {}
  BY <1>2, FirstNumbered DEF FindToken
<1> QED
  BY <1>1, <1>2

\* Removing an element leaves a list of the same type, one shorter ...
LEMMA DeleteType ==
    ASSUME NEW S, NEW q \in Seq(S), NEW i \in 1 .. Len(q)
    PROVE  Delete(q, i) \in Seq(S) /\ Len(Delete(q, i)) = Len(q) - 1
<1>1. Len(q) - 1 \in Nat
  OBVIOUS
<1>2. Delete(q, i) \in [1 .. Len(q) - 1 -> S]
  BY DEF Delete
<1> QED
  BY <1>1, <1>2

\* ... of others, no two of which are the same ...
LEMMA DeletePairs ==
    ASSUME NEW S, NEW q \in Seq(S), NEW i \in 1 .. Len(q),
           NEW j \in 1 .. Len(Delete(q, i)), NEW l \in 1 .. Len(Delete(q, i))
    PROVE  \E k, m \in 1 .. Len(q) :
              /\ Delete(q, i)[j] = q[k] /\ Delete(q, i)[l] = q[m]
              /\ k # i /\ m # i
              /\ (j = l) <=> (k = m)
<1> DEFINE At(n) == IF n < i THEN n ELSE n + 1
<1>1. j \in 1 .. Len(q) - 1 /\ l \in 1 .. Len(q) - 1
  BY DeleteType
<1>2. Delete(q, i)[j] = q[At(j)] /\ Delete(q, i)[l] = q[At(l)]
  BY <1>1 DEF Delete
<1>3. /\ At(j) \in 1 .. Len(q) /\ At(l) \in 1 .. Len(q)
      /\ At(j) # i /\ At(l) # i
      /\ (j = l) <=> (At(j) = At(l))
  BY <1>1
<1> HIDE DEF At
<1> QED
  BY <1>2, <1>3

\* ... and all of the others.
LEMMA DeleteOthers ==
    ASSUME NEW S, NEW q \in Seq(S), NEW i \in 1 .. Len(q),
           NEW k \in 1 .. Len(q), k # i
    PROVE  \E j \in 1 .. Len(Delete(q, i)) : Delete(q, i)[j] = q[k]
<1>1. Len(Delete(q, i)) = Len(q) - 1
  BY DeleteType
<1>2. CASE k < i
  <2>1. k \in 1 .. Len(q) - 1 /\ Delete(q, i)[k] = q[k]
    BY <1>2 DEF Delete
  <2> QED
    BY <1>1, <2>1
<1>3. CASE k > i
  <2>1. k - 1 \in 1 .. Len(q) - 1 /\ Delete(q, i)[k - 1] = q[k]
    BY <1>3 DEF Delete
  <2> QED
    BY <1>1, <2>1
<1> QED
  BY <1>2, <1>3

-----------------------------------------------------------------------------
(* ril_request_unregister.                                                 *)

\* Nothing has the token, or an element with it is removed.
LEMMA UnregisterCases ==
    ASSUME NEW S, NEW q \in Seq(S), NEW t
    PROVE  \/ /\ Unregister(q, t) = q
              /\ \A i \in 1 .. Len(q) : q[i].token # t
           \/ \E i \in 1 .. Len(q) :
                 q[i].token = t /\ Unregister(q, t) = Delete(q, i)
<1> DEFINE P == {i \in 1 .. Len(q) : q[i].token = t}
<1>1. CASE P = {}
  BY <1>1 DEF Unregister
<1>2. CASE P # {}
  <2>1. \E i \in P : \A j \in P : i <= j
    <3>1. P \in SUBSET Nat
      OBVIOUS
    <3> HIDE DEF P
    <3> QED
      BY <1>2, <3>1, LeastOf
  <2>2. PICK k \in P : k = CHOOSE i \in P : \A j \in P : i <= j
    BY <2>1
  <2> QED
    BY <1>2, <2>2 DEF Unregister
<1> QED
  BY <1>1, <1>2

\* What is left has the type of the list and was in it, each element once.
LEMMA UnregisterType ==
    ASSUME NEW S, NEW q \in Seq(S), NEW t
    PROVE  Unregister(q, t) \in Seq(S)
BY UnregisterCases, DeleteType

LEMMA UnregisterPairs ==
    ASSUME NEW S, NEW q \in Seq(S), NEW t,
           NEW j \in 1 .. Len(Unregister(q, t)),
           NEW l \in 1 .. Len(Unregister(q, t))
    PROVE  \E k, m \in 1 .. Len(q) :
              /\ Unregister(q, t)[j] = q[k] /\ Unregister(q, t)[l] = q[m]
              /\ (j = l) <=> (k = m)
<1>1. CASE Unregister(q, t) = q
  BY <1>1
<1>2. ASSUME NEW i \in 1 .. Len(q), Unregister(q, t) = Delete(q, i)
      PROVE  \E k, m \in 1 .. Len(q) :
                /\ Unregister(q, t)[j] = q[k] /\ Unregister(q, t)[l] = q[m]
                /\ (j = l) <=> (k = m)
  <2>1. j \in 1 .. Len(Delete(q, i)) /\ l \in 1 .. Len(Delete(q, i))
    BY <1>2
  <2> QED
    BY <1>2, <2>1, DeletePairs
<1> QED
  BY <1>1, <1>2, UnregisterCases

LEMMA UnregisterElements ==
    ASSUME NEW S, NEW q \in Seq(S), NEW t
    PROVE  \A j \in 1 .. Len(Unregister(q, t)) :
              \E k \in 1 .. Len(q) : Unregister(q, t)[j] = q[k]
BY UnregisterPairs

\* Elements with other tokens stay.
LEMMA UnregisterOthers ==
    ASSUME NEW S, NEW q \in Seq(S), NEW t, NEW k \in 1 .. Len(q), q[k].token # t
    PROVE  \E j \in 1 .. Len(Unregister(q, t)) : Unregister(q, t)[j] = q[k]
BY UnregisterCases, DeleteOthers

\* In a list without a token twice, the token is gone.
DistinctTokens(q) ==
    \A i, j \in 1 .. Len(q) : q[i].token = q[j].token => i = j

LEMMA UnregisterGone ==
    ASSUME NEW S, NEW q \in Seq(S), NEW t, DistinctTokens(q)
    PROVE  \A j \in 1 .. Len(Unregister(q, t)) : Unregister(q, t)[j].token # t
<1>1. CASE \A i \in 1 .. Len(q) : q[i].token # t
  BY <1>1, UnregisterElements
<1>2. ASSUME NEW i \in 1 .. Len(q), q[i].token = t,
             Unregister(q, t) = Delete(q, i)
      PROVE  \A j \in 1 .. Len(Unregister(q, t)) : Unregister(q, t)[j].token # t
  <2> TAKE j \in 1 .. Len(Unregister(q, t))
  <2>1. j \in 1 .. Len(Delete(q, i))
    BY <1>2
  <2>2. PICK k \in 1 .. Len(q) : Delete(q, i)[j] = q[k] /\ k # i
    BY <2>1, DeletePairs
  <2>3. q[k].token # t
    BY <1>2, <2>2 DEF DistinctTokens
  <2> QED
    BY <1>2, <2>2, <2>3
<1> QED
  BY <1>1, <1>2, UnregisterCases

LEMMA UnregisterDistinct ==
    ASSUME NEW S, NEW q \in Seq(S), NEW t, DistinctTokens(q)
    PROVE  DistinctTokens(Unregister(q, t))
<1> SUFFICES ASSUME NEW j \in 1 .. Len(Unregister(q, t)),
                    NEW l \in 1 .. Len(Unregister(q, t)),
                    Unregister(q, t)[j].token = Unregister(q, t)[l].token
             PROVE  j = l
  BY DEF DistinctTokens
<1>1. PICK k, m \in 1 .. Len(q) :
         /\ Unregister(q, t)[j] = q[k] /\ Unregister(q, t)[l] = q[m]
         /\ (j = l) <=> (k = m)
  BY UnregisterPairs
<1> QED
  BY <1>1 DEF DistinctTokens

-----------------------------------------------------------------------------
(* The queue.  A request is in it once, from its being issued until it is  *)
(* answered, and its number is one that was given.                         *)

Queued(r) ==
    /\ r.token \in Token /\ r.kind # "none"
    /\ asked[r.token] = r.kind /\ answer[r.token] = "none"
    /\ r.seq \in Int /\ r.seq <= seq

QueueInv ==
    /\ seq \in Nat
    /\ DOMAIN asked = Token /\ DOMAIN answer = Token
    /\ DistinctTokens(requests)
    /\ \A i \in 1 .. Len(requests) : Queued(requests[i])
    /\ \A t \in Token : asked[t] = "none" => answer[t] = "none"

\* The token an answer finds is that of a queued request, or NULL.
LEMMA FindTokenQueued ==
    ASSUME QueueInv, NEW S, requests \in Seq(S), NEW s
    PROVE  FindToken(s) \in Token \cup {None}
BY FindTokenCases DEF QueueInv, Queued

LEMMA QueueInitInv == QueueInit => QueueInv
BY DEF QueueInit, QueueInv, DistinctTokens

\* A new request is not queued yet.
LEMMA IssueKeeps ==
    ASSUME QueueInv, NEW S, requests \in Seq(S), NEW t \in Token,
           NEW r \in S, r.token = t, r.kind # "none", r.seq = 0, Issue(t, r)
    PROVE  QueueInv' /\ requests' \in Seq(S)
<1>1. requests' \in Seq(S) /\ Len(requests') = Len(requests) + 1
  BY DEF Issue
<1>2. \A i \in 1 .. Len(requests) : requests'[i] = requests[i]
  BY DEF Issue
<1>3. requests'[Len(requests) + 1] = r
  BY DEF Issue
<1>4. \A i \in 1 .. Len(requests) : requests[i].token # t
  BY DEF QueueInv, Queued, Issue
<1>5. DistinctTokens(requests')
  BY <1>1, <1>2, <1>3, <1>4 DEF DistinctTokens, QueueInv
<1>6. \A i \in 1 .. Len(requests) : Queued(requests[i])'
  BY <1>2, <1>4 DEF QueueInv, Queued, Issue
<1>7. Queued(r)'
  BY DEF QueueInv, Queued, Issue
<1>8. \A i \in 1 .. Len(requests') : Queued(requests[i])'
  BY <1>1, <1>2, <1>3, <1>6, <1>7 DEF Queued
<1>9. \A u \in Token : asked'[u] = "none" => answer'[u] = "none"
  BY DEF QueueInv, Issue
<1>10. seq' \in Nat /\ DOMAIN asked' = Token /\ DOMAIN answer' = Token
  BY DEF QueueInv, Issue
<1> QED
  BY <1>1, <1>5, <1>8, <1>9, <1>10 DEF QueueInv

\* What it means for a type of request that its number can be set.
Numberable(S) ==
    \A r \in S, n \in Nat :
        /\ [r EXCEPT !.seq = n] \in S
        /\ [r EXCEPT !.seq = n].token = r.token
        /\ [r EXCEPT !.seq = n].kind = r.kind
        /\ [r EXCEPT !.seq = n].seq = n

\* A request that is sent gets a new number and keeps the rest.
LEMMA SendKeeps ==
    ASSUME QueueInv, NEW S, requests \in Seq(S), Numberable(S),
           NEW i \in 1 .. Len(requests), NEW c, NEW E, Send(i, c, E)
    PROVE  /\ QueueInv' /\ requests' \in Seq(S)
           /\ Len(requests') = Len(requests)
           /\ \A j \in 1 .. Len(requests) :
                 requests'[j] = IF j = i
                                THEN [requests[i] EXCEPT !.seq = seq + 1]
                                ELSE requests[j]
           /\ \A j \in 1 .. Len(requests) :
                 /\ requests'[j].token = requests[j].token
                 /\ requests'[j].kind = requests[j].kind
                 /\ requests'[j].seq = IF j = i THEN seq + 1 ELSE requests[j].seq
<1> DEFINE n == seq + 1
<1>1. n \in Nat /\ seq' = n
  BY DEF QueueInv, Send
<1>2. requests' = [requests EXCEPT ![i] = [requests[i] EXCEPT !.seq = n]]
  BY DEF Send
<1>3. [requests[i] EXCEPT !.seq = n] \in S
  BY <1>1 DEF Numberable
<1>4. /\ requests' \in Seq(S) /\ Len(requests') = Len(requests)
      /\ \A j \in 1 .. Len(requests) :
            requests'[j] = IF j = i THEN [requests[i] EXCEPT !.seq = n]
                           ELSE requests[j]
  BY <1>2, <1>3
<1>5. \A j \in 1 .. Len(requests) :
         /\ requests'[j].token = requests[j].token
         /\ requests'[j].kind = requests[j].kind
         /\ requests'[j].seq = IF j = i THEN n ELSE requests[j].seq
  <2>1. ASSUME NEW j \in 1 .. Len(requests)
        PROVE  /\ requests'[j].token = requests[j].token
               /\ requests'[j].kind = requests[j].kind
               /\ requests'[j].seq = IF j = i THEN n ELSE requests[j].seq
    <3>1. CASE j = i
      <4>1. requests[i] \in S
        OBVIOUS
      <4>2. /\ [requests[i] EXCEPT !.seq = n].token = requests[i].token
            /\ [requests[i] EXCEPT !.seq = n].kind = requests[i].kind
            /\ [requests[i] EXCEPT !.seq = n].seq = n
        BY <1>1, <4>1, Zenon DEF Numberable
      <4>3. requests'[j] = [requests[i] EXCEPT !.seq = n]
        BY <1>4, <3>1
      <4> HIDE DEF n
      <4> QED
        BY <3>1, <4>2, <4>3
    <3>2. CASE j # i
      <4>1. requests'[j] = requests[j]
        BY <1>4, <3>2
      <4> QED
        BY <3>2, <4>1
    <3> QED
      BY <3>1, <3>2
  <2> QED
    BY <2>1
<1>6. asked' = asked /\ answer' = answer
  BY DEF Send
<1>7. DistinctTokens(requests')
  BY <1>4, <1>5 DEF QueueInv, DistinctTokens
<1>8. QueueInv'
  <2>1. ASSUME NEW j \in 1 .. Len(requests')
        PROVE  Queued(requests[j])'
    <3>1. Queued(requests[j]) /\ j \in 1 .. Len(requests)
      BY <1>4 DEF QueueInv
    <3>2. CASE j = i
      BY <1>1, <1>5, <1>6, <3>1, <3>2 DEF Queued
    <3>3. CASE j # i
      <4>1. requests'[j] = requests[j]
        BY <1>4, <3>1, <3>3
      <4>2. requests[j].seq <= n
        BY <3>1 DEF Queued, QueueInv
      <4> QED
        BY <1>1, <1>6, <3>1, <4>1, <4>2 DEF Queued
    <3> QED
      BY <3>2, <3>3
  <2> QED
    BY <1>1, <1>6, <1>7, <2>1 DEF QueueInv
<1> QED
  BY <1>4, <1>5, <1>8

\* A request that is answered, with whatever error, is queued no more.
LEMMA CompleteKeeps ==
    ASSUME QueueInv, None \notin Token, NEW S, requests \in Seq(S),
           NEW t \in Token \cup {None}, NEW e, CompleteToken(t, e),
           asked' = asked, seq' = seq,
           t \in Token => asked[t] # "none"
    PROVE  /\ QueueInv' /\ requests' \in Seq(S)
           /\ \A j \in 1 .. Len(requests') :
                 \E k \in 1 .. Len(requests) : requests'[j] = requests[k]
           /\ \A j \in 1 .. Len(requests') : requests'[j].token # t
           /\ \A k \in 1 .. Len(requests) : requests[k].token # t =>
                 \E j \in 1 .. Len(requests') : requests'[j] = requests[k]
<1>1. requests' = Unregister(requests, t)
  BY DEF CompleteToken
<1>2. requests' \in Seq(S) /\ DistinctTokens(requests')
  BY <1>1, UnregisterType, UnregisterDistinct DEF QueueInv
<1>3. \A j \in 1 .. Len(requests') :
         \E k \in 1 .. Len(requests) : requests'[j] = requests[k]
  BY <1>1, UnregisterElements
<1>4. \A j \in 1 .. Len(requests') : requests'[j].token # t
  BY <1>1, UnregisterGone DEF QueueInv
<1>5. /\ DOMAIN answer' = Token
      /\ \A u \in Token : u # t => answer'[u] = answer[u]
  BY DEF CompleteToken, QueueInv
<1>6. \A j \in 1 .. Len(requests') : Queued(requests[j])'
  BY <1>3, <1>4, <1>5 DEF QueueInv, Queued
<1>7. \A u \in Token : asked'[u] = "none" => answer'[u] = "none"
  BY <1>5 DEF QueueInv
<1>8. \A k \in 1 .. Len(requests) : requests[k].token # t =>
         \E j \in 1 .. Len(requests') : requests'[j] = requests[k]
  BY <1>1, UnregisterOthers
<1> QED
  BY <1>2, <1>3, <1>4, <1>5, <1>6, <1>7, <1>8 DEF QueueInv, Queued

\* The answer to the others is left alone.
LEMMA CompleteAnswers ==
    ASSUME QueueInv, NEW t \in Token \cup {None}, NEW e, CompleteToken(t, e)
    PROVE  \A u \in Token : answer'[u] = IF u = t /\ t # None THEN e ELSE answer[u]
BY DEF CompleteToken, QueueInv

\* Before a request is handled, and while it waits, it was issued.
LEMMA CompleteNowKeeps ==
    ASSUME QueueInv, None \notin Token, NEW S, requests \in Seq(S),
           NEW i \in 1 .. Len(requests), NEW e, CompleteNow(i, e)
    PROVE  /\ QueueInv' /\ requests' \in Seq(S)
           /\ \A j \in 1 .. Len(requests') :
                 \E k \in 1 .. Len(requests) : requests'[j] = requests[k]
           /\ \A j \in 1 .. Len(requests') : requests'[j].token # requests[i].token
           /\ \A k \in 1 .. Len(requests) : requests[k].token # requests[i].token =>
                 \E j \in 1 .. Len(requests') : requests'[j] = requests[k]
           /\ \A u \in Token : answer'[u] = IF u = requests[i].token THEN e
                                            ELSE answer[u]
<1>1. requests[i].token \in Token /\ asked[requests[i].token] # "none"
  BY DEF QueueInv, Queued
<1>2. CompleteToken(requests[i].token, e) /\ asked' = asked /\ seq' = seq
  BY DEF CompleteNow
<1> QED
  BY <1>1, <1>2, CompleteKeeps, CompleteAnswers

LEMMA CompleteFoundKeeps ==
    ASSUME QueueInv, None \notin Token, NEW S, requests \in Seq(S),
           NEW s, NEW e, CompleteToken(FindToken(s), e),
           asked' = asked, seq' = seq
    PROVE  /\ QueueInv' /\ requests' \in Seq(S)
           /\ \A j \in 1 .. Len(requests') :
                 \E k \in 1 .. Len(requests) : requests'[j] = requests[k]
           /\ \A j \in 1 .. Len(requests') : requests'[j].token # FindToken(s)
           /\ \A k \in 1 .. Len(requests) : requests[k].token # FindToken(s) =>
                 \E j \in 1 .. Len(requests') : requests'[j] = requests[k]
           /\ \A u \in Token : answer'[u] = IF u = FindToken(s) THEN e
                                            ELSE answer[u]
<1>1. /\ FindToken(s) \in Token \cup {None}
      /\ FindToken(s) \in Token => asked[FindToken(s)] # "none"
  BY FindTokenCases DEF QueueInv, Queued
<1> QED
  BY <1>1, CompleteKeeps, CompleteAnswers

-----------------------------------------------------------------------------
(* Generic responses and outages.                                          *)

\* An expect is taken out and others registered.
LEMMA UnexpectType ==
    ASSUME NEW T, expects \in Seq(T), NEW c, Mode(c) # "ignore",
           NEW E \in Seq(T), Unexpect(c, E)
    PROVE  expects' \in Seq(T)
<1>1. Numbered(expects, c.seq) # {}
  BY DEF Mode
<1>2. First(expects, c.seq) \in 1 .. Len(expects)
  BY <1>1, FirstNumbered
<1>3. Delete(expects, First(expects, c.seq)) \in Seq(T)
  BY <1>2, DeleteType
<1> QED
  BY <1>3 DEF Unexpect

LEMMA GenResponseKeeps ==
    ASSUME QueueInv, None \notin Token, NEW S, requests \in Seq(S),
           NEW T, expects \in Seq(T), NEW c, NEW ok \in BOOLEAN, GenResponse(c, ok)
    PROVE  /\ QueueInv' /\ requests' \in Seq(S) /\ expects' \in Seq(T)
           /\ \A j \in 1 .. Len(requests') :
                 \E k \in 1 .. Len(requests) : requests'[j] = requests[k]
           /\ \/ UNCHANGED <<requests, answer>>
              \/ /\ Mode(c) # "ignore"
                 /\ \A j \in 1 .. Len(requests') :
                       requests'[j].token # FindToken(c.seq)
                 /\ \A k \in 1 .. Len(requests) :
                       requests[k].token # FindToken(c.seq) =>
                          \E j \in 1 .. Len(requests') : requests'[j] = requests[k]
                 /\ \A u \in Token :
                       answer'[u] = IF u = FindToken(c.seq)
                                    THEN IF ok THEN "SUCCESS" ELSE "GENERIC_FAILURE"
                                    ELSE answer[u]
<1> DEFINE e == IF ok THEN "SUCCESS" ELSE "GENERIC_FAILURE"
<1>1. asked' = asked /\ seq' = seq
  BY DEF GenResponse, Receive, ReceiveState
<1>2. expects' \in Seq(T)
  <2>1. <<>> \in Seq(T)
    OBVIOUS
  <2>2. CASE Unexpect(c, <<>>) /\ Mode(c) # "ignore"
    BY <2>1, <2>2, UnexpectType
  <2>3. CASE expects' = expects
    BY <2>3
  <2> QED
    BY <2>2, <2>3 DEF GenResponse
<1>3. CASE UNCHANGED <<requests, answer>>
  BY <1>1, <1>2, <1>3 DEF QueueInv, Queued
<1>4. CASE CompleteToken(FindToken(c.seq), e) /\ Mode(c) # "ignore"
  <2> HIDE DEF e
  <2>1. /\ QueueInv' /\ requests' \in Seq(S)
        /\ \A j \in 1 .. Len(requests') :
              \E k \in 1 .. Len(requests) : requests'[j] = requests[k]
        /\ \A j \in 1 .. Len(requests') : requests'[j].token # FindToken(c.seq)
        /\ \A k \in 1 .. Len(requests) : requests[k].token # FindToken(c.seq) =>
              \E j \in 1 .. Len(requests') : requests'[j] = requests[k]
        /\ \A u \in Token : answer'[u] = IF u = FindToken(c.seq) THEN e
                                         ELSE answer[u]
    BY <1>1, <1>4, CompleteFoundKeeps
  <2> QED
    BY <1>2, <1>4, <2>1 DEF e
<1> QED
  BY <1>3, <1>4 DEF GenResponse

\* What it means for a type of command that it can be marked as old.
Ageable(C) ==
    \A c \in C : [c EXCEPT !.old = TRUE] \in C /\ [c EXCEPT !.old = TRUE].old

\* Nothing is left in the queue; the commands the modem keeps are old.
LEMMA OutageKeeps ==
    ASSUME QueueInv, None \notin Token, NEW S, requests \in Seq(S), NEW C,
           Ageable(C), wire \subseteq C, QueueOutage
    PROVE  /\ QueueInv' /\ requests' = <<>> /\ seq' = 0 /\ expects' = <<>>
           /\ wire' \subseteq C /\ \A c \in wire' : c.old
           /\ \A t \in Token :
                 answer'[t] = "RADIO_NOT_AVAILABLE" \/ answer'[t] = answer[t]
<1>1. /\ requests' = <<>> /\ seq' = 0 /\ expects' = <<>> /\ asked' = asked
      /\ DOMAIN answer' = Token
      /\ \A t \in Token :
            answer'[t] = IF \E i \in 1 .. Len(requests) : requests[i].token = t
                         THEN "RADIO_NOT_AVAILABLE" ELSE answer[t]
  BY DEF QueueOutage
<1>2. \A t \in Token : asked[t] = "none" => answer'[t] = "none"
  BY <1>1 DEF QueueInv, Queued
<1>3. QueueInv'
  BY <1>1, <1>2 DEF QueueInv, DistinctTokens
<1>4. wire' \subseteq C /\ \A c \in wire' : c.old
  <2>1. PICK D \in SUBSET {c \in wire : Mode(c) = "mismatch"} :
           wire' \in {{}, {[c EXCEPT !.old = TRUE] : c \in wire \ D}}
    BY DEF QueueOutage
  <2> QED
    BY <2>1 DEF Ageable
<1> QED
  BY <1>1, <1>3, <1>4

\* The radio state is no part of the invariant.
LEMMA RadioKeeps ==
    ASSUME QueueInv, UNCHANGED <<requests, seq, asked, answer>>
    PROVE  QueueInv'
BY DEF QueueInv, Queued
=============================================================================
