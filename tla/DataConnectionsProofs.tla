----------------------- MODULE DataConnectionsProofs -----------------------
(***************************************************************************)
(* Proofs about DataConnections, for any requests, cids, and bounds.       *)
(***************************************************************************)
EXTENDS DataConnections

-----------------------------------------------------------------------------
(* The inductive invariant.                                                *)

TypeInv == TypeOK /\ QueueInv

List == "PDP_CONTEXT_GET"

\* An activation or deactivation that was sent names the cid of the connection
\* that waits for it.
Link(x) ==
    /\ x.seq \in 1 .. seq
    /\ \A i \in 1 .. Len(requests), p \in 1 .. Len(connections) :
          /\ requests[i].seq = x.seq
          /\ connections[p].token = requests[i].token
          => connections[p].cid = x.cid

\* A connection waits for a request that was sent and that is not for the list;
\* if it is a set-up, it is the one the connection was started for.
Waits(p) ==
    \E i \in 1 .. Len(requests) :
        /\ requests[i].token = connections[p].token
        /\ Handled(requests[i])
        /\ requests[i].kind # "DATA_CALL_LIST"
        /\ requests[i].kind = "SETUP_DATA_CALL" => connections[p].owner = connections[p].token

\* A connection that the flush of an outage left waits for a request that the
\* outage answered.
Left(p) ==
    /\ leftOver
    /\ connections[p].token \in Token
    /\ asked[connections[p].token] # "none"
    /\ answer[connections[p].token] = "RADIO_NOT_AVAILABLE"
    /\ \A i \in 1 .. Len(requests) : requests[i].token # connections[p].token

\* A command that was sent since the last outage: a question for the list with a
\* number is that of a request for the list.
Asked(c) ==
    /\ c.seq \in 1 .. seq
    /\ c.cmd = List => \A i \in 1 .. Len(requests) :
          requests[i].seq = c.seq => requests[i].kind = "DATA_CALL_LIST"

Linked ==
    /\ \A p \in 1 .. Len(connections) : connections[p].token # None => Waits(p) \/ Left(p)
    /\ \A p, q \in 1 .. Len(connections) :
          connections[p].token # None /\ connections[p].token = connections[q].token
          => p = q
    /\ \A i, j \in 1 .. Len(requests) :
          Handled(requests[i]) /\ requests[i].seq = requests[j].seq => i = j
    /\ \A c \in wire : ~c.old /\ ~(c.cmd = List /\ c.seq = 0) => Asked(c)
    /\ \A x \in sets : Link(x)

LinkInv == ~stale => Linked

\* What the two action properties say of a step.
OwnSetup ==
    \A t \in Token :
       (~stale' /\ asked[t] = "SETUP_DATA_CALL" /\ answer[t] # answer'[t]
          /\ answer'[t] = "SUCCESS") =>
          \E p \in 1 .. Len(connections') :
             /\ connections'[p].owner = t
             /\ connections'[p].enabled /\ connections'[p].ip

Removed ==
    \A t \in Token :
       (~stale' /\ asked[t] = "DEACTIVATE_DATA_CALL" /\ answer[t] # answer'[t]
          /\ answer'[t] = "SUCCESS") =>
          /\ Len(connections') < Len(connections)
          /\ \A p \in 1 .. Len(connections') : connections'[p].token # t

Errno == {"none", "SUCCESS", "GENERIC_FAILURE", "SETUP_FAILED",
          "OP_NOT_ALLOWED_BEFORE_REG_TO_NW", "RADIO_NOT_AVAILABLE"}

Expect == [seq : Nat, mode : {"callback"},
           cmd : {"DEFINE_PDP_CONTEXT", "PDP_CONTEXT"}]

\* The list of connections, with one connection for a cid
ConnInv ==
    /\ connections \in Seq(Connection)
    /\ \A p, q \in 1 .. Len(connections) :
          connections[p].cid = connections[q].cid => p = q

-----------------------------------------------------------------------------
(* Lemmas about the operators.                                             *)

\* The requests of the connections can be numbered.
LEMMA RequestNumberable == Numberable(Request)
BY DEF Numberable, Request

\* Their commands can become old.
LEMMA CommandAgeable == Ageable(Command)
BY DEF Ageable, Command

\* The first position of some is one of them.
LEMMA LeastIn ==
    ASSUME NEW P \in SUBSET Nat, P # {}
    PROVE  Least(P) \in P /\ \A q \in P : Least(P) <= q
<1>1. PICK p \in P : \A q \in P : p <= q
  BY LeastOf
<1> QED
  BY <1>1 DEF Least

\* The searches of the list find positions of it.
LEMMA Positions ==
    ASSUME NEW P, \/ \E t : P = WithToken(t)
                  \/ \E c : P = WithCid(c),
           P # {}
    PROVE  Least(P) \in P /\ Least(P) \in 1 .. Len(connections)
<1>1. P \in SUBSET (1 .. Len(connections))
  BY DEF WithToken, WithCid
<1>2. P \in SUBSET Nat
  BY <1>1
<1> QED
  BY <1>1, <1>2, LeastIn

\* A connection that is changed keeps its cid ...
LEMMA ChangedKeeps ==
    ASSUME ConnInv, NEW p \in 1 .. Len(connections), NEW r \in Connection,
           r.cid = connections[p].cid, connections' = [connections EXCEPT ![p] = r]
    PROVE  /\ ConnInv' /\ Len(connections') = Len(connections)
           /\ \A q \in 1 .. Len(connections) :
                 connections'[q] = IF q = p THEN r ELSE connections[q]
<1>1. /\ connections' \in Seq(Connection) /\ Len(connections') = Len(connections)
      /\ \A q \in 1 .. Len(connections) :
            connections'[q] = IF q = p THEN r ELSE connections[q]
  BY DEF ConnInv
<1>2. \A q \in 1 .. Len(connections) : connections'[q].cid = connections[q].cid
  <2> TAKE q \in 1 .. Len(connections)
  <2>1. CASE q = p
    BY <1>1, <2>1
  <2>2. CASE q # p
    BY <1>1, <2>2
  <2> QED
    BY <2>1, <2>2
<1> QED
  BY <1>1, <1>2 DEF ConnInv

\* ... and one that is stopped leaves the others.
LEMMA StoppedKeeps ==
    ASSUME ConnInv, NEW p \in 1 .. Len(connections), connections' = Stopped(p)
    PROVE  /\ ConnInv' /\ Len(connections') = Len(connections) - 1
           /\ \A q \in 1 .. Len(connections') :
                 \E k \in 1 .. Len(connections) :
                    k # p /\ connections'[q] = connections[k]
<1> DEFINE At(q) == IF q < p THEN q ELSE q + 1
<1>1. connections \in Seq(Connection)
  BY DEF ConnInv
<1>2. connections' \in Seq(Connection) /\ Len(connections') = Len(connections) - 1
  BY <1>1, DeleteType DEF Stopped
<1>3. \A q \in 1 .. Len(connections) - 1 :
         /\ At(q) \in 1 .. Len(connections) /\ At(q) # p
         /\ connections'[q] = connections[At(q)]
  BY <1>1 DEF Stopped, Delete
<1>4. \A j, l \in 1 .. Len(connections) - 1 : At(j) = At(l) => j = l
  BY <1>1
<1> HIDE DEF At
<1>5. \A j, l \in 1 .. Len(connections') :
         connections'[j].cid = connections'[l].cid => j = l
  <2> SUFFICES ASSUME NEW j \in 1 .. Len(connections'), NEW l \in 1 .. Len(connections'),
                      connections'[j].cid = connections'[l].cid
               PROVE  j = l
    OBVIOUS
  <2>1. j \in 1 .. Len(connections) - 1 /\ l \in 1 .. Len(connections) - 1
    BY <1>2
  <2>2. /\ At(j) \in 1 .. Len(connections) /\ connections'[j] = connections[At(j)]
        /\ At(l) \in 1 .. Len(connections) /\ connections'[l] = connections[At(l)]
    BY <1>3, <2>1
  <2>3. At(j) = At(l)
    BY <2>2 DEF ConnInv
  <2> QED
    BY <1>4, <2>1, <2>3
<1>6. \A q \in 1 .. Len(connections') :
         \E k \in 1 .. Len(connections) : k # p /\ connections'[q] = connections[k]
  <2> TAKE q \in 1 .. Len(connections')
  <2>1. q \in 1 .. Len(connections) - 1
    BY <1>2
  <2> QED
    BY <1>3, <2>1
<1> QED
  BY <1>2, <1>5, <1>6 DEF ConnInv

\* The token a number leads to is that of a request that was issued.
LEMMA Found ==
    ASSUME TypeInv, NEW s
    PROVE  /\ FindToken(s) \in Token \cup {None}
           /\ FindToken(s) \in Token => asked[FindToken(s)] # "none"
<1>1. requests \in Seq(Request) /\ QueueInv
  BY DEF TypeInv, TypeOK
<1> QED
  BY <1>1, FindTokenCases, QueueAssumption DEF QueueInv, Queued

\* A request that is answered leaves the queue, and the others stay.
LEMMA Completed ==
    ASSUME TypeInv, NEW t \in Token \cup {None}, t \in Token => asked[t] # "none",
           NEW e \in Errno, CompleteToken(t, e), asked' = asked, seq' = seq
    PROVE  /\ QueueInv' /\ requests' \in Seq(Request) /\ answer' \in [Token -> Errno]
           /\ \A j \in 1 .. Len(requests') :
                 \E k \in 1 .. Len(requests) : requests'[j] = requests[k]
           /\ \A k \in 1 .. Len(requests) : requests[k].token # t =>
                 \E j \in 1 .. Len(requests') : requests'[j] = requests[k]
           /\ \A u \in Token : answer'[u] = IF u = t THEN e ELSE answer[u]
<1>1. requests \in Seq(Request) /\ QueueInv /\ answer \in [Token -> Errno]
  BY DEF TypeInv, TypeOK, Errno
<1>2. answer' \in [Token -> Errno]
  BY <1>1 DEF CompleteToken
<1>3. \A u \in Token : answer'[u] = IF u = t THEN e ELSE answer[u]
  BY <1>1, QueueAssumption, CompleteAnswers
<1> QED
  BY <1>1, <1>2, <1>3, QueueAssumption, CompleteKeeps

-----------------------------------------------------------------------------
(* The steps.                                                              *)

\* Requests may leave the queue that no connection waits for, connections may
\* be stopped, changed and forget their request, and commands may be answered:
\* what is left stays linked.
LEMMA LinkedKept ==
    ASSUME TypeInv, TypeInv', Linked, seq' = seq, asked' = asked, leftOver => leftOver',
           \A j \in 1 .. Len(requests') :
              \E i \in 1 .. Len(requests) : requests'[j] = requests[i],
           \A p \in 1 .. Len(connections') :
              \E k \in 1 .. Len(connections) :
                 /\ connections'[p].cid = connections[k].cid
                 /\ connections'[p].token # None =>
                       /\ connections'[p].token = connections[k].token
                       /\ connections'[p].owner = connections[k].owner
                       /\ answer'[connections[k].token] = answer[connections[k].token]
                       /\ \A i \in 1 .. Len(requests) :
                             requests[i].token = connections[k].token =>
                                \E j \in 1 .. Len(requests') : requests'[j] = requests[i],
           \A c \in wire' : ~c.old /\ ~(c.cmd = List /\ c.seq = 0) => Asked(c),
           \A x \in sets' : Link(x)
    PROVE  Linked'
<1>a. DistinctTokens(requests) /\ DistinctTokens(requests')
  BY DEF TypeInv, QueueInv
<1>1. ASSUME NEW p \in 1 .. Len(connections'), connections'[p].token # None
      PROVE  Waits(p)' \/ Left(p)'
  <2>1. PICK k \in 1 .. Len(connections) :
           /\ connections'[p].token = connections[k].token
           /\ connections'[p].owner = connections[k].owner
           /\ answer'[connections[k].token] = answer[connections[k].token]
           /\ \A i \in 1 .. Len(requests) :
                 requests[i].token = connections[k].token =>
                    \E j \in 1 .. Len(requests') : requests'[j] = requests[i]
    BY <1>1
  <2>2. CASE Waits(k)
    <3>1. PICK i \in 1 .. Len(requests) :
             /\ requests[i].token = connections[k].token
             /\ Handled(requests[i]) /\ requests[i].kind # "DATA_CALL_LIST"
             /\ requests[i].kind = "SETUP_DATA_CALL" =>
                   connections[k].owner = connections[k].token
      BY <2>2 DEF Waits
    <3>2. PICK j \in 1 .. Len(requests') : requests'[j] = requests[i]
      BY <2>1, <3>1
    <3>3. Waits(p)'
      BY <2>1, <3>1, <3>2 DEF Waits, Handled
    <3> QED
      BY <3>3
  <2>3. CASE Left(k)
    <3>1. ASSUME NEW j \in 1 .. Len(requests')
          PROVE  requests'[j].token # connections'[p].token
      <4>1. PICK i \in 1 .. Len(requests) : requests'[j] = requests[i]
        OBVIOUS
      <4>2. requests[i].token # connections[k].token
        BY <2>3 DEF Left
      <4> QED
        BY <2>1, <4>1, <4>2
    <3> QED
      BY <2>1, <2>3, <3>1 DEF Left
  <2> QED
    BY <1>1, <2>1, <2>2, <2>3 DEF Linked
<1>2. ASSUME NEW p \in 1 .. Len(connections'), NEW q \in 1 .. Len(connections'),
             connections'[p].token # None, connections'[p].token = connections'[q].token
      PROVE  p = q
  <2>1. PICK k \in 1 .. Len(connections) :
           /\ connections'[p].cid = connections[k].cid
           /\ connections'[p].token = connections[k].token
    BY <1>2
  <2>2. PICK m \in 1 .. Len(connections) :
           /\ connections'[q].cid = connections[m].cid
           /\ connections'[q].token = connections[m].token
    BY <1>2
  <2>3. connections[k].token # None /\ connections[k].token = connections[m].token
    BY <1>2, <2>1, <2>2
  <2>4. k = m
    BY <2>3 DEF Linked
  <2> QED
    BY <2>1, <2>2, <2>4 DEF TypeInv, TypeOK
<1>3. ASSUME NEW i \in 1 .. Len(requests'), NEW j \in 1 .. Len(requests'),
             Handled(requests'[i]), requests'[i].seq = requests'[j].seq
      PROVE  i = j
  <2>1. PICK k \in 1 .. Len(requests) : requests'[i] = requests[k]
    OBVIOUS
  <2>2. PICK m \in 1 .. Len(requests) : requests'[j] = requests[m]
    OBVIOUS
  <2>3. k = m
    BY <1>3, <2>1, <2>2 DEF Linked
  <2> QED
    BY <1>a, <2>1, <2>2, <2>3 DEF DistinctTokens
<1>4. ASSUME NEW c \in wire', ~c.old, ~(c.cmd = List /\ c.seq = 0)
      PROVE  Asked(c)'
  <2>1. Asked(c)
    BY <1>4
  <2>2. ASSUME NEW i \in 1 .. Len(requests'), c.cmd = List, requests'[i].seq = c.seq
        PROVE  requests'[i].kind = "DATA_CALL_LIST"
    <3>1. PICK k \in 1 .. Len(requests) : requests'[i] = requests[k]
      OBVIOUS
    <3> QED
      BY <2>1, <2>2, <3>1 DEF Asked
  <2> QED
    BY <2>1, <2>2 DEF Asked
<1>5. ASSUME NEW x \in sets' PROVE Link(x)'
  <2>1. Link(x)
    OBVIOUS
  <2>2. ASSUME NEW i \in 1 .. Len(requests'), NEW p \in 1 .. Len(connections'),
               requests'[i].seq = x.seq, connections'[p].token = requests'[i].token
        PROVE  connections'[p].cid = x.cid
    <3>1. PICK n \in 1 .. Len(requests) : requests'[i] = requests[n]
      OBVIOUS
    <3>2. requests[n].token # None
      BY QueueAssumption DEF TypeInv, QueueInv, Queued
    <3>3. PICK k \in 1 .. Len(connections) :
             /\ connections'[p].cid = connections[k].cid
             /\ connections'[p].token = connections[k].token
      BY <2>2, <3>1, <3>2
    <3>4. requests[n].seq = x.seq /\ connections[k].token = requests[n].token
      BY <2>2, <3>1, <3>3
    <3>5. connections[k].cid = x.cid
      BY <2>1, <3>4 DEF Link
    <3> QED
      BY <3>3, <3>5
  <2> QED
    BY <2>1, <2>2 DEF Link
<1> QED
  BY <1>1, <1>2, <1>3, <1>4, <1>5 DEF Linked

\* A step that reports no success, but for a question for the list, has
\* nothing to do with the action properties.
LEMMA NoSuccess ==
    ASSUME ~stale' => \A t \in Token : \/ answer'[t] = answer[t]
                                       \/ answer'[t] # "SUCCESS"
                                       \/ asked[t] = "DATA_CALL_LIST"
    PROVE  OwnSetup /\ Removed
BY DEF OwnSetup, Removed

\* A request that is queued but was not sent is none that a connection waits
\* for.
LEMMA Unsent ==
    ASSUME TypeInv, Linked, NEW i \in 1 .. Len(requests), ~Handled(requests[i]),
           NEW p \in 1 .. Len(connections)
    PROVE  connections[p].token # requests[i].token
<1>1. requests[i].token # None
  BY QueueAssumption DEF TypeInv, QueueInv, Queued
<1>2. ASSUME connections[p].token = requests[i].token PROVE FALSE
  <2>1. Waits(p)
    BY <1>1, <1>2 DEF Linked, Left
  <2>2. PICK j \in 1 .. Len(requests) :
           requests[j].token = connections[p].token /\ Handled(requests[j])
    BY <2>1 DEF Waits
  <2>3. i = j
    BY <1>2, <2>2 DEF TypeInv, QueueInv, DistinctTokens
  <2> QED
    BY <2>2, <2>3
<1> QED
  BY <1>2

\* A new request is not sent and nothing waits for it.
LEMMA LinkedIssue ==
    ASSUME TypeInv, Linked, NEW r \in Request, r.seq = 0,
           requests' = Append(requests, r),
           UNCHANGED <<seq, wire, connections, sets, answer, leftOver>>,
           asked[r.token] = "none", \A u \in Token : u # r.token => asked'[u] = asked[u],
           \A i \in 1 .. Len(requests) : requests[i].token # r.token
    PROVE  Linked'
<1>1. requests \in Seq(Request) /\ r.token # None
  BY QueueAssumption DEF TypeInv, TypeOK, Request
<1>2. /\ Len(requests') = Len(requests) + 1
      /\ requests'[Len(requests) + 1] = r
      /\ \A i \in 1 .. Len(requests) : requests'[i] = requests[i]
  BY <1>1
<1>3. ASSUME NEW p \in 1 .. Len(connections), connections[p].token # None
      PROVE  (Waits(p)' \/ Left(p)') /\ connections[p].token # r.token
  <2>1. CASE Waits(p)
    <3>1. PICK i \in 1 .. Len(requests) :
             /\ requests[i].token = connections[p].token
             /\ Handled(requests[i]) /\ requests[i].kind # "DATA_CALL_LIST"
             /\ requests[i].kind = "SETUP_DATA_CALL" =>
                   connections[p].owner = connections[p].token
      BY <2>1 DEF Waits
    <3>2. i \in 1 .. Len(requests') /\ requests'[i] = requests[i]
      BY <1>1, <1>2
    <3> QED
      BY <3>1, <3>2 DEF Waits, Handled
  <2>2. CASE Left(p)
    <3>1. connections[p].token # r.token
      BY <2>2 DEF Left
    <3>2. \A j \in 1 .. Len(requests') : requests'[j].token # connections[p].token
      <4>1. \A j \in 1 .. Len(requests') :
               j = Len(requests) + 1 \/ j \in 1 .. Len(requests)
        BY <1>1, <1>2
      <4> QED
        BY <1>2, <2>2, <3>1, <4>1 DEF Left
    <3> QED
      BY <2>2, <3>1, <3>2 DEF Left
  <2> QED
    BY <1>3, <2>1, <2>2 DEF Linked
<1>4. \A i \in 1 .. Len(requests') : requests'[i].seq # 0 =>
         i \in 1 .. Len(requests) /\ requests'[i] = requests[i]
  BY <1>1, <1>2
<1>5. ASSUME NEW c \in wire, ~c.old, ~(c.cmd = List /\ c.seq = 0)
      PROVE  Asked(c)'
  <2>1. Asked(c)
    BY <1>5 DEF Linked
  <2>2. c.seq # 0 /\ c.seq \in 1 .. seq'
    BY <2>1 DEF Asked
  <2> QED
    BY <1>4, <2>1, <2>2 DEF Asked
<1>6. ASSUME NEW x \in sets PROVE Link(x)'
  <2>1. Link(x)
    BY DEF Linked
  <2>2. x.seq # 0 /\ x.seq \in 1 .. seq'
    BY <2>1 DEF Link
  <2> QED
    BY <1>4, <2>1, <2>2 DEF Link
<1>7. \A i, j \in 1 .. Len(requests') :
         Handled(requests'[i]) /\ requests'[i].seq = requests'[j].seq => i = j
  BY <1>4 DEF Linked, Handled
<1> QED
  BY <1>3, <1>5, <1>6, <1>7 DEF Linked

\* A request that is sent gets a number of its own; the connection that waits
\* for it then, if there is one, has the cid of its command.
LEMMA LinkedSent ==
    ASSUME TypeInv, Linked, NEW i \in 1 .. Len(requests), ~Handled(requests[i]),
           NEW c, c.seq = seq + 1,
           c.cmd = List => requests[i].kind = "DATA_CALL_LIST",
           NEW E, Send(i, c, E), leftOver' = leftOver,
           \A x \in sets' : x \in sets \/ (x.seq = seq + 1 /\ x.cid = c.cid),
           NEW n,
           \A q \in 1 .. Len(connections') :
              \/ q # n /\ q \in 1 .. Len(connections) /\ connections'[q] = connections[q]
              \/ /\ q = n
                 /\ connections'[q].token = requests[i].token
                 /\ connections'[q].cid = c.cid
                 /\ requests[i].kind # "DATA_CALL_LIST"
                 /\ requests[i].kind = "SETUP_DATA_CALL" =>
                       connections'[q].owner = connections'[q].token
    PROVE  Linked'
<1>1. requests \in Seq(Request) /\ QueueInv /\ seq \in Nat
  BY DEF TypeInv, TypeOK
<1>2. /\ Len(requests') = Len(requests)
      /\ \A j \in 1 .. Len(requests) :
            /\ requests'[j].token = requests[j].token
            /\ requests'[j].kind = requests[j].kind
            /\ requests'[j].seq = IF j = i THEN seq + 1 ELSE requests[j].seq
  BY <1>1, SendKeeps, RequestNumberable
<1>3. seq' = seq + 1 /\ wire' = wire \cup {c}
  BY DEF Send
<1>4. \A j \in 1 .. Len(requests) : requests[j].seq \in Int /\ requests[j].seq <= seq
  BY <1>1 DEF QueueInv, Queued
<1>5. \A j \in 1 .. Len(requests) :
         /\ requests'[j].seq = seq + 1 => j = i
         /\ j # i => requests'[j].seq = requests[j].seq
  BY <1>1, <1>2, <1>4
<1>6. /\ requests'[i].seq = seq + 1 /\ requests'[i].token = requests[i].token
      /\ requests'[i].kind = requests[i].kind
  BY <1>2
<1>7. \A q \in 1 .. Len(connections) : connections[q].token # requests[i].token
  BY Unsent
<1>8. ASSUME NEW q \in 1 .. Len(connections'), connections'[q].token # None
      PROVE  Waits(q)' \/ Left(q)'
  <2>1. CASE /\ q # n /\ q \in 1 .. Len(connections) /\ connections'[q] = connections[q]
             /\ Waits(q)
    <3>2. PICK j \in 1 .. Len(requests) :
             /\ requests[j].token = connections[q].token
             /\ Handled(requests[j]) /\ requests[j].kind # "DATA_CALL_LIST"
             /\ requests[j].kind = "SETUP_DATA_CALL" =>
                   connections[q].owner = connections[q].token
      BY <2>1 DEF Waits
    <3>3. j # i
      BY <1>7, <2>1, <3>2
    <3>4. /\ requests'[j].token = requests[j].token
          /\ requests'[j].kind = requests[j].kind /\ requests'[j].seq = requests[j].seq
      BY <1>2, <1>5, <3>3
    <3> QED
      BY <1>2, <2>1, <3>2, <3>4 DEF Waits, Handled
  <2>2. CASE /\ q = n
             /\ connections'[q].token = requests[i].token
             /\ requests[i].kind # "DATA_CALL_LIST"
             /\ requests[i].kind = "SETUP_DATA_CALL" =>
                   connections'[q].owner = connections'[q].token
    <3>1. requests'[i].seq # 0
      BY <1>1, <1>6
    <3> QED
      BY <1>2, <1>6, <2>2, <3>1 DEF Waits, Handled
  <2>3. CASE /\ q # n /\ q \in 1 .. Len(connections) /\ connections'[q] = connections[q]
             /\ Left(q)
    <3>1. asked' = asked /\ answer' = answer
      BY DEF Send
    <3> QED
      BY <1>2, <2>3, <3>1 DEF Left
  <2> QED
    BY <1>8, <2>1, <2>2, <2>3 DEF Linked
<1>9. ASSUME NEW p \in 1 .. Len(connections'), NEW q \in 1 .. Len(connections'),
             connections'[p].token # None, connections'[p].token = connections'[q].token
      PROVE  p = q
  <2>1. \A r \in 1 .. Len(connections') :
           \/ /\ r # n /\ r \in 1 .. Len(connections)
              /\ connections'[r] = connections[r]
              /\ connections'[r].token # requests[i].token
           \/ r = n /\ connections'[r].token = requests[i].token
    BY <1>7
  <2> QED
    BY <1>9, <2>1 DEF Linked
<1>10. ASSUME NEW j \in 1 .. Len(requests), NEW k \in 1 .. Len(requests),
              Handled(requests'[j]), requests'[j].seq = requests'[k].seq
       PROVE  j = k
  <2>1. CASE j = i \/ k = i
    BY <1>5, <1>6, <1>10, <2>1
  <2>2. CASE j # i /\ k # i
    BY <1>5, <1>10, <2>2 DEF Linked, Handled
  <2> QED
    BY <2>1, <2>2
<1>11. ASSUME NEW d \in wire', ~d.old, ~(d.cmd = List /\ d.seq = 0)
       PROVE  Asked(d)'
  <2>1. CASE d = c
    <3>1. d.seq \in 1 .. seq'
      BY <1>1, <1>3, <2>1
    <3>2. ASSUME NEW j \in 1 .. Len(requests), d.cmd = List, requests'[j].seq = d.seq
          PROVE  requests'[j].kind = "DATA_CALL_LIST"
      BY <1>5, <1>6, <2>1, <3>2
    <3> QED
      BY <1>2, <3>1, <3>2 DEF Asked
  <2>2. CASE d \in wire
    <3>1. Asked(d)
      BY <1>11, <2>2 DEF Linked
    <3>2. d.seq \in 1 .. seq' /\ d.seq # seq + 1
      BY <1>1, <1>3, <3>1 DEF Asked
    <3>3. ASSUME NEW j \in 1 .. Len(requests), d.cmd = List, requests'[j].seq = d.seq
          PROVE  requests'[j].kind = "DATA_CALL_LIST"
      <4>1. j # i
        BY <1>6, <3>2, <3>3
      <4>2. requests[j].seq = d.seq
        BY <1>5, <3>3, <4>1
      <4> QED
        BY <1>2, <3>1, <3>3, <4>2 DEF Asked
    <3> QED
      BY <1>2, <3>2, <3>3 DEF Asked
  <2> QED
    BY <1>3, <2>1, <2>2
<1>12. ASSUME NEW x \in sets' PROVE Link(x)'
  <2>1. x.seq \in 1 .. seq'
    BY <1>1, <1>3 DEF Linked, Link
  <2>2. ASSUME NEW j \in 1 .. Len(requests), NEW q \in 1 .. Len(connections'),
               requests'[j].seq = x.seq, connections'[q].token = requests'[j].token
        PROVE  connections'[q].cid = x.cid
    <3>1. CASE x \in sets
      <4>1. Link(x)
        BY <3>1 DEF Linked
      <4>2. j # i
        BY <1>1, <1>6, <2>2, <4>1 DEF Link
      <4>3. requests[j].seq = x.seq /\ requests[j].token # requests[i].token
        BY <1>1, <1>5, <2>2, <4>2 DEF QueueInv, DistinctTokens
      <4>4. q \in 1 .. Len(connections) /\ connections'[q] = connections[q]
        BY <1>2, <2>2, <4>3
      <4>5. connections[q].token = requests[j].token
        BY <1>2, <2>2, <4>4
      <4> QED
        BY <4>1, <4>3, <4>4, <4>5 DEF Link
    <3>2. CASE x.seq = seq + 1 /\ x.cid = c.cid
      <4>1. j = i
        BY <1>5, <2>2, <3>2
      <4> QED
        BY <1>6, <1>7, <2>2, <3>2, <4>1
    <3> QED
      BY <3>1, <3>2
  <2> QED
    BY <1>2, <2>1, <2>2 DEF Link
<1> QED
  BY <1>2, <1>8, <1>9, <1>10, <1>11, <1>12 DEF Linked

\* The types of what a step changes besides the queue and the connections.
Rest ==
    /\ radio' \in RadioStates /\ expects' \in Seq(Expect) /\ wire' \in SUBSET Command
    /\ outages' \in Nat /\ stale' \in BOOLEAN
    /\ sets' \in SUBSET [cid : Cid, seq : Nat] /\ leftOver' \in BOOLEAN

\* The types after a step, put together.
LEMMA Types ==
    ASSUME TypeInv, QueueInv', requests' \in Seq(Request), answer' \in [Token -> Errno],
           asked' \in [Token -> Kind \cup {"none"}], ConnInv', Rest
    PROVE  TypeInv'
BY DEF TypeInv, TypeOK, QueueInv, Rest, ConnInv, Errno, Expect

\* What is used of the types before it.
LEMMA TypesUsed ==
    ASSUME TypeInv
    PROVE  /\ requests \in Seq(Request) /\ QueueInv /\ seq \in Nat
           /\ wire \subseteq Command /\ expects \in Seq(Expect)
           /\ answer \in [Token -> Errno] /\ asked \in [Token -> Kind \cup {"none"}]
           /\ radio \in RadioStates /\ outages \in Nat /\ stale \in BOOLEAN
           /\ sets \in SUBSET [cid : Cid, seq : Nat] /\ leftOver \in BOOLEAN
           /\ ConnInv
BY DEF TypeInv, TypeOK, QueueInv, ConnInv, Errno, Expect

\* A message is handled: a request is answered, or none, that no connection
\* waits for any more.
LEMMA Settled ==
    ASSUME TypeInv, LinkInv, NEW t \in Token \cup {None},
           t \in Token => asked[t] # "none", NEW e \in Errno,
           CompleteToken(t, e) \/ UNCHANGED <<requests, answer>>,
           asked' = asked, seq' = seq, Rest, ConnInv', stale => stale',
           leftOver => leftOver',
           \A p \in 1 .. Len(connections') :
              \E k \in 1 .. Len(connections) :
                 /\ connections'[p].cid = connections[k].cid
                 /\ connections'[p].token # None =>
                       /\ connections'[p].token = connections[k].token
                       /\ connections'[p].owner = connections[k].owner,
           ~stale' => \/ UNCHANGED <<requests, answer>>
                      \/ \A p \in 1 .. Len(connections') :
                            connections'[p].token # None => connections'[p].token # t,
           ~stale' => \A c \in wire' :
                         c \in wire \/ (c.cmd = List /\ c.seq = 0) \/ Asked(c),
           ~stale' => \A x \in sets' : x \in sets \/ Link(x)
    PROVE  /\ TypeInv' /\ LinkInv'
           /\ \A u \in Token : answer'[u] = answer[u] \/ (u = t /\ answer'[u] = e)
<1>1. /\ QueueInv' /\ requests' \in Seq(Request) /\ answer' \in [Token -> Errno]
      /\ \A j \in 1 .. Len(requests') :
            \E k \in 1 .. Len(requests) : requests'[j] = requests[k]
      /\ requests' = requests \/ \A k \in 1 .. Len(requests) : requests[k].token # t =>
            \E j \in 1 .. Len(requests') : requests'[j] = requests[k]
      /\ \A u \in Token : answer'[u] = answer[u] \/ (u = t /\ answer'[u] = e)
  <2>1. CASE CompleteToken(t, e)
    BY <2>1, Completed
  <2>2. CASE UNCHANGED <<requests, answer>>
    <3>1. QueueInv'
      BY <2>2, TypesUsed, RadioKeeps
    <3> QED
      BY <2>2, <3>1, TypesUsed
  <2> QED
    BY <2>1, <2>2
<1>2. TypeInv'
  BY <1>1, Types, TypesUsed
<1>3. ASSUME ~stale' PROVE Linked'
  <2>1. Linked
    BY <1>3 DEF LinkInv
  <2>2. \A c \in wire' : ~c.old /\ ~(c.cmd = List /\ c.seq = 0) => Asked(c)
    BY <1>3, <2>1 DEF Linked
  <2>3. \A x \in sets' : Link(x)
    BY <1>3, <2>1 DEF Linked
  <2>4. ASSUME NEW p \in 1 .. Len(connections')
        PROVE  \E k \in 1 .. Len(connections) :
                  /\ connections'[p].cid = connections[k].cid
                  /\ connections'[p].token # None =>
                        /\ connections'[p].token = connections[k].token
                        /\ connections'[p].owner = connections[k].owner
                        /\ answer'[connections[k].token] = answer[connections[k].token]
                        /\ \A i \in 1 .. Len(requests) :
                              requests[i].token = connections[k].token =>
                                 \E j \in 1 .. Len(requests') : requests'[j] = requests[i]
    <3>1. PICK k \in 1 .. Len(connections) :
             /\ connections'[p].cid = connections[k].cid
             /\ connections'[p].token # None =>
                   /\ connections'[p].token = connections[k].token
                   /\ connections'[p].owner = connections[k].owner
      OBVIOUS
    <3>2. ASSUME connections'[p].token # None, NEW i \in 1 .. Len(requests),
                 requests[i].token = connections[k].token
          PROVE  \E j \in 1 .. Len(requests') : requests'[j] = requests[i]
      <4>1. CASE UNCHANGED <<requests, answer>>
        BY <4>1
      <4>2. CASE ~UNCHANGED <<requests, answer>>
        <5>1. connections'[p].token # t
          BY <1>3, <3>2, <4>2
        <5>2. requests[i].token # t
          BY <3>1, <3>2, <5>1
        <5> QED
          BY <1>1, <4>2, <5>2
      <4> QED
        BY <4>1, <4>2
    <3>3. ASSUME connections'[p].token # None
          PROVE  answer'[connections[k].token] = answer[connections[k].token]
      <4>0. connections[k] \in Connection
        BY TypesUsed DEF ConnInv
      <4>1. connections[k].token = connections'[p].token /\ connections[k].token \in Token
        BY <3>1, <3>3, <4>0 DEF Connection
      <4>2. UNCHANGED <<requests, answer>> \/ connections'[p].token # t
        BY <1>3, <3>3
      <4>3. CASE answer' = answer
        BY <4>3
      <4>4. CASE connections[k].token # t
        BY <1>1, <4>1, <4>4
      <4> QED
        BY <4>1, <4>2, <4>3, <4>4
    <3> QED
      BY <3>1, <3>2, <3>3
  <2> QED
    BY <1>1, <1>2, <2>1, <2>2, <2>3, <2>4, LinkedKept
<1> QED
  BY <1>1, <1>2, <1>3 DEF LinkInv

\* The connections a step leaves alone or changes are still linked.
Same ==
    \A p \in 1 .. Len(connections') :
       \E k \in 1 .. Len(connections) :
          /\ connections'[p].cid = connections[k].cid
          /\ connections'[p].token # None =>
                /\ connections'[p].token = connections[k].token
                /\ connections'[p].owner = connections[k].owner

\* The list is left alone,
LEMMA SameList ==
    ASSUME ConnInv, connections' = connections
    PROVE  ConnInv' /\ Same
BY DEF ConnInv, Same

\* or a connection is stopped, and no other one waits for its request,
LEMMA SameStopped ==
    ASSUME ConnInv, NEW p \in 1 .. Len(connections), connections' = Stopped(p)
    PROVE  /\ ConnInv' /\ Same
           /\ Len(connections') < Len(connections)
           /\ Linked => \A q \in 1 .. Len(connections') :
                 connections'[q].token # None => connections'[q].token # connections[p].token
<1>1. /\ ConnInv' /\ Len(connections') = Len(connections) - 1
      /\ \A q \in 1 .. Len(connections') :
            \E k \in 1 .. Len(connections) : k # p /\ connections'[q] = connections[k]
  BY StoppedKeeps
<1>2. Same
  BY <1>1 DEF Same
<1>3. ASSUME Linked, NEW q \in 1 .. Len(connections'), connections'[q].token # None
      PROVE  connections'[q].token # connections[p].token
  <2>1. PICK k \in 1 .. Len(connections) : k # p /\ connections'[q] = connections[k]
    BY <1>1
  <2> QED
    BY <1>3, <2>1 DEF Linked
<1>4. Len(connections') < Len(connections)
  BY <1>1 DEF ConnInv
<1> QED
  BY <1>1, <1>2, <1>3, <1>4

\* or one is changed.
LEMMA SameChanged ==
    ASSUME ConnInv, NEW p \in 1 .. Len(connections), NEW r \in Connection,
           r.cid = connections[p].cid, r.owner = connections[p].owner,
           r.token \in {connections[p].token, None},
           connections' = [connections EXCEPT ![p] = r]
    PROVE  /\ ConnInv' /\ Same
           /\ p \in 1 .. Len(connections') /\ connections'[p] = r
           /\ \A q \in 1 .. Len(connections') : q # p =>
                 q \in 1 .. Len(connections) /\ connections'[q] = connections[q]
<1>1. /\ ConnInv' /\ Len(connections') = Len(connections)
      /\ \A q \in 1 .. Len(connections) :
            connections'[q] = IF q = p THEN r ELSE connections[q]
  BY ChangedKeeps
<1>2. connections'[p] = r
  BY <1>1
<1>3. \A q \in 1 .. Len(connections') : q # p =>
         q \in 1 .. Len(connections) /\ connections'[q] = connections[q]
  BY <1>1
<1>4. ASSUME NEW q \in 1 .. Len(connections')
      PROVE  \E k \in 1 .. Len(connections) :
                /\ connections'[q].cid = connections[k].cid
                /\ connections'[q].token # None =>
                      /\ connections'[q].token = connections[k].token
                      /\ connections'[q].owner = connections[k].owner
  <2>1. CASE q = p
    BY <1>2, <2>1
  <2>2. CASE q # p
    BY <1>3, <2>2
  <2> QED
    BY <2>1, <2>2
<1> QED
  BY <1>1, <1>2, <1>3, <1>4 DEF Same

\* What every step keeps.
Good == TypeInv' /\ LinkInv' /\ OwnSetup /\ Removed

\* ril_on_request
LEMMA RequestStep ==
    ASSUME TypeInv, LinkInv, NEW t \in Token, NEW k \in Kind, NEW c \in Cid,
           NEW b \in BOOLEAN, OnRequest(t, k, c, b)
    PROVE  Good
<1>1. PICK r \in Request : /\ Issue(t, r) /\ r.token = t /\ r.kind = k /\ r.seq = 0
  BY DEF OnRequest, Request
<1>2. r.kind # "none"
  BY <1>1 DEF Kind
<1>3. QueueInv' /\ requests' \in Seq(Request)
  BY <1>1, <1>2, TypesUsed, IssueKeeps
<1>4. /\ requests' = Append(requests, r) /\ asked' = [asked EXCEPT ![t] = r.kind]
      /\ UNCHANGED <<radio, seq, expects, wire, answer, outages, stale, connections,
                     sets, leftOver>>
  BY <1>1 DEF Issue, OnRequest, dataVars
<1>5. Rest /\ ConnInv'
  BY <1>4, TypesUsed DEF Rest, ConnInv
<1>6. asked' \in [Token -> Kind \cup {"none"}]
  BY <1>1, <1>4, TypesUsed
<1>7. TypeInv'
  BY <1>3, <1>4, <1>5, <1>6, TypesUsed, Types
<1>8. \A i \in 1 .. Len(requests) : requests[i].token # r.token
  BY <1>1, TypesUsed DEF Issue, QueueInv, Queued
<1>9. LinkInv'
  <2>1. asked[r.token] = "none" /\ \A u \in Token : u # r.token => asked'[u] = asked[u]
    BY <1>1, <1>4, TypesUsed DEF Issue
  <2> QED
    BY <1>1, <1>4, <1>8, <2>1, LinkedIssue DEF LinkInv
<1>10. OwnSetup /\ Removed
  BY <1>4, NoSuccess
<1> QED
  BY <1>7, <1>9, <1>10 DEF Good

\* A handler answers its request, perhaps after it stopped a connection.
LEMMA AnswerStep ==
    ASSUME TypeInv, LinkInv, NEW i \in 1 .. Len(requests), ~Handled(requests[i]),
           NEW e \in Errno, CompleteNow(i, e),
           e = "SUCCESS" => requests[i].kind = "DATA_CALL_LIST",
           \/ connections' = connections
           \/ \E p \in 1 .. Len(connections) : connections' = Stopped(p),
           UNCHANGED <<sets, leftOver>>
    PROVE  Good
<1> DEFINE t == requests[i].token
<1>1. Queued(requests[i])
  BY TypesUsed DEF QueueInv
<1>2. t \in Token /\ asked[t] = requests[i].kind /\ asked[t] # "none"
  BY <1>1 DEF Queued
<1>3. /\ CompleteToken(t, e)
      /\ UNCHANGED <<radio, seq, expects, wire, asked, outages, stale>>
  BY DEF CompleteNow
<1>4. Rest
  BY <1>3, TypesUsed DEF Rest
<1>5. ConnInv' /\ Same
  BY SameList, SameStopped, TypesUsed
<1>6. ASSUME ~stale', NEW p \in 1 .. Len(connections'), connections'[p].token # None
      PROVE  connections'[p].token # t
  <2>1. PICK k \in 1 .. Len(connections) : connections'[p].token = connections[k].token
    BY <1>5, <1>6 DEF Same
  <2>2. Linked
    BY <1>3, <1>6 DEF LinkInv
  <2> QED
    BY <2>1, <2>2, Unsent
<1> HIDE DEF t
<1>7. /\ TypeInv' /\ LinkInv'
      /\ \A u \in Token : answer'[u] = answer[u] \/ (u = t /\ answer'[u] = e)
  BY <1>2, <1>3, <1>4, <1>5, <1>6, Settled DEF Same
<1>8. OwnSetup /\ Removed
  BY <1>2, <1>7, NoSuccess
<1> QED
  BY <1>7, <1>8 DEF Good

\* The handlers that send nothing
LEMMA AnsweredStep ==
    ASSUME TypeInv, LinkInv, NEW i \in 1 .. Len(requests),
           \/ SetupDataCallAnswered(i) \/ DeactivateDataCallFails(i)
           \/ DataCallListAnswered(i)
    PROVE  Good
<1>1. ~Handled(requests[i])
  BY DEF SetupDataCallAnswered, DeactivateDataCallFails, DataCallListAnswered, Runs,
         Dispatched
<1>2. CASE SetupDataCallAnswered(i)
  <2>1. PICK e \in {"GENERIC_FAILURE", "OP_NOT_ALLOWED_BEFORE_REG_TO_NW"} : AnswerNow(i, e)
    BY <1>2 DEF SetupDataCallAnswered
  <2> QED
    BY <1>1, <2>1, AnswerStep DEF AnswerNow, dataVars, Errno
<1>3. CASE DeactivateDataCallFails(i)
  <2>1. \/ connections' = connections
        \/ \E p \in WithCid(requests[i].cid) : connections' = Stopped(p)
    BY <1>3 DEF DeactivateDataCallFails
  <2>2. WithCid(requests[i].cid) \subseteq 1 .. Len(connections)
    BY DEF WithCid
  <2>3. CompleteNow(i, "GENERIC_FAILURE") /\ UNCHANGED <<sets, leftOver>>
    BY <1>3 DEF DeactivateDataCallFails
  <2> QED
    BY <1>1, <2>1, <2>2, <2>3, AnswerStep DEF Errno
<1>4. CASE DataCallListAnswered(i)
  <2>1. PICK e \in {"SUCCESS", "GENERIC_FAILURE"} : AnswerNow(i, e)
    BY <1>4 DEF DataCallListAnswered
  <2>2. requests[i].kind = "DATA_CALL_LIST"
    BY <1>4 DEF DataCallListAnswered, Runs
  <2> QED
    BY <1>1, <2>1, <2>2, AnswerStep DEF AnswerNow, dataVars, Errno
<1> QED
  BY <1>2, <1>3, <1>4

\* The connections after the i-th request sent command c: only the n-th, if there
\* is one, changed and waits for it.
Attached(i, c, n) ==
    \A q \in 1 .. Len(connections') :
       \/ q # n /\ q \in 1 .. Len(connections) /\ connections'[q] = connections[q]
       \/ /\ q = n
          /\ connections'[q].token = requests[i].token
          /\ connections'[q].cid = c.cid
          /\ requests[i].kind # "DATA_CALL_LIST"
          /\ requests[i].kind = "SETUP_DATA_CALL" =>
                connections'[q].owner = connections'[q].token

\* The handlers that send a command
LEMMA SentStep ==
    ASSUME TypeInv, LinkInv, NEW i \in 1 .. Len(requests), ~Handled(requests[i]),
           NEW c \in Command, c.seq = seq + 1,
           c.cmd = List => requests[i].kind = "DATA_CALL_LIST",
           \E E \in Seq(Expect) : Send(i, c, E), ConnInv',
           sets' \in SUBSET [cid : Cid, seq : Nat], leftOver' = leftOver,
           \A x \in sets' : x \in sets \/ (x.seq = seq + 1 /\ x.cid = c.cid),
           NEW n, Attached(i, c, n)
    PROVE  Good
<1>0. PICK E \in Seq(Expect) : Send(i, c, E)
  OBVIOUS
<1>1. QueueInv' /\ requests' \in Seq(Request)
  BY <1>0, TypesUsed, SendKeeps, RequestNumberable
<1>2. /\ expects' = expects \o E /\ wire' = wire \cup {c}
      /\ UNCHANGED <<radio, asked, answer, outages, stale>>
  BY <1>0 DEF Send
<1>3. Rest
  BY <1>2, TypesUsed DEF Rest
<1>4. TypeInv'
  BY <1>1, <1>2, <1>3, TypesUsed, Types
<1>5. ASSUME ~stale' PROVE Linked'
  <2>1. Linked
    BY <1>2, <1>5 DEF LinkInv
  <2> QED
    BY <1>0, <2>1, LinkedSent DEF Attached
<1>6. OwnSetup /\ Removed
  BY <1>2, NoSuccess
<1> QED
  BY <1>4, <1>5, <1>6 DEF Good, LinkInv

\* ril_request_data_call_list, for which no connection waits
LEMMA DataCallListStep ==
    ASSUME TypeInv, LinkInv, NEW i \in 1 .. Len(requests), DataCallList(i)
    PROVE  Good
<1> DEFINE c == Com("PDP_CONTEXT_GET", 1, seq + 1)
<1>1. c \in Command /\ c.seq = seq + 1
  BY TypesUsed, DataAssumption DEF Com, Command, Cid
<1>2. ~Handled(requests[i]) /\ requests[i].kind = "DATA_CALL_LIST"
  BY DEF DataCallList, Runs, Dispatched
<1>3. UNCHANGED <<connections, sets, leftOver>>
  BY DEF DataCallList, dataVars
<1>4. ConnInv' /\ sets' \in SUBSET [cid : Cid, seq : Nat]
  BY <1>3, TypesUsed, SameList
<1>5. \E E \in Seq(Expect) : Send(i, c, E)
  <2>1. Send(i, c, <<>>)
    BY DEF DataCallList
  <2>2. <<>> \in Seq(Expect)
    OBVIOUS
  <2> QED
    BY <2>1, <2>2
<1> HIDE DEF c
<1>6. Attached(i, c, 0)
  <2>1. \A q \in 1 .. Len(connections') :
           q # 0 /\ q \in 1 .. Len(connections) /\ connections'[q] = connections[q]
    BY <1>3
  <2> QED
    BY <2>1 DEF Attached
<1>7. \A x \in sets' : x \in sets \/ (x.seq = seq + 1 /\ x.cid = c.cid)
  BY <1>3
<1> QED
  BY <1>1, <1>2, <1>3, <1>4, <1>5, <1>6, <1>7, SentStep

\* A callback that is registered for a command is of the type of an expect.
LEMMA CallbackType ==
    ASSUME NEW c \in Command, c.cmd # List
    PROVE  Expecting(c, "callback") \in Seq(Expect)
<1> DEFINE e == [seq |-> c.seq, cmd |-> c.cmd, mode |-> "callback"]
<1>1. c.seq \in Nat /\ c.cmd \in {"DEFINE_PDP_CONTEXT", "PDP_CONTEXT"}
  BY DEF Command, List
<1>2. e \in Expect
  BY <1>1 DEF Expect
<1> HIDE DEF e
<1>3. <<e>> \in Seq(Expect)
  BY <1>2
<1> QED
  BY <1>3 DEF Expecting, e

\* ril_request_setup_data_call: the new connection is the last
LEMMA SetupDataCallStep ==
    ASSUME TypeInv, LinkInv, NEW i \in 1 .. Len(requests), SetupDataCall(i)
    PROVE  Good
<1> DEFINE t == requests[i].token
           c == Com("DEFINE_PDP_CONTEXT", Least(FreeCids), seq + 1)
           r == [cid |-> c.cid, token |-> t, ip |-> FALSE, enabled |-> FALSE,
                 owner |-> t]
<1>1. ~Handled(requests[i]) /\ requests[i].kind = "SETUP_DATA_CALL"
  BY DEF SetupDataCall, Runs, Dispatched
<1>2. t \in Token
  BY TypesUsed DEF QueueInv, Queued
<1>3. Least(FreeCids) \in Cid /\ WithCid(Least(FreeCids)) = {}
  <2>1. FreeCids \in SUBSET Nat /\ FreeCids \subseteq Cid
    BY DataAssumption DEF FreeCids, Cid
  <2>2. FreeCids # {}
    BY DEF SetupDataCall
  <2>3. Least(FreeCids) \in FreeCids
    BY <2>1, <2>2, LeastIn
  <2> QED
    BY <2>3 DEF FreeCids
<1>4. c \in Command /\ c.seq = seq + 1 /\ c.cmd # List
  BY <1>3, TypesUsed DEF Com, Command, List
<1>5. /\ connections' = Append(connections, r)
      /\ UNCHANGED <<sets, leftOver>>
  BY DEF SetupDataCall
<1>6. \E E \in Seq(Expect) : Send(i, c, E)
  <2>1. Send(i, c, Expecting(c, "callback"))
    BY DEF SetupDataCall
  <2>2. Expecting(c, "callback") \in Seq(Expect)
    BY <1>4, CallbackType
  <2> QED
    BY <2>1, <2>2
<1>7. r \in Connection /\ r.cid = c.cid /\ r.token = t /\ r.owner = t
  BY <1>2, <1>3 DEF Connection, Com
<1>8. \A p \in 1 .. Len(connections) : connections[p].cid # r.cid
  BY <1>3 DEF WithCid, Com
<1> HIDE DEF c, r
<1>9. /\ connections' \in Seq(Connection) /\ Len(connections') = Len(connections) + 1
      /\ connections'[Len(connections) + 1] = r
      /\ \A q \in 1 .. Len(connections) : connections'[q] = connections[q]
  BY <1>5, <1>7, TypesUsed DEF ConnInv
<1>10. \A q \in 1 .. Len(connections') :
          \/ /\ q # Len(connections) + 1 /\ q \in 1 .. Len(connections)
             /\ connections'[q] = connections[q]
          \/ q = Len(connections) + 1 /\ connections'[q] = r
  BY <1>9, TypesUsed DEF ConnInv
<1>11. ConnInv'
  BY <1>8, <1>9, <1>10, TypesUsed DEF ConnInv
<1>12. Attached(i, c, Len(connections) + 1)
  <2>1. r.token = requests[i].token
    BY <1>7
  <2>2. \A q \in 1 .. Len(connections') :
           \/ /\ q # Len(connections) + 1 /\ q \in 1 .. Len(connections)
              /\ connections'[q] = connections[q]
           \/ /\ q = Len(connections) + 1
              /\ connections'[q].token = requests[i].token
              /\ connections'[q].cid = c.cid
              /\ requests[i].kind # "DATA_CALL_LIST"
              /\ requests[i].kind = "SETUP_DATA_CALL" =>
                    connections'[q].owner = connections'[q].token
    BY <1>1, <1>7, <1>10, <2>1
  <2> HIDE DEF t
  <2> QED
    BY <2>2 DEF Attached
<1>13. \A x \in sets' : x \in sets \/ (x.seq = seq + 1 /\ x.cid = c.cid)
  BY <1>5
<1>14. sets' \in SUBSET [cid : Cid, seq : Nat]
  BY <1>5, TypesUsed
<1> QED
  BY <1>1, <1>4, <1>5, <1>6, <1>11, <1>12, <1>13, <1>14, SentStep

\* ril_request_deactivate_data_call: the connection waits for this request now
LEMMA DeactivateDataCallStep ==
    ASSUME TypeInv, LinkInv, NEW i \in 1 .. Len(requests), DeactivateDataCall(i)
    PROVE  Good
<1> DEFINE t == requests[i].token
           c == Com("PDP_CONTEXT", requests[i].cid, seq + 1)
           p == Least(WithCid(requests[i].cid))
           r == [connections[p] EXCEPT !.token = t]
<1>1. ~Handled(requests[i]) /\ requests[i].kind = "DEACTIVATE_DATA_CALL"
  BY DEF DeactivateDataCall, Runs, Dispatched
<1>2. t \in Token /\ requests[i].cid \in Cid
  <2>1. requests[i] \in Request
    BY TypesUsed
  <2> QED
    BY <2>1 DEF Request
<1>3. p \in 1 .. Len(connections) /\ connections[p].cid = requests[i].cid
  <2>1. WithCid(requests[i].cid) # {}
    BY DEF DeactivateDataCall
  <2>2. p \in WithCid(requests[i].cid)
    BY <2>1, Positions
  <2> QED
    BY <2>2 DEF WithCid
<1>4. c \in Command /\ c.seq = seq + 1 /\ c.cmd # List /\ c.cid = requests[i].cid
  BY <1>2, TypesUsed DEF Com, Command, List
<1>5. /\ connections' = [connections EXCEPT ![p].token = t]
      /\ sets' = sets \cup {[cid |-> c.cid, seq |-> c.seq]}
      /\ UNCHANGED leftOver
  BY DEF DeactivateDataCall, Com
<1>6. \E E \in Seq(Expect) : Send(i, c, E)
  <2>1. Send(i, c, Expecting(c, "callback"))
    BY DEF DeactivateDataCall
  <2>2. Expecting(c, "callback") \in Seq(Expect)
    BY <1>4, CallbackType
  <2> QED
    BY <2>1, <2>2
<1>7. connections[p] \in Connection
  BY <1>3, TypesUsed DEF ConnInv
<1>8. r \in Connection /\ r.cid = connections[p].cid /\ r.token = t
  BY <1>2, <1>7 DEF Connection
<1>9. connections' = [connections EXCEPT ![p] = r]
  BY <1>5
<1> HIDE DEF c, p, r, t
<1>10. /\ ConnInv' /\ Len(connections') = Len(connections)
       /\ \A q \in 1 .. Len(connections) :
             connections'[q] = IF q = p THEN r ELSE connections[q]
  BY <1>3, <1>8, <1>9, ChangedKeeps, TypesUsed
<1>11. \A q \in 1 .. Len(connections') :
          \/ q # p /\ q \in 1 .. Len(connections) /\ connections'[q] = connections[q]
          \/ q = p /\ connections'[q] = r
  BY <1>10
<1>12. Attached(i, c, p)
  <2>1. r.token = requests[i].token /\ r.cid = c.cid
    BY <1>3, <1>4, <1>8 DEF t
  <2>2. \A q \in 1 .. Len(connections') :
           \/ q # p /\ q \in 1 .. Len(connections) /\ connections'[q] = connections[q]
           \/ /\ q = p
              /\ connections'[q].token = requests[i].token
              /\ connections'[q].cid = c.cid
              /\ requests[i].kind # "DATA_CALL_LIST"
              /\ requests[i].kind = "SETUP_DATA_CALL" =>
                    connections'[q].owner = connections'[q].token
    BY <1>1, <1>11, <2>1
  <2> QED
    BY <2>2 DEF Attached
<1>13. \A x \in sets' : x \in sets \/ (x.seq = seq + 1 /\ x.cid = c.cid)
  BY <1>4, <1>5
<1>14. sets' \in SUBSET [cid : Cid, seq : Nat]
  BY <1>4, <1>5, TypesUsed DEF Command
<1> QED
  BY <1>1, <1>4, <1>5, <1>6, <1>10, <1>12, <1>13, <1>14, SentStep

\* A message is received: what it answers, stops and sends leaves the rest.
LEMMA ReceivedStep ==
    ASSUME TypeInv, LinkInv, NEW c \in wire, NEW C \in SUBSET Command, Receive(c, C),
           expects' \in Seq(Expect),
           NEW t \in Token \cup {None}, t \in Token => asked[t] # "none",
           NEW e \in Errno,
           CompleteToken(t, e) \/ UNCHANGED <<requests, answer>>,
           e = "SUCCESS" => (~stale' /\ t \in Token => asked[t] = "DATA_CALL_LIST"),
           ConnInv', Same, leftOver' = leftOver,
           sets' \in SUBSET [cid : Cid, seq : Nat],
           ~stale' => \/ UNCHANGED <<requests, answer>>
                      \/ \A p \in 1 .. Len(connections') :
                            connections'[p].token # None => connections'[p].token # t,
           ~stale' => \A x \in C : Asked(x),
           ~stale' => \A x \in sets' : x \in sets \/ Link(x)
    PROVE  Good
<1>1. /\ asked' = asked /\ seq' = seq /\ radio' = radio /\ outages' = outages
      /\ wire' = (wire \ {c}) \cup C /\ stale' = (stale \/ c.old)
  BY DEF Receive, ReceiveState
<1>2. c.old \in BOOLEAN
  BY TypesUsed DEF Command
<1>3. Rest
  BY <1>1, <1>2, TypesUsed DEF Rest
<1>4. stale => stale'
  BY <1>1
<1>5. ~stale' => \A x \in wire' : x \in wire \/ (x.cmd = List /\ x.seq = 0) \/ Asked(x)
  BY <1>1
<1>6. /\ TypeInv' /\ LinkInv'
      /\ \A u \in Token : answer'[u] = answer[u] \/ (u = t /\ answer'[u] = e)
  BY <1>1, <1>3, <1>4, <1>5, Settled DEF Same
<1>7. OwnSetup /\ Removed
  BY <1>6, NoSuccess
<1> QED
  BY <1>6, <1>7 DEF Good

\* A command that was sent before the step, and since the last outage
LEMMA Current ==
    ASSUME LinkInv, NEW c \in wire, NEW C, Receive(c, C), ~stale'
    PROVE  Linked /\ ~c.old /\ ((c.cmd = List /\ c.seq = 0) \/ Asked(c))
<1>1. ~stale /\ ~c.old
  BY DEF Receive, ReceiveState
<1> QED
  BY <1>1 DEF LinkInv, Linked

\* The callback finds no connection for its request,
LEMMA NoConnectionStep ==
    ASSUME TypeInv, LinkInv, NEW c \in wire, Mode(c) # "ignore", NoConnection(c)
    PROVE  Good
<1> DEFINE t == FindToken(c.seq)
<1>1. /\ Receive(c, {}) /\ Unexpect(c, <<>>) /\ CompleteToken(t, "GENERIC_FAILURE")
      /\ UNCHANGED <<connections, sets, leftOver>> /\ WithToken(t) = {}
  BY DEF NoConnection, dataVars
<1>2. expects' \in Seq(Expect)
  <2>1. <<>> \in Seq(Expect)
    OBVIOUS
  <2> QED
    BY <1>1, <2>1, UnexpectType, TypesUsed
<1>3. t \in Token \cup {None} /\ (t \in Token => asked[t] # "none")
  BY Found
<1>4. \A p \in 1 .. Len(connections') : connections'[p].token # t
  BY <1>1 DEF WithToken
<1>5. ConnInv' /\ Same /\ sets' \in SUBSET [cid : Cid, seq : Nat]
  BY <1>1, SameList, TypesUsed
<1>6. "GENERIC_FAILURE" \in Errno /\ {} \in SUBSET Command
  BY DEF Errno
<1> HIDE DEF t
<1> QED
  BY <1>1, <1>2, <1>3, <1>4, <1>5, <1>6, ReceivedStep

\* or stops the connection it finds,
LEMMA CallbackFailsStep ==
    ASSUME TypeInv, LinkInv, NEW c \in wire, Mode(c) # "ignore", CallbackFails(c)
    PROVE  Good
<1> DEFINE t == FindToken(c.seq)
           p == Least(WithToken(t))
<1>1. /\ Receive(c, {}) /\ Unexpect(c, <<>>) /\ CompleteToken(t, "GENERIC_FAILURE")
      /\ UNCHANGED <<sets, leftOver>> /\ WithToken(t) # {}
      /\ connections' = Stopped(p)
  BY DEF CallbackFails
<1>2. expects' \in Seq(Expect)
  <2>1. <<>> \in Seq(Expect)
    OBVIOUS
  <2> QED
    BY <1>1, <2>1, UnexpectType, TypesUsed
<1>3. t \in Token \cup {None} /\ (t \in Token => asked[t] # "none")
  BY Found
<1>4. p \in 1 .. Len(connections) /\ connections[p].token = t
  <2>1. p \in WithToken(t)
    BY <1>1, Positions
  <2> QED
    BY <2>1 DEF WithToken
<1> HIDE DEF t, p
<1>5. /\ ConnInv' /\ Same
      /\ Linked => \A q \in 1 .. Len(connections') :
            connections'[q].token # None => connections'[q].token # connections[p].token
  BY <1>1, <1>4, SameStopped, TypesUsed
<1>6. ~stale' => \A q \in 1 .. Len(connections') :
                    connections'[q].token # None => connections'[q].token # t
  BY <1>1, <1>4, <1>5, Current
<1>7. sets' \in SUBSET [cid : Cid, seq : Nat] /\ "GENERIC_FAILURE" \in Errno
      /\ {} \in SUBSET Command
  BY <1>1, TypesUsed DEF Errno
<1> QED
  BY <1>1, <1>2, <1>3, <1>5, <1>6, <1>7, ReceivedStep

\* or sends the activation of that connection, with the number of the request,
LEMMA ActivationStep ==
    ASSUME TypeInv, LinkInv, NEW c \in wire, c.cmd # List, Mode(c) # "ignore",
           NEW s \in Command, NEW k \in 1 .. Len(connections),
           connections[k].token = FindToken(c.seq), s.cid = connections[k].cid,
           s.cmd # List, s.seq = c.seq,
           Receive(c, {s}), Unexpect(c, Expecting(s, "callback")),
           sets' = sets \cup {[cid |-> s.cid, seq |-> s.seq]},
           UNCHANGED <<requests, answer, connections, leftOver>>
    PROVE  Good
<1>1. expects' \in Seq(Expect)
  <2>1. Expecting(s, "callback") \in Seq(Expect)
    BY CallbackType
  <2> QED
    BY <2>1, UnexpectType, TypesUsed
<1>2. ConnInv' /\ Same
  BY SameList, TypesUsed
<1>3. s.cid \in Cid /\ s.seq \in Nat
  BY DEF Command
<1>4. sets' \in SUBSET [cid : Cid, seq : Nat]
  BY <1>3, TypesUsed
<1>5. ASSUME ~stale' PROVE Asked(s)
  <2>1. Asked(c)
    BY <1>5, Current
  <2> QED
    BY <2>1 DEF Asked
<1> DEFINE y == [cid |-> s.cid, seq |-> s.seq]
<1>6. ASSUME ~stale' PROVE Link(y)
  <2>1. Linked /\ Asked(c)
    BY <1>5, <1>6, Current
  <2>2. y.seq = c.seq /\ y.cid = connections[k].cid /\ c.seq \in 1 .. seq
    BY <2>1 DEF Asked
  <2>3. ASSUME NEW i \in 1 .. Len(requests), NEW p \in 1 .. Len(connections),
               requests[i].seq = c.seq, connections[p].token = requests[i].token
        PROVE  connections[p].cid = connections[k].cid
    <3>1. PICK j \in 1 .. Len(requests) :
             requests[j].seq = c.seq /\ FindToken(c.seq) = requests[j].token
      BY <2>3, FindTokenCases, TypesUsed
    <3>2. Handled(requests[i])
      BY <2>2, <2>3, TypesUsed DEF Handled
    <3>3. i = j
      BY <2>1, <2>3, <3>1, <3>2 DEF Linked
    <3>4. connections[p].token # None
      BY <2>3, QueueAssumption, TypesUsed DEF QueueInv, Queued
    <3>5. p = k
      BY <2>1, <2>3, <3>1, <3>3, <3>4 DEF Linked
    <3> QED
      BY <3>5
  <2> HIDE DEF y
  <2> QED
    BY <2>2, <2>3 DEF Link
<1>7. ~stale' => \A x \in sets' : x \in sets \/ Link(x)
  BY <1>6
<1>8. None \in Token \cup {None} /\ (None \in Token => asked[None] # "none")
      /\ "none" \in Errno
  BY QueueAssumption DEF Errno
<1>9. {s} \in SUBSET Command /\ (~stale' => \A x \in {s} : Asked(x))
  BY <1>5
<1>10. "none" # "SUCCESS"
  OBVIOUS
<1> QED
  BY <1>1, <1>2, <1>4, <1>7, <1>8, <1>9, <1>10, ReceivedStep

\* or changes nothing.
LEMMA QuietStep ==
    ASSUME TypeInv, LinkInv, NEW c \in wire, Receive(c, {}), expects' \in Seq(Expect),
           UNCHANGED <<requests, answer, connections, sets, leftOver>>
    PROVE  Good
<1>1. ConnInv' /\ Same /\ sets' \in SUBSET [cid : Cid, seq : Nat]
  BY SameList, TypesUsed
<1>2. None \in Token \cup {None} /\ (None \in Token => asked[None] # "none")
      /\ "none" \in Errno
  BY QueueAssumption DEF Errno
<1>3. {} \in SUBSET Command /\ "none" # "SUCCESS"
  OBVIOUS
<1> QED
  BY <1>1, <1>2, <1>3, ReceivedStep

\* ipc_gprs_define_pdp_context_callback
LEMMA DefinePdpContextCallbackStep ==
    ASSUME TypeInv, LinkInv, NEW c \in wire, DefinePdpContextCallback(c)
    PROVE  Good
<1>1. c.cmd # List /\ Mode(c) # "ignore" /\ c \in Command
  BY TypesUsed DEF DefinePdpContextCallback, List
<1>2. CASE NoConnection(c)
  BY <1>1, <1>2, NoConnectionStep
<1>3. CASE CallbackFails(c)
  BY <1>1, <1>3, CallbackFailsStep
<1> DEFINE P == WithToken(FindToken(c.seq))
           s == Com("PDP_CONTEXT", connections[Least(P)].cid, c.seq)
<1>4. CASE /\ P # {}
           /\ Receive(c, {s}) /\ Unexpect(c, Expecting(s, "callback"))
           /\ sets' = sets \cup {[cid |-> s.cid, seq |-> s.seq]}
           /\ UNCHANGED <<requests, answer, connections, leftOver>>
  <2> DEFINE k == Least(P)
  <2>1. k \in 1 .. Len(connections) /\ connections[k].token = FindToken(c.seq)
    <3>1. k \in P
      BY <1>4, Positions
    <3> QED
      BY <3>1 DEF WithToken
  <2>2. connections[k].cid \in Cid /\ c.seq \in Nat
    <3>1. connections[k] \in Connection
      BY <2>1, TypesUsed DEF ConnInv
    <3> QED
      BY <1>1, <3>1 DEF Connection, Command
  <2>3. /\ s \in Command /\ s.cid = connections[k].cid
        /\ s.cmd # List /\ s.seq = c.seq
    BY <2>2 DEF Com, Command, List
  <2> HIDE DEF P, s, k
  <2> QED
    BY <1>1, <1>4, <2>1, <2>3, ActivationStep
<1> QED
  BY <1>2, <1>3, <1>4 DEF DefinePdpContextCallback

\* ipc_gprs_pdp_context_callback
LEMMA PdpContextCallbackStep ==
    ASSUME TypeInv, LinkInv, NEW c \in wire, PdpContextCallback(c)
    PROVE  Good
<1>1. Mode(c) # "ignore"
  BY DEF PdpContextCallback
<1>2. CASE NoConnection(c)
  BY <1>1, <1>2, NoConnectionStep
<1>3. CASE CallbackFails(c)
  BY <1>1, <1>3, CallbackFailsStep
<1>4. CASE /\ Receive(c, {}) /\ Unexpect(c, <<>>)
           /\ UNCHANGED <<requests, answer, dataVars>>
  <2>1. <<>> \in Seq(Expect)
    OBVIOUS
  <2>2. expects' \in Seq(Expect)
    BY <1>1, <1>4, <2>1, UnexpectType, TypesUsed
  <2> QED
    BY <1>4, <2>2, QuietStep DEF dataVars
<1> QED
  BY <1>2, <1>3, <1>4 DEF PdpContextCallback

\* A generic response that is ignored
LEMMA IgnoredStep ==
    ASSUME TypeInv, LinkInv, NEW c \in wire, Ignored(c)
    PROVE  Good
<1>1. Receive(c, {}) /\ UNCHANGED <<requests, answer, expects, connections, sets, leftOver>>
  BY DEF Ignored, GenResponse, dataVars
<1> QED
  BY <1>1, QuietStep, TypesUsed

\* ipc_gprs_pdp_context answers only a question for the list.
LEMMA PdpContextStep ==
    ASSUME TypeInv, LinkInv, NEW c \in wire, PdpContext(c)
    PROVE  Good
<1> DEFINE t == IF c.seq = 0 THEN None ELSE FindToken(c.seq)
<1>1. /\ c.cmd = List /\ Receive(c, {}) /\ CompleteToken(t, "SUCCESS")
      /\ UNCHANGED <<expects, connections, sets, leftOver>>
  BY DEF PdpContext, dataVars, List
<1>2. t \in Token \cup {None} /\ (t \in Token => asked[t] # "none")
  BY Found, QueueAssumption
<1>3. ASSUME ~stale', t \in Token PROVE asked[t] = "DATA_CALL_LIST"
  <2>1. c.seq # 0
    BY <1>3, QueueAssumption
  <2>2. Asked(c)
    BY <1>1, <1>3, <2>1, Current
  <2>3. t = FindToken(c.seq) /\ t # None
    BY <1>3, <2>1, QueueAssumption
  <2>4. PICK j \in 1 .. Len(requests) :
           requests[j].seq = c.seq /\ FindToken(c.seq) = requests[j].token
    BY <2>3, FindTokenCases, TypesUsed
  <2>5. requests[j].kind = "DATA_CALL_LIST"
    BY <1>1, <2>2, <2>4 DEF Asked
  <2> QED
    BY <2>3, <2>4, <2>5, TypesUsed DEF QueueInv, Queued
<1>4. ASSUME ~stale', NEW p \in 1 .. Len(connections), connections[p].token # None
      PROVE  connections[p].token # t
  <2>0. CASE Left(p)
    <3>1. t = None \/ \E i \in 1 .. Len(requests) : t = requests[i].token
      BY <1>1, FindTokenCases, TypesUsed
    <3> HIDE DEF t
    <3> QED
      BY <1>4, <2>0, <3>1 DEF Left
  <2> SUFFICES ASSUME Waits(p) PROVE connections[p].token # t
    BY <1>1, <1>4, <2>0, Current DEF Linked
  <2>1. PICK i \in 1 .. Len(requests) :
           /\ requests[i].token = connections[p].token
           /\ requests[i].kind # "DATA_CALL_LIST"
    BY DEF Waits
  <2>2. requests[i].token \in Token /\ asked[requests[i].token] = requests[i].kind
    BY TypesUsed DEF QueueInv, Queued
  <2> HIDE DEF t
  <2> QED
    BY <1>3, <1>4, <2>1, <2>2
<1>5. ConnInv' /\ Same /\ sets' \in SUBSET [cid : Cid, seq : Nat]
  BY <1>1, SameList, TypesUsed
<1>6. "SUCCESS" \in Errno /\ {} \in SUBSET Command /\ expects' \in Seq(Expect)
  BY <1>1, TypesUsed DEF Errno
<1> HIDE DEF t
<1> QED
  BY <1>1, <1>2, <1>3, <1>4, <1>5, <1>6, ReceivedStep

\* A notification leaves what it does not name.
LEMMA NotifiedStep ==
    ASSUME TypeInv, LinkInv, Notified,
           NEW t \in Token \cup {None}, t \in Token => asked[t] # "none",
           NEW e \in Errno,
           CompleteToken(t, e) \/ UNCHANGED <<requests, answer>>,
           ConnInv', Same, leftOver' = leftOver, sets' = sets,
           wire' \subseteq wire \cup {Com(List, 1, 0)},
           ~stale => \/ UNCHANGED <<requests, answer>>
                     \/ \A p \in 1 .. Len(connections') :
                           connections'[p].token # None => connections'[p].token # t
    PROVE  /\ TypeInv' /\ LinkInv'
           /\ \A u \in Token : answer'[u] = answer[u] \/ (u = t /\ answer'[u] = e)
<1>1. UNCHANGED <<radio, seq, expects, asked, outages, stale>>
  BY DEF Notified
<1>2. Com(List, 1, 0) \in Command /\ Com(List, 1, 0).cmd = List /\ Com(List, 1, 0).seq = 0
  BY DataAssumption DEF Com, Command, Cid, List
<1>3. Rest
  BY <1>1, <1>2, TypesUsed DEF Rest
<1>4. ~stale' => \A x \in wire' : x \in wire \/ (x.cmd = List /\ x.seq = 0) \/ Asked(x)
  BY <1>2
<1>5. ~stale' => \A x \in sets' : x \in sets \/ Link(x)
  OBVIOUS
<1> QED
  BY <1>1, <1>3, <1>4, <1>5, Settled DEF Same

\* The number of a notification for a cid without connection is not that of a
\* request that a connection waits for.
LEMMA NobodyNotified ==
    ASSUME TypeInv, Linked, NEW c, NEW s \in Numbers(c), s # 0, WithCid(c) = {},
           NEW p \in 1 .. Len(connections), connections[p].token # None
    PROVE  connections[p].token # FindToken(s)
<1>1. PICK x \in sets : x.cid = c /\ x.seq = s
  BY DEF Numbers
<1>2. Link(x)
  BY DEF Linked
<1>3. ASSUME connections[p].token = FindToken(s) PROVE FALSE
  <2>1. PICK i \in 1 .. Len(requests) :
           requests[i].seq = s /\ FindToken(s) = requests[i].token
    BY <1>3, FindTokenCases, TypesUsed
  <2>2. connections[p].cid = c
    BY <1>1, <1>2, <1>3, <2>1 DEF Link
  <2> QED
    BY <2>2 DEF WithCid
<1> QED
  BY <1>3

\* A notification for a cid without connection
LEMMA UnknownStep ==
    ASSUME TypeInv, LinkInv, Notified, NEW c, NEW s \in Numbers(c), WithCid(c) = {},
           CompleteToken(IF s = 0 THEN None ELSE FindToken(s), "GENERIC_FAILURE"),
           UNCHANGED <<connections, wire, sets, leftOver>>
    PROVE  Good
<1> DEFINE t == IF s = 0 THEN None ELSE FindToken(s)
<1>1. t \in Token \cup {None} /\ (t \in Token => asked[t] # "none")
  BY Found, QueueAssumption
<1>2. ASSUME ~stale, NEW p \in 1 .. Len(connections), connections[p].token # None
      PROVE  connections[p].token # t
  BY <1>2, NobodyNotified DEF LinkInv
<1>3. CompleteToken(t, "GENERIC_FAILURE")
  OBVIOUS
<1>4. ConnInv' /\ Same /\ leftOver' = leftOver
  BY SameList, TypesUsed
<1>5. "GENERIC_FAILURE" \in Errno
  BY DEF Errno
<1> HIDE DEF t
<1>6. /\ TypeInv' /\ LinkInv'
      /\ \A u \in Token : answer'[u] = answer[u] \/ (u = t /\ answer'[u] = "GENERIC_FAILURE")
  BY <1>1, <1>2, <1>3, <1>4, <1>5, NotifiedStep
<1>7. OwnSetup /\ Removed
  BY <1>6, NoSuccess
<1> QED
  BY <1>6, <1>7 DEF Good

\* A notification that answers no request
LEMMA SilentStep ==
    ASSUME TypeInv, LinkInv, Notified, ConnInv', Same, leftOver' = leftOver,
           sets' = sets, wire' \subseteq wire \cup {Com(List, 1, 0)},
           UNCHANGED <<requests, answer>>
    PROVE  Good
<1>1. None \in Token \cup {None} /\ (None \in Token => asked[None] # "none")
      /\ "none" \in Errno
  BY QueueAssumption DEF Errno
<1>2. TypeInv' /\ LinkInv'
  BY <1>1, NotifiedStep
<1>3. OwnSetup /\ Removed
  BY NoSuccess
<1> QED
  BY <1>2, <1>3 DEF Good

\* A position of a cid that is in the list
LEMMA CidPosition ==
    ASSUME TypeInv, NEW c, WithCid(c) # {}
    PROVE  /\ Least(WithCid(c)) \in 1 .. Len(connections)
           /\ connections[Least(WithCid(c))] \in Connection
<1>1. Least(WithCid(c)) \in 1 .. Len(connections)
  BY Positions
<1>2. connections \in Seq(Connection)
  BY TypesUsed DEF ConnInv
<1> QED
  BY <1>1, <1>2

\* ipc_gprs_ip_configuration
LEMMA IpConfigurationStep ==
    ASSUME TypeInv, LinkInv, NEW c, NEW s \in Numbers(c), IpConfiguration(c, s)
    PROVE  Good
<1>1. Notified /\ UNCHANGED <<wire, sets, leftOver>>
  BY DEF IpConfiguration
<1>2. CASE WithCid(c) = {}
  BY <1>1, <1>2, UnknownStep DEF IpConfiguration
<1>3. CASE WithCid(c) # {}
  <2> DEFINE p == Least(WithCid(c))
             r == [connections[p] EXCEPT !.ip = TRUE]
  <2>1. /\ connections' = [connections EXCEPT ![p].ip = TRUE]
        /\ UNCHANGED <<requests, answer>>
    BY <1>3 DEF IpConfiguration
  <2>2. p \in 1 .. Len(connections) /\ connections[p] \in Connection
    BY <1>3, CidPosition
  <2>3. /\ r \in Connection /\ r.cid = connections[p].cid /\ r.token = connections[p].token
        /\ r.owner = connections[p].owner /\ connections' = [connections EXCEPT ![p] = r]
    BY <2>1, <2>2 DEF Connection
  <2> HIDE DEF p, r
  <2>4. ConnInv' /\ Same
    BY <2>2, <2>3, SameChanged, TypesUsed
  <2> QED
    BY <1>1, <2>1, <2>4, SilentStep, TypesUsed
<1> QED
  BY <1>2, <1>3

\* The request that the token of a connection names
LEMMA RequestedKind ==
    ASSUME TypeInv, NEW p, NEW k, Requested(p, k)
    PROVE  /\ connections[p].token \in Token /\ connections[p].token # None
           /\ asked[connections[p].token] = k
           /\ k \in Kind
<1>1. PICK i \in 1 .. Len(requests) :
         requests[i].token = connections[p].token /\ requests[i].kind = k
  BY DEF Requested
<1>2. requests[i] \in Request
  BY TypesUsed
<1> QED
  BY <1>1, <1>2, QueueAssumption, TypesUsed DEF QueueInv, Queued, Request

\* The error exit of ipc_gprs_call_status
LEMMA CallStatusErrorStep ==
    ASSUME TypeInv, LinkInv, Notified, sets' = sets, NEW p \in 1 .. Len(connections),
           CallStatusError(p)
    PROVE  Good
<1> DEFINE t == IF Orphan(p) THEN None ELSE connections[p].token
<1>1. /\ connections' = Stopped(p) /\ CompleteToken(t, "GENERIC_FAILURE")
      /\ UNCHANGED <<wire, leftOver>>
  BY DEF CallStatusError
<1>2. t \in Token \cup {None} /\ (t \in Token => asked[t] # "none")
  <2>1. CASE Orphan(p)
    BY <2>1, QueueAssumption
  <2>2. CASE ~Orphan(p)
    <3>1. PICK i \in 1 .. Len(requests) : requests[i].token = connections[p].token
      BY <2>2 DEF Orphan
    <3> QED
      BY <2>2, <3>1, TypesUsed DEF QueueInv, Queued
  <2> QED
    BY <2>1, <2>2
<1>3. /\ ConnInv' /\ Same
      /\ Linked => \A q \in 1 .. Len(connections') :
            connections'[q].token # None => connections'[q].token # connections[p].token
  BY <1>1, SameStopped, TypesUsed
<1>4. ~stale => \A q \in 1 .. Len(connections') :
                   connections'[q].token # None => connections'[q].token # t
  BY <1>3 DEF LinkInv
<1>5. "GENERIC_FAILURE" \in Errno /\ leftOver' = leftOver
      /\ wire' \subseteq wire \cup {Com(List, 1, 0)}
  BY <1>1, TypesUsed DEF Errno
<1> HIDE DEF t
<1>6. /\ TypeInv' /\ LinkInv'
      /\ \A u \in Token : answer'[u] = answer[u] \/ (u = t /\ answer'[u] = "GENERIC_FAILURE")
  BY <1>1, <1>2, <1>3, <1>4, <1>5, NotifiedStep
<1>7. OwnSetup /\ Removed
  BY <1>6, NoSuccess
<1> QED
  BY <1>6, <1>7 DEF Good

\* Asking for the list
LEMMA Asks ==
    ASSUME NEW p, AskList(Listing(p))
    PROVE  wire' \subseteq wire \cup {Com(List, 1, 0)}
BY DEF AskList, Listing, List

\* An enabled connection: the set-up it was started for succeeds.
LEMMA SetupDone ==
    ASSUME TypeInv, LinkInv, Notified, UNCHANGED <<sets, leftOver>>,
           NEW p \in 1 .. Len(connections), connections[p].ip,
           Requested(p, "SETUP_DATA_CALL"),
           connections' = [connections EXCEPT ![p].enabled = TRUE, ![p].token = None],
           CompleteToken(connections[p].token, "SUCCESS"),
           wire' \subseteq wire \cup {Com(List, 1, 0)}
    PROVE  Good
<1> DEFINE t == connections[p].token
           r == [connections[p] EXCEPT !.enabled = TRUE, !.token = None]
<1>1. t \in Token /\ t # None /\ asked[t] = "SETUP_DATA_CALL"
  BY RequestedKind
<1>2. connections[p] \in Connection
  BY TypesUsed DEF ConnInv
<1>3. /\ r \in Connection /\ r.cid = connections[p].cid /\ r.owner = connections[p].owner
      /\ r.token = None /\ r.ip /\ r.enabled
  BY <1>2 DEF Connection
<1>4. connections' = [connections EXCEPT ![p] = r]
  BY <1>2, TypesUsed DEF Connection, ConnInv
<1> HIDE DEF r
<1>5. /\ ConnInv' /\ Same
      /\ p \in 1 .. Len(connections') /\ connections'[p] = r
      /\ \A q \in 1 .. Len(connections') : q # p =>
            q \in 1 .. Len(connections) /\ connections'[q] = connections[q]
  BY <1>3, <1>4, SameChanged, TypesUsed
<1>6. ASSUME ~stale, NEW q \in 1 .. Len(connections'), connections'[q].token # None
      PROVE  connections'[q].token # t
  <2>1. q # p
    BY <1>3, <1>5, <1>6
  <2>2. q \in 1 .. Len(connections) /\ connections'[q] = connections[q]
    BY <1>5, <2>1
  <2>3. Linked
    BY <1>6 DEF LinkInv
  <2> QED
    BY <1>6, <2>1, <2>2, <2>3 DEF Linked
<1>7. t \in Token \cup {None} /\ (t \in Token => asked[t] # "none")
  BY <1>1
<1>8. CompleteToken(t, "SUCCESS") /\ "SUCCESS" \in Errno /\ leftOver' = leftOver
      /\ sets' = sets
  BY TypesUsed DEF Errno
<1>9. ASSUME ~stale PROVE connections[p].owner = t
  <2>1. Waits(p)
    BY <1>1, <1>9 DEF LinkInv, Linked, Left, Requested
  <2>2. PICK i \in 1 .. Len(requests) :
           /\ requests[i].token = t
           /\ requests[i].kind = "SETUP_DATA_CALL" => connections[p].owner = t
    BY <2>1 DEF Waits
  <2>3. requests[i].kind = "SETUP_DATA_CALL"
    BY <1>1, <2>2, TypesUsed DEF QueueInv, Queued
  <2> QED
    BY <2>2, <2>3
<1> HIDE DEF t
<1>10. /\ TypeInv' /\ LinkInv'
       /\ \A u \in Token : answer'[u] = answer[u] \/ (u = t /\ answer'[u] = "SUCCESS")
  BY <1>5, <1>6, <1>7, <1>8, NotifiedStep
<1>11. stale' = stale
  BY DEF Notified
<1>12. OwnSetup
  <2> SUFFICES ASSUME NEW u \in Token, ~stale', asked[u] = "SETUP_DATA_CALL",
                      answer[u] # answer'[u], answer'[u] = "SUCCESS"
               PROVE  \E q \in 1 .. Len(connections') :
                         /\ connections'[q].owner = u
                         /\ connections'[q].enabled /\ connections'[q].ip
    BY DEF OwnSetup
  <2>1. u = t
    BY <1>10
  <2>2. connections'[p].owner = u /\ connections'[p].enabled /\ connections'[p].ip
    BY <1>3, <1>5, <1>9, <1>11, <2>1
  <2> QED
    BY <1>5, <2>2
<1>13. Removed
  BY <1>1, <1>10 DEF Removed
<1> QED
  BY <1>10, <1>12, <1>13 DEF Good

\* The connection that is disabled is gone, and its deactivation succeeds.
LEMMA DeactivationDone ==
    ASSUME TypeInv, LinkInv, Notified, sets' = sets, leftOver' = leftOver,
           NEW p \in 1 .. Len(connections), Requested(p, "DEACTIVATE_DATA_CALL"),
           connections' = Stopped(p), CompleteToken(connections[p].token, "SUCCESS"),
           wire' \subseteq wire \cup {Com(List, 1, 0)}
    PROVE  Good
<1> DEFINE t == connections[p].token
<1>1. t \in Token /\ t # None /\ asked[t] = "DEACTIVATE_DATA_CALL"
  BY RequestedKind
<1>2. /\ ConnInv' /\ Same /\ Len(connections') < Len(connections)
      /\ Linked => \A q \in 1 .. Len(connections') :
            connections'[q].token # None => connections'[q].token # t
  BY SameStopped, TypesUsed
<1>3. ~stale => \A q \in 1 .. Len(connections') :
                   connections'[q].token # None => connections'[q].token # t
  BY <1>2 DEF LinkInv
<1>4. t \in Token \cup {None} /\ (t \in Token => asked[t] # "none")
  BY <1>1
<1>5. CompleteToken(t, "SUCCESS") /\ "SUCCESS" \in Errno
  BY DEF Errno
<1> HIDE DEF t
<1>6. /\ TypeInv' /\ LinkInv'
      /\ \A u \in Token : answer'[u] = answer[u] \/ (u = t /\ answer'[u] = "SUCCESS")
  BY <1>2, <1>3, <1>4, <1>5, NotifiedStep
<1>7. stale' = stale
  BY DEF Notified
<1>8. OwnSetup
  BY <1>1, <1>6 DEF OwnSetup
<1>9. Removed
  <2> SUFFICES ASSUME NEW u \in Token, ~stale', asked[u] = "DEACTIVATE_DATA_CALL",
                      answer[u] # answer'[u], answer'[u] = "SUCCESS"
               PROVE  /\ Len(connections') < Len(connections)
                      /\ \A q \in 1 .. Len(connections') : connections'[q].token # u
    BY DEF Removed
  <2>1. u = t
    BY <1>6
  <2> QED
    BY <1>1, <1>2, <1>3, <1>7, <2>1
<1> QED
  BY <1>6, <1>8, <1>9 DEF Good

\* ipc_gprs_call_status, ENABLED
LEMMA CallStatusEnabledStep ==
    ASSUME TypeInv, LinkInv, Notified, sets' = sets, NEW p \in 1 .. Len(connections),
           CallStatusEnabled(p)
    PROVE  Good
<1>1. CASE CallStatusError(p)
  BY <1>1, CallStatusErrorStep
<1>2. CASE AskList(Listing(p)) /\ UNCHANGED <<requests, answer, connections, leftOver>>
  <2>1. ConnInv' /\ Same /\ leftOver' = leftOver
    BY <1>2, SameList, TypesUsed
  <2> QED
    BY <1>2, <2>1, Asks, SilentStep
<1> DEFINE r == connections[p]
<1>3. CASE /\ ~r.enabled /\ r.ip
           /\ connections' = [connections EXCEPT ![p].enabled = TRUE,
                 ![p].token = IF Requested(p, "SETUP_DATA_CALL") THEN None ELSE @]
           /\ IF Requested(p, "SETUP_DATA_CALL")
              THEN CompleteToken(r.token, "SUCCESS")
              ELSE UNCHANGED <<requests, answer>>
           /\ AskList(Listing(p))
           /\ UNCHANGED leftOver
  <2>1. CASE Requested(p, "SETUP_DATA_CALL")
    <3>1. connections' = [connections EXCEPT ![p].enabled = TRUE, ![p].token = None]
      BY <1>3, <2>1
    <3> QED
      BY <1>3, <2>1, <3>1, Asks, SetupDone
  <2>2. CASE ~Requested(p, "SETUP_DATA_CALL")
    <3> DEFINE x == [connections[p] EXCEPT !.enabled = TRUE]
    <3>1. connections[p] \in Connection
      BY TypesUsed DEF ConnInv
    <3>2. /\ x \in Connection /\ x.cid = connections[p].cid
          /\ x.owner = connections[p].owner /\ x.token = connections[p].token
      BY <3>1 DEF Connection
    <3>3. connections' = [connections EXCEPT ![p] = x]
      <4>1. connections' = [connections EXCEPT ![p].enabled = TRUE, ![p].token = @]
        BY <1>3, <2>2
      <4>2. [x EXCEPT !.token = @] = x
        BY <3>1 DEF Connection
      <4> QED
        BY <3>1, <4>1, <4>2, TypesUsed DEF ConnInv, Connection
    <3> HIDE DEF x
    <3>4. ConnInv' /\ Same
      BY <3>2, <3>3, SameChanged, TypesUsed
    <3>5. UNCHANGED <<requests, answer, leftOver>>
      BY <1>3, <2>2
    <3> QED
      BY <1>3, <3>4, <3>5, Asks, SilentStep, TypesUsed
  <2> QED
    BY <2>1, <2>2
<1> QED
  BY <1>1, <1>2, <1>3 DEF CallStatusEnabled

\* ipc_gprs_call_status, DISABLED or NOT_ENABLED
LEMMA CallStatusDisabledStep ==
    ASSUME TypeInv, LinkInv, Notified, sets' = sets, NEW p \in 1 .. Len(connections),
           CallStatusDisabled(p)
    PROVE  Good
<1> DEFINE r == connections[p]
<1>1. CASE r.enabled /\ CallStatusError(p)
  BY <1>1, CallStatusErrorStep
<1>2. CASE /\ r.enabled /\ connections' = Stopped(p)
           /\ IF Requested(p, "DEACTIVATE_DATA_CALL")
              THEN CompleteToken(r.token, "SUCCESS")
              ELSE UNCHANGED <<requests, answer>>
           /\ \/ AskList(Listing(p)) /\ UNCHANGED leftOver
              \/ Orphan(p) /\ UNCHANGED <<wire, leftOver>>
  <2>1. leftOver' = leftOver /\ wire' \subseteq wire \cup {Com(List, 1, 0)}
    BY <1>2, Asks, TypesUsed
  <2>2. CASE Requested(p, "DEACTIVATE_DATA_CALL")
    BY <1>2, <2>1, <2>2, DeactivationDone
  <2>3. CASE ~Requested(p, "DEACTIVATE_DATA_CALL")
    <3>1. ConnInv' /\ Same
      BY <1>2, SameStopped, TypesUsed
    <3> QED
      BY <1>2, <2>1, <2>3, <3>1, SilentStep
  <2> QED
    BY <2>2, <2>3
<1>3. CASE /\ ~r.enabled /\ Requested(p, "SETUP_DATA_CALL")
           /\ connections' = Stopped(p)
           /\ CompleteToken(r.token, "SETUP_FAILED")
           /\ UNCHANGED <<wire, leftOver>>
  <2> DEFINE t == connections[p].token
  <2>1. t \in Token \cup {None} /\ (t \in Token => asked[t] # "none")
    BY <1>3, RequestedKind DEF Kind
  <2>2. /\ ConnInv' /\ Same
        /\ Linked => \A q \in 1 .. Len(connections') :
              connections'[q].token # None => connections'[q].token # t
    BY <1>3, SameStopped, TypesUsed
  <2>3. ~stale => \A q \in 1 .. Len(connections') :
                     connections'[q].token # None => connections'[q].token # t
    BY <2>2 DEF LinkInv
  <2>4. /\ CompleteToken(t, "SETUP_FAILED") /\ "SETUP_FAILED" \in Errno
        /\ leftOver' = leftOver /\ wire' \subseteq wire \cup {Com(List, 1, 0)}
    BY <1>3, TypesUsed DEF Errno
  <2> HIDE DEF t
  <2>5. /\ TypeInv' /\ LinkInv'
        /\ \A u \in Token : answer'[u] = answer[u] \/ (u = t /\ answer'[u] = "SETUP_FAILED")
    BY <2>1, <2>2, <2>3, <2>4, NotifiedStep
  <2>6. OwnSetup /\ Removed
    BY <2>5, NoSuccess
  <2> QED
    BY <2>5, <2>6 DEF Good
<1>4. CASE /\ \/ AskList(Listing(p)) /\ UNCHANGED connections
              \/ Orphan(p) /\ connections' = Stopped(p) /\ UNCHANGED wire
           /\ UNCHANGED <<requests, answer, leftOver>>
  <2>1. ConnInv' /\ Same
    BY <1>4, SameList, SameStopped, TypesUsed
  <2>2. leftOver' = leftOver /\ wire' \subseteq wire \cup {Com(List, 1, 0)}
    BY <1>4, Asks, TypesUsed
  <2> QED
    BY <1>4, <2>1, <2>2, SilentStep
<1> QED
  BY <1>1, <1>2, <1>3, <1>4 DEF CallStatusDisabled

\* ipc_gprs_call_status
LEMMA CallStatusStep ==
    ASSUME TypeInv, LinkInv, NEW c, NEW s \in Numbers(c), CallStatus(c, s)
    PROVE  Good
<1>1. Notified /\ sets' = sets
  BY DEF CallStatus
<1>2. CASE WithCid(c) = {}
  BY <1>1, <1>2, UnknownStep DEF CallStatus
<1>3. CASE WithCid(c) # {}
  <2> DEFINE p == Least(WithCid(c))
  <2>1. p \in 1 .. Len(connections)
    BY <1>3, CidPosition
  <2>2. CallStatusEnabled(p) \/ CallStatusDisabled(p)
    BY <1>3 DEF CallStatus
  <2> HIDE DEF p
  <2> QED
    BY <1>1, <2>1, <2>2, CallStatusEnabledStep, CallStatusDisabledStep
<1> QED
  BY <1>2, <1>3

\* ril_data_connection_flush stops the first connection.
LEMMA FlushKeeps ==
    ASSUME TypeInv, Flush
    PROVE  /\ ConnInv' /\ Same /\ leftOver' \in BOOLEAN /\ (leftOver => leftOver')
           /\ \A q \in 1 .. Len(connections') :
                 leftOver' /\ \E k \in 1 .. Len(connections) : connections'[q] = connections[k]
           /\ \A p, q \in 1 .. Len(connections') :
                 Linked /\ connections'[p].token # None
                 /\ connections'[p].token = connections'[q].token => p = q
<1>1. leftOver' = (leftOver \/ Len(connections) > 1) /\ leftOver \in BOOLEAN /\ ConnInv
  BY TypesUsed DEF Flush
<1>2. CASE connections = <<>>
  <2>1. connections' = connections /\ Len(connections) = 0
    BY <1>2 DEF Flush
  <2> QED
    BY <1>1, <2>1, SameList
<1>3. CASE connections # <<>>
  <2>1. connections' = Stopped(1) /\ 1 \in 1 .. Len(connections)
    BY <1>1, <1>3 DEF Flush, ConnInv
  <2>2. /\ ConnInv' /\ Same /\ Len(connections') = Len(connections) - 1
        /\ \A q \in 1 .. Len(connections') :
              \E k \in 1 .. Len(connections) : k # 1 /\ connections'[q] = connections[k]
    BY <1>1, <2>1, StoppedKeeps, SameStopped
  <2>3. ASSUME NEW q \in 1 .. Len(connections') PROVE leftOver'
    <3>1. Len(connections) \in Nat
      BY <1>1 DEF ConnInv
    <3>2. Len(connections) > 1
      BY <2>2, <3>1
    <3> QED
      BY <1>1, <3>2
  <2>4. ASSUME NEW p \in 1 .. Len(connections'), NEW q \in 1 .. Len(connections'),
               Linked, connections'[p].token # None,
               connections'[p].token = connections'[q].token
        PROVE  p = q
    <3>1. PICK k \in 1 .. Len(connections) : connections'[p] = connections[k]
      BY <2>2
    <3>2. PICK m \in 1 .. Len(connections) : connections'[q] = connections[m]
      BY <2>2
    <3>3. k = m
      BY <2>4, <3>1, <3>2 DEF Linked
    <3> QED
      BY <2>2, <3>1, <3>2, <3>3 DEF ConnInv
  <2> QED
    BY <1>1, <2>2, <2>3, <2>4
<1> QED
  BY <1>2, <1>3

\* An outage answers all requests; a connection that its flush leaves waits for
\* one of them.
LEMMA OutageStep ==
    ASSUME TypeInv, LinkInv, Outage
    PROVE  Good
<1>1. /\ QueueInv' /\ requests' = <<>> /\ seq' = 0 /\ expects' = <<>>
      /\ wire' \subseteq Command /\ \A c \in wire' : c.old
      /\ \A t \in Token : answer'[t] = "RADIO_NOT_AVAILABLE" \/ answer'[t] = answer[t]
  BY OutageKeeps, CommandAgeable, QueueAssumption, TypesUsed DEF Outage
<1>2. /\ radio' = "out" /\ outages' = outages + 1 /\ UNCHANGED <<asked, stale>>
      /\ DOMAIN answer' = Token
  BY DEF Outage, QueueOutage
<1>3. answer' \in [Token -> Errno]
  <2>1. answer' = [t \in Token |->
           IF \E i \in 1 .. Len(requests) : requests[i].token = t
           THEN "RADIO_NOT_AVAILABLE" ELSE answer[t]]
    BY DEF Outage, QueueOutage
  <2> QED
    BY <2>1, TypesUsed DEF Errno
<1>4. Flush /\ sets' = {}
  BY DEF Outage
<1>5. /\ ConnInv' /\ leftOver' \in BOOLEAN
      /\ \A q \in 1 .. Len(connections') :
            leftOver' /\ \E k \in 1 .. Len(connections) : connections'[q] = connections[k]
      /\ \A p, q \in 1 .. Len(connections') :
            Linked /\ connections'[p].token # None
            /\ connections'[p].token = connections'[q].token => p = q
  BY <1>4, FlushKeeps, TypesUsed
<1>6. requests' \in Seq(Request) /\ expects' \in Seq(Expect)
  BY <1>1
<1>7. leftOver' \in BOOLEAN
  BY <1>5
<1>8. Rest
  BY <1>1, <1>2, <1>4, <1>6, <1>7, TypesUsed DEF Rest, RadioStates
<1>9. asked' \in [Token -> Kind \cup {"none"}]
  BY <1>2, TypesUsed
<1>10. TypeInv'
  BY <1>1, <1>3, <1>5, <1>6, <1>8, <1>9, Types
<1>11. ASSUME ~stale' PROVE Linked'
  <2>1. Len(requests') = 0 /\ Linked
    BY <1>1, <1>2, <1>11 DEF LinkInv
  <2>2. ASSUME NEW q \in 1 .. Len(connections'), connections'[q].token # None
        PROVE  Left(q)'
    <3>1. PICK k \in 1 .. Len(connections) : connections'[q] = connections[k]
      BY <1>5
    <3>2. Waits(k) \/ Left(k)
      BY <2>1, <2>2, <3>1 DEF Linked
    <3>3. connections[k].token \in Token /\ asked[connections[k].token] # "none"
      BY <3>2, TypesUsed DEF Waits, Left, QueueInv, Queued
    <3>4. answer'[connections[k].token] = "RADIO_NOT_AVAILABLE"
      <4>1. CASE Waits(k)
        BY <3>3, <4>1 DEF Waits, Outage, QueueOutage
      <4>2. CASE Left(k)
        BY <1>1, <3>3, <4>2 DEF Left
      <4> QED
        BY <3>2, <4>1, <4>2
    <3> QED
      BY <1>2, <1>5, <2>1, <3>1, <3>3, <3>4 DEF Left
  <2>3. \A p, q \in 1 .. Len(connections') :
           connections'[p].token # None /\ connections'[p].token = connections'[q].token
           => p = q
    BY <1>5, <2>1
  <2>4. /\ \A c \in wire' : c.old
        /\ \A i, j \in 1 .. Len(requests') : FALSE
        /\ sets' = {}
    BY <1>1, <1>4, <2>1
  <2> QED
    BY <2>2, <2>3, <2>4 DEF Linked
<1>12. OwnSetup /\ Removed
  <2>1. \A t \in Token : answer'[t] = answer[t] \/ answer'[t] # "SUCCESS"
    BY <1>1
  <2> QED
    BY <2>1, NoSuccess
<1> QED
  BY <1>10, <1>11, <1>12 DEF Good, LinkInv

\* A change of the radio state alone, or one that flushes the connections
LEMMA IdleStep ==
    ASSUME TypeInv, LinkInv, radio' \in RadioStates,
           Flush \/ UNCHANGED <<connections, leftOver>>,
           UNCHANGED <<requests, seq, expects, wire, asked, answer, outages, stale, sets>>
    PROVE  Good
<1>1. ConnInv' /\ Same /\ leftOver' \in BOOLEAN /\ (leftOver => leftOver')
  BY FlushKeeps, SameList, TypesUsed
<1>2. Rest
  BY <1>1, TypesUsed DEF Rest
<1>3. None \in Token \cup {None} /\ (None \in Token => asked[None] # "none")
      /\ "none" \in Errno
  BY QueueAssumption DEF Errno
<1>4. TypeInv' /\ LinkInv'
  BY <1>1, <1>2, <1>3, Settled DEF Same
<1>5. OwnSetup /\ Removed
  BY NoSuccess
<1> QED
  BY <1>4, <1>5 DEF Good

LEMMA RadioChangeStep ==
    ASSUME TypeInv, LinkInv, RadioChange
    PROVE  Good
<1>1. PICK s \in RadioStates :
         /\ RadioState(s)
         /\ IF s = "off" THEN Flush ELSE UNCHANGED <<connections, leftOver>>
         /\ UNCHANGED sets
  BY DEF RadioChange
<1>2. /\ radio' \in RadioStates
      /\ UNCHANGED <<requests, seq, expects, wire, asked, answer, outages, stale, sets>>
  BY <1>1 DEF RadioState
<1>3. Flush \/ UNCHANGED <<connections, leftOver>>
  BY <1>1
<1> QED
  BY <1>2, <1>3, IdleStep

\* Every step keeps the invariant and obeys the action properties.
LEMMA Step ==
    ASSUME TypeInv, LinkInv, [Next]_vars
    PROVE  Good
<1>1. ASSUME NEW t \in Token, NEW k \in Kind, NEW c \in Cid, NEW b \in BOOLEAN,
             OnRequest(t, k, c, b)
      PROVE  Good
  BY <1>1, RequestStep
<1>2. ASSUME NEW i \in 1 .. Len(requests),
             \/ SetupDataCall(i) \/ SetupDataCallAnswered(i)
             \/ DeactivateDataCall(i) \/ DeactivateDataCallFails(i)
             \/ DataCallList(i) \/ DataCallListAnswered(i)
      PROVE  Good
  BY <1>2, SetupDataCallStep, DeactivateDataCallStep, DataCallListStep, AnsweredStep
<1>3. ASSUME NEW c \in wire,
             \/ DefinePdpContextCallback(c) \/ PdpContextCallback(c)
             \/ PdpContext(c) \/ Ignored(c)
      PROVE  Good
  BY <1>3, DefinePdpContextCallbackStep, PdpContextCallbackStep, PdpContextStep,
     IgnoredStep
<1>4. ASSUME NEW c \in Cid, NEW s \in Numbers(c),
             IpConfiguration(c, s) \/ CallStatus(c, s)
      PROVE  Good
  BY <1>4, IpConfigurationStep, CallStatusStep
<1>5. CASE Outage
  BY <1>5, OutageStep
<1>6. CASE RadioChange
  BY <1>6, RadioChangeStep
<1>7. CASE UNCHANGED vars
  <2>1. /\ UNCHANGED <<requests, seq, expects, wire, asked, answer, outages, stale, sets>>
        /\ UNCHANGED <<radio, connections, leftOver>>
    BY <1>7 DEF vars, queueVars, dataVars
  <2> QED
    BY <2>1, IdleStep, TypesUsed
<1> QED
  BY <1>1, <1>2, <1>3, <1>4, <1>5, <1>6, <1>7 DEF Next

LEMMA InitInv == Init => TypeInv /\ LinkInv
<1> SUFFICES ASSUME Init PROVE TypeInv /\ LinkInv
  OBVIOUS
<1>1. QueueInv
  BY QueueInitInv DEF Init
<1>2. TypeOK
  <2>1. /\ requests \in Seq(Request) /\ connections \in Seq(Connection)
        /\ expects \in Seq([seq : Nat, mode : {"callback"},
                             cmd : {"DEFINE_PDP_CONTEXT", "PDP_CONTEXT"}])
    BY DEF Init, QueueInit
  <2>2. /\ asked \in [Token -> Kind \cup {"none"}]
        /\ answer \in [Token -> {"none", "SUCCESS", "GENERIC_FAILURE",
              "SETUP_FAILED", "OP_NOT_ALLOWED_BEFORE_REG_TO_NW",
              "RADIO_NOT_AVAILABLE"}]
    BY DEF Init, QueueInit
  <2>3. /\ radio \in RadioStates /\ seq \in Nat /\ wire \in SUBSET Command
        /\ outages \in Nat /\ stale \in BOOLEAN
    BY DEF Init, QueueInit, RadioStates
  <2>4. /\ Len(connections) = 0 /\ sets \in SUBSET [cid : Cid, seq : Nat]
        /\ leftOver \in BOOLEAN
    BY DEF Init
  <2> QED
    BY <2>1, <2>2, <2>3, <2>4 DEF TypeOK
<1>3. Linked
  BY DEF Init, QueueInit, Linked
<1> QED
  BY <1>1, <1>2, <1>3 DEF TypeInv, LinkInv

-----------------------------------------------------------------------------
(* The theorems.                                                           *)

LEMMA Invariance == Spec => [](TypeInv /\ LinkInv)
<1>1. TypeInv /\ LinkInv /\ [Next]_vars => (TypeInv /\ LinkInv)'
  BY Step DEF Good
<1> QED
  BY InitInv, <1>1, PTL DEF Spec

\* The types of the state hold, and a cid has at most one connection, whatever
\* the requests, the number of cids and the answers of the modem.
THEOREM TypesHold == Spec => []TypeOK
<1>1. TypeInv /\ LinkInv => TypeOK
  BY DEF TypeInv
<1> QED
  BY Invariance, <1>1, PTL

\* A connection's token is NULL or names a request that is still queued and was
\* dispatched (ipc_gprs_call_status completes what the token names), unless the
\* flush of an outage, which answered the request, left the connection.
THEOREM TokensQueued == Spec => []TokenQueued
<1>1. TypeInv /\ LinkInv => TokenQueued
  BY DEF LinkInv, Linked, Waits, Left, TokenQueued
<1> QED
  BY Invariance, <1>1, PTL

\* A set-up that succeeds does so for the connection that was started for it,
\* which is enabled and has an address (ipc_gprs_call_status).
THEOREM SetupsOwnConnection == Spec => SetupOwnConnection
<1>1. TypeInv /\ LinkInv /\ [Next]_vars => OwnSetup
  BY Step DEF Good
<1>2. TypeInv /\ LinkInv /\ [Next]_vars =>
         [\A t \in Token :
            (~stale' /\ asked[t] = "SETUP_DATA_CALL" /\ answer[t] # answer'[t]
               /\ answer'[t] = "SUCCESS") =>
               \E p \in 1 .. Len(connections') :
                  /\ connections'[p].owner = t
                  /\ connections'[p].enabled /\ connections'[p].ip]_vars
  BY <1>1 DEF OwnSetup
<1> QED
  BY Invariance, <1>2, PTL DEF Spec, SetupOwnConnection

\* With the answer to a deactivation the connection is out of the list
\* (ril_data_connection_stop before ril_request_complete).
THEOREM DeactivatedAreRemoved == Spec => DeactivatedRemoved
<1>1. TypeInv /\ LinkInv /\ [Next]_vars => Removed
  BY Step DEF Good
<1>2. TypeInv /\ LinkInv /\ [Next]_vars =>
         [\A t \in Token :
            (~stale' /\ asked[t] = "DEACTIVATE_DATA_CALL" /\ answer[t] # answer'[t]
               /\ answer'[t] = "SUCCESS") =>
               /\ Len(connections') < Len(connections)
               /\ \A p \in 1 .. Len(connections') : connections'[p].token # t]_vars
  BY <1>1 DEF Removed
<1> QED
  BY Invariance, <1>2, PTL DEF Spec, DeactivatedRemoved
=============================================================================
