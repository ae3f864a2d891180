-------------------------- MODULE SamsungRilProofs --------------------------
(***************************************************************************)
(* Proofs about the request queue and the FMT client of SamsungRil, for    *)
(* every set of tokens and request kinds, every table of handlers and      *)
(* every value of the bounds.                                              *)
(***************************************************************************)
EXTENDS SamsungRil, FiniteSetTheorems, WellFoundedInduction, TLAPS

-----------------------------------------------------------------------------
(* Lists.                                                                  *)

\* A list walk that finds something finds the least position.
LEMMA FirstOfIsLeast ==
    ASSUME NEW I \in SUBSET Nat, I # {}
    PROVE  /\ FirstOf(I) \in I
           /\ \A j \in I : FirstOf(I) <= j
<1> DEFINE R == {ss \in Nat \X Nat : ss[1] < ss[2]}
<1>1. IsWellFoundedOn(R, Nat)
  BY NatLessThanWellFounded, Zenon DEF OpToRel
<1>2. \A a, b \in Nat : a < b => <<a, b>> \in R
  BY Zenon
<1> HIDE DEF R
<1>3. PICK x \in I : \A y \in I : <<y, x>> \notin R
  BY <1>1, WFMin, Zenon
<1>4. \A y \in I : ~(y < x)
  BY <1>2, <1>3
<1>5. \A y \in I : x <= y
  BY <1>4
<1> QED
  BY <1>5 DEF FirstOf

\* Removing an element leaves a list of the same type, one shorter.
LEMMA DeleteSeq ==
    ASSUME NEW S, NEW q \in Seq(S), NEW i \in 1 .. Len(q)
    PROVE  Delete(q, i) \in Seq(S) /\ Len(Delete(q, i)) = Len(q) - 1
<1>1. Len(q) - 1 \in Nat
  OBVIOUS
<1>2. \A j \in 1 .. Len(q) - 1 : Shift(i, j) \in 1 .. Len(q)
  BY DEF Shift
<1>3. Delete(q, i) \in [1 .. Len(q) - 1 -> S]
  BY <1>2 DEF Delete
<1> QED
  BY <1>1, <1>3

\* The elements left are the others ...
LEMMA DeleteElement ==
    ASSUME NEW S, NEW q \in Seq(S), NEW i \in 1 .. Len(q),
           NEW j \in 1 .. Len(q) - 1
    PROVE  /\ Delete(q, i)[j] = q[Shift(i, j)]
           /\ Shift(i, j) \in 1 .. Len(q)
           /\ Shift(i, j) # i
BY DEF Delete, Shift

\* ... in their order ...
LEMMA ShiftMonotone ==
    ASSUME NEW i \in Nat, NEW j \in Nat, NEW k \in Nat, j < k
    PROVE  Shift(i, j) < Shift(i, k)
BY DEF Shift

\* ... and all of them are left.
LEMMA ShiftOnto ==
    ASSUME NEW n \in Nat, NEW i \in 1 .. n, NEW k \in 1 .. n, k # i
    PROVE  \E j \in 1 .. n - 1 : Shift(i, j) = k
<1>1. CASE k < i
  <2>1. k \in 1 .. n - 1 /\ Shift(i, k) = k
    BY <1>1 DEF Shift
  <2> QED
    BY <2>1
<1>2. CASE k > i
  <2>1. k - 1 \in 1 .. n - 1 /\ Shift(i, k - 1) = k
    BY <1>2 DEF Shift
  <2> QED
    BY <2>1
<1> QED
  BY <1>1, <1>2

\* Unregistering a token removes its first entry, if it has one.
LEMMA UnregisterCases ==
    ASSUME NEW S, NEW q \in Seq(S), NEW t
    PROVE  \/ Positions(q, t) = {} /\ Unregister(q, t) = q
           \/ /\ Positions(q, t) # {}
              /\ FirstOf(Positions(q, t)) \in 1 .. Len(q)
              /\ q[FirstOf(Positions(q, t))].token = t
              /\ Unregister(q, t) = Delete(q, FirstOf(Positions(q, t)))
<1>1. Positions(q, t) \in SUBSET Nat
  BY DEF Positions
<1>2. CASE Positions(q, t) = {}
  BY <1>2 DEF Unregister
<1>3. CASE Positions(q, t) # {}
  <2>1. FirstOf(Positions(q, t)) \in Positions(q, t)
    BY <1>1, <1>3, FirstOfIsLeast
  <2> QED
    BY <1>3, <2>1 DEF Unregister, Positions
<1> QED
  BY <1>2, <1>3

\* ... and leaves a list of the same type.
LEMMA UnregisterType ==
    ASSUME NEW S, NEW q \in Seq(S), NEW t
    PROVE  Unregister(q, t) \in Seq(S)
BY UnregisterCases, DeleteSeq

\* ... whose elements were in the list before.
LEMMA UnregisterElements ==
    ASSUME NEW S, NEW q \in Seq(S), NEW t
    PROVE  \A j \in 1 .. Len(Unregister(q, t)) :
              \E k \in 1 .. Len(q) : Unregister(q, t)[j] = q[k]
<1>1. CASE Unregister(q, t) = q
  BY <1>1
<1>2. ASSUME NEW i \in 1 .. Len(q), Unregister(q, t) = Delete(q, i)
      PROVE  \A j \in 1 .. Len(Unregister(q, t)) :
                \E k \in 1 .. Len(q) : Unregister(q, t)[j] = q[k]
  <2>1. Len(Delete(q, i)) = Len(q) - 1
    BY DeleteSeq
  <2>2. \A j \in 1 .. Len(q) - 1 : Delete(q, i)[j] = q[Shift(i, j)]
                                  /\ Shift(i, j) \in 1 .. Len(q)
    BY DeleteElement
  <2> QED
    BY <1>2, <2>1, <2>2
<1> QED
  BY <1>1, <1>2, UnregisterCases

\* The positions of a token in a list are finitely many.
LEMMA PositionsFinite ==
    ASSUME NEW S, NEW q \in Seq(S), NEW t
    PROVE  IsFiniteSet(Positions(q, t)) /\ Cardinality(Positions(q, t)) \in Nat
<1>1. IsFiniteSet(1 .. Len(q))
  BY FS_Interval
<1>2. Positions(q, t) \subseteq 1 .. Len(q)
  BY DEF Positions
<1>3. IsFiniteSet(Positions(q, t))
  BY <1>1, <1>2, FS_Subset
<1> QED
  BY <1>3, FS_CardinalityType

-----------------------------------------------------------------------------
(* Type correctness.  The failure count stays in its range because a       *)
(* client that is up has a retry left.                                     *)

RetryLeft == fmt \in {"open", "erring"} => failures < RetryCount

TypeInv == TypeOK /\ RetryLeft

\* ipc_fmt_request_token gives a token or NULL.
LEMMA FmtTokenType ==
    ASSUME TypeOK, NEW s
    PROVE  FmtToken(s) \in Token \cup {NoToken}
<1> DEFINE I == {i \in 1 .. Len(fmtRequests) : fmtRequests[i].seq = s}
<1>1. CASE I = {}
  BY <1>1 DEF FmtToken
<1>2. CASE I # {}
  <2>1. FirstOf(I) \in I
    <3>1. I \in SUBSET Nat
      OBVIOUS
    <3> HIDE DEF I
    <3> QED
      BY <1>2, <3>1, FirstOfIsLeast
  <2>2. fmtRequests[FirstOf(I)] \in FmtRequest
    BY <2>1 DEF TypeOK
  <2> QED
    BY <1>2, <2>2 DEF FmtToken, FmtRequest
<1> QED
  BY <1>1, <1>2

\* Completing a request, or the NULL token, keeps the lists well typed.
LEMMA CompleteType ==
    ASSUME TypeOK, NEW t \in Token \cup {NoToken}, Complete(t)
    PROVE  /\ requests' \in Seq(Request)
           /\ fmtRequests' \in Seq(FmtRequest)
           /\ owed' \in [Token -> Int]
BY ConstantsAssumption, UnregisterType DEF TypeOK, Complete

\* The next sequence number is one of 1 .. 0xfe.
LEMMA NextSeqType ==
    ASSUME TypeOK
    PROVE  NextSeq \in Seqs /\ NextSeq \in 1 .. NoSeq /\ NextSeq \in 0 .. SeqMax
BY ConstantsAssumption DEF TypeOK, NextSeq, Seqs, NoSeq

\* Numbering a request and expecting its generic response are well typed.
LEMMA RegisterExpectType ==
    ASSUME TypeOK, NEW k \in Kind, RegisterExpect(Handler[k])
    PROVE  /\ fmtSeq' \in 0 .. SeqMax
           /\ wrapped' \in BOOLEAN
           /\ expects' \in Seq(Expect)
<1> DEFINE h == Handler[k]
<1>1. h.cmd \in Command /\ h.expect \in {"none", "abort", "complete"}
  BY ConstantsAssumption DEF Profile
<1>2. CASE h.expect = "none"
  BY <1>2, NextSeqType DEF TypeOK, RegisterExpect
<1>3. CASE h.expect # "none"
  <2>1. [aseq |-> NextSeq, cmd |-> h.cmd, mode |-> h.expect] \in Expect
    BY <1>1, <1>3, NextSeqType DEF Expect
  <2> QED
    BY <1>3, <2>1, NextSeqType DEF TypeOK, RegisterExpect
<1> QED
  BY <1>2, <1>3

\* The request being dispatched is in the queue.
LEMMA CurrentType ==
    ASSUME TypeOK, Dispatching
    PROVE  /\ Current \in 1 .. Len(requests)
           /\ requests[Current] \in Request
           /\ requests[Current].status = "PENDING"
           /\ \A j \in InStatus("PENDING") : Current <= j
<1>1. InStatus("PENDING") \in SUBSET Nat
  BY DEF InStatus
<1>2. Current \in InStatus("PENDING") /\ \A j \in InStatus("PENDING") : Current <= j
  BY <1>1, FirstOfIsLeast DEF Dispatching, Current
<1> QED
  BY <1>2 DEF InStatus, TypeOK

\* What the modem still has to answer is well typed after an answer.
LEMMA AnsweredType ==
    ASSUME TypeOK, NEW m \in wire, NEW a
    PROVE  Answered(m, a) \in SUBSET Sent
<1>1. m \in Sent
  BY DEF TypeOK
<1>2. [m EXCEPT !.due = @ \ {a}] \in Sent
  BY <1>1 DEF Sent
<1> QED
  BY <1>2 DEF TypeOK, Answered


\* Type correctness is preserved by every step of the three threads.
LEMMA TypeInvStep ==
    ASSUME TypeInv, [Next]_vars
    PROVE  TypeInv'
<1> USE DEF TypeInv, RetryLeft
<1> USE DEF queueVars, seqVars, clientVars, loopVars, histVars
<1>1. ASSUME NEW t \in Token, NEW k \in Kind, OnRequest(t, k)
      PROVE  TypeInv'
  <2>1. [token |-> t, kind |-> k, status |-> "PENDING"] \in Request
    BY DEF Request, Status
  <2>2. [token |-> t, kind |-> k, seq |-> NoSeq] \in FmtRequest
    BY ConstantsAssumption DEF FmtRequest, NoSeq
  <2>3. requests' \in Seq(Request)
    BY <1>1, <2>1, UnregisterType DEF TypeOK, OnRequest
  <2>4. fmtRequests' \in Seq(FmtRequest)
    BY <1>1, <2>2, UnregisterType DEF TypeOK, OnRequest
  <2>5. owed' \in [Token -> Int] /\ issued' \in Nat
    BY <1>1 DEF TypeOK, OnRequest
  <2> QED
    BY <1>1, <2>3, <2>4, <2>5 DEF TypeOK, OnRequest
<1>2. ASSUME OnRequestSignal PROVE TypeInv'
  BY <1>2 DEF TypeOK, OnRequestSignal
<1>3. ASSUME NEW t \in Token, OnCancel(t) PROVE TypeInv'
  <2>1. requests' \in Seq(Request) /\ fmtRequests' \in Seq(FmtRequest)
    BY <1>3, UnregisterType DEF TypeOK, OnCancel
  <2>2. owed' \in [Token -> Int] /\ cancels' \in Nat /\ cancelled' \in SUBSET Token
    BY <1>3 DEF TypeOK, OnCancel
  <2> QED
    BY <1>3, <2>1, <2>2 DEF TypeOK, OnCancel
<1>4. ASSUME LoopWake PROVE TypeInv'
  BY <1>4 DEF TypeOK, LoopWake
<1>5. ASSUME LoopLock PROVE TypeInv'
  <2>1. requests' \in Seq(Request)
    <3>1. CASE radioState < OFF
      BY <1>5, <3>1 DEF LoopLock, TypeOK, RadioStates, UNAVAILABLE, SIM_READY, OFF
    <3>2. CASE ~(radioState < OFF)
      <4>1. \A r \in Request : [r EXCEPT !.status = "PENDING"] \in Request
        BY DEF Request, Status
      <4>2. /\ \A i \in 1 .. Len(requests) : requests[i] \in Request
            /\ Len(requests) \in Nat
        BY DEF TypeOK
      <4>3. requests' \in [1 .. Len(requests) -> Request]
        BY <1>5, <3>2, <4>1, <4>2 DEF LoopLock
      <4> QED
        BY <4>2, <4>3
    <3> QED
      BY <3>1, <3>2
  <2> QED
    BY <1>5, <2>1 DEF TypeOK, LoopLock
<1>6. ASSUME DispatchAnswer PROVE TypeInv'
  <2>1. requests[Current].token \in Token
    BY <1>6, CurrentType DEF DispatchAnswer, Request
  <2>2. Complete(requests[Current].token)
    BY <1>6 DEF DispatchAnswer
  <2>3. /\ requests' \in Seq(Request) /\ fmtRequests' \in Seq(FmtRequest)
        /\ owed' \in [Token -> Int]
    BY <2>1, <2>2, CompleteType
  <2> QED
    BY <1>6, <2>3 DEF TypeOK, DispatchAnswer
<1>7. ASSUME DispatchUnhandled PROVE TypeInv'
  <2>1. [requests[Current] EXCEPT !.status = "UNHANDLED"] \in Request
    BY <1>7, CurrentType DEF DispatchUnhandled, Request, Status
  <2>2. requests' \in Seq(Request)
    BY <1>7, <2>1, CurrentType DEF DispatchUnhandled, SetStatus, TypeOK
  <2> QED
    BY <1>7, <2>2 DEF TypeOK, DispatchUnhandled
<1>8. ASSUME DispatchSend PROVE TypeInv'
  <2> DEFINE r == requests[Current]
             p == FirstOf(Positions(fmtRequests, r.token))
             m == [seq |-> NextSeq, token |-> r.token, kind |-> r.kind,
                   due |-> IF Handler[r.kind].resp THEN {"gen", "resp"} ELSE {"gen"},
                   old |-> FALSE]
  <2>1. r \in Request
    BY <1>8, CurrentType DEF DispatchSend
  <2>2. requests' \in Seq(Request)
    <3>1. [r EXCEPT !.status = "HANDLED"] \in Request
      BY <2>1 DEF Request, Status
    <3> QED
      BY <1>8, <3>1, CurrentType DEF DispatchSend, SetStatus, TypeOK
  <2>3. fmtRequests' \in Seq(FmtRequest)
    <3>1. fmtRequests' = [fmtRequests EXCEPT ![p].seq = NextSeq]
      BY <1>8 DEF DispatchSend, AssignSeq
    <3>2. \A f \in FmtRequest : [f EXCEPT !.seq = NextSeq] \in FmtRequest
      BY NextSeqType DEF FmtRequest
    <3>3. CASE p \in 1 .. Len(fmtRequests)
      <4>1. fmtRequests[p] \in FmtRequest
        BY <3>3 DEF TypeOK
      <4>2. [fmtRequests[p] EXCEPT !.seq = NextSeq] \in FmtRequest
        BY <3>2, <4>1
      <4> QED
        BY <3>1, <3>3, <4>2 DEF TypeOK
    <3>4. CASE p \notin 1 .. Len(fmtRequests)
      <4>1. fmtRequests' = fmtRequests
        BY <3>1, <3>4 DEF TypeOK
      <4> QED
        BY <4>1 DEF TypeOK
    <3> QED
      BY <3>3, <3>4
  <2>4. /\ fmtSeq' \in 0 .. SeqMax /\ wrapped' \in BOOLEAN
        /\ expects' \in Seq(Expect)
    <3>1. r.kind \in Kind /\ RegisterExpect(Handler[r.kind])
      BY <1>8, <2>1 DEF DispatchSend, Request
    <3> QED
      BY <3>1, RegisterExpectType
  <2>5. wire' \in SUBSET Sent
    <3>1. m \in Sent
      BY <2>1, NextSeqType DEF Sent, Request
    <3>2. wire' = wire \cup {m}
      BY <1>8 DEF DispatchSend
    <3> QED
      BY <3>1, <3>2 DEF TypeOK
  <2> QED
    BY <1>8, <2>2, <2>3, <2>4, <2>5 DEF TypeOK, DispatchSend
<1>9. ASSUME DispatchSendFails PROVE TypeInv'
  <2> DEFINE r == requests[Current]
  <2>1. r \in Request /\ r.token \in Token /\ r.kind \in Kind
    BY <1>9, CurrentType DEF DispatchSendFails, Request
  <2>2. Complete(r.token) /\ RegisterExpect(Handler[r.kind])
    BY <1>9 DEF DispatchSendFails
  <2>3. /\ requests' \in Seq(Request) /\ fmtRequests' \in Seq(FmtRequest)
        /\ owed' \in [Token -> Int]
    BY <2>1, <2>2, CompleteType
  <2>4. /\ fmtSeq' \in 0 .. SeqMax /\ wrapped' \in BOOLEAN
        /\ expects' \in Seq(Expect)
    BY <2>1, <2>2, RegisterExpectType
  <2> QED
    BY <1>9, <2>3, <2>4 DEF TypeOK, DispatchSendFails
<1>10. ASSUME LoopDone PROVE TypeInv'
  BY <1>10 DEF TypeOK, LoopDone
<1>11. ASSUME PwrUp PROVE TypeInv'
  BY <1>11, ConstantsAssumption
     DEF TypeOK, PwrUp, Receiving, RadioStates, UNAVAILABLE, OFF, SIM_READY
<1>12. ASSUME NEW s \in RadioStates, SimStatus(s) PROVE TypeInv'
  BY <1>12, ConstantsAssumption DEF TypeOK, SimStatus, Receiving
<1>13. ASSUME NEW m \in wire, NEW s \in RadioStates, RecvResp(m, s)
       PROVE  TypeInv'
  <2>1. wire' \in SUBSET Sent
    BY <1>13, AnsweredType DEF RecvResp
  <2>2. /\ requests' \in Seq(Request) /\ fmtRequests' \in Seq(FmtRequest)
        /\ owed' \in [Token -> Int]
    <3>1. CASE UNCHANGED <<queueVars, radioState, loopSem>>
      BY <3>1 DEF TypeOK
    <3>2. CASE Complete(FmtToken(m.seq))
      BY <3>2, FmtTokenType, CompleteType
    <3> QED
      BY <1>13, <3>1, <3>2 DEF RecvResp
  <2>3. radioState' \in RadioStates /\ loopSem' \in BOOLEAN
    BY <1>13 DEF RecvResp, TypeOK
  <2> QED
    BY <1>13, <2>1, <2>2, <2>3, ConstantsAssumption
       DEF TypeOK, RecvResp, Receiving
<1>14. ASSUME NEW m \in wire, NEW ok \in BOOLEAN, RecvGen(m, ok)
       PROVE  TypeInv'
  <2> DEFINE I == {i \in 1 .. Len(expects) : expects[i].aseq = m.seq}
  <2>1. wire' \in SUBSET Sent
    BY <1>14, AnsweredType DEF RecvGen, TypeOK
  <2>2. /\ requests' \in Seq(Request) /\ fmtRequests' \in Seq(FmtRequest)
        /\ owed' \in [Token -> Int]
    <3>1. CASE UNCHANGED queueVars
      BY <3>1 DEF TypeOK
    <3>2. CASE Complete(FmtToken(m.seq))
      BY <3>2, FmtTokenType, CompleteType
    <3> QED
      BY <1>14, <3>1, <3>2 DEF RecvGen
  <2>3. expects' \in Seq(Expect)
    <3>1. CASE UNCHANGED expects
      BY <3>1 DEF TypeOK
    <3>2. CASE I # {} /\ expects' = Delete(expects, FirstOf(I))
      <4>1. FirstOf(I) \in I
        <5>1. I \in SUBSET Nat
          OBVIOUS
        <5> HIDE DEF I
        <5> QED
          BY <3>2, <5>1, FirstOfIsLeast
      <4>2. FirstOf(I) \in 1 .. Len(expects)
        BY <4>1
      <4> HIDE DEF I
      <4> QED
        BY <3>2, <4>2, DeleteSeq DEF TypeOK
    <3> QED
      BY <1>14, <3>1, <3>2 DEF RecvGen
  <2>4. loopSem' \in BOOLEAN
    BY <1>14 DEF RecvGen, TypeOK
  <2>5. /\ fmt' \in {"open", "erring"}
        /\ failures' \in 0 .. RetryCount /\ failures' < RetryCount
    BY <1>14, ConstantsAssumption DEF RecvGen, TypeOK, Receiving
  <2> QED
    BY <1>14, <2>1, <2>2, <2>3, <2>4, <2>5 DEF TypeOK, RecvGen
<1>15. ASSUME FmtError PROVE TypeInv'
  <2>1. radioState' \in RadioStates
    BY <1>15 DEF FmtError, Outage,
       FmtFlush, FmtRequestFlush, ExpectFlush, RadioStates, UNAVAILABLE, SIM_READY
  <2>2. failures' \in 0 .. RetryCount
    BY <1>15, ConstantsAssumption DEF FmtError, TypeOK
  <2>3. CASE radioState = UNAVAILABLE
    BY <1>15, <2>1, <2>2, <2>3 DEF TypeOK, FmtError, Outage,
       FmtFlush, FmtRequestFlush, ExpectFlush
  <2>4. CASE radioState # UNAVAILABLE
    <3>1. owed' \in [Token -> Int]
      <4>1. \A t \in Token : Cardinality(Positions(requests, t)) \in Nat
        BY PositionsFinite DEF TypeOK
      <4> QED
        BY <1>15, <2>4, <4>1 DEF TypeOK, FmtError, Outage,
           FmtFlush, FmtRequestFlush, ExpectFlush
    <3>2. wire' \in SUBSET Sent
      <4>1. \A m \in wire : [m EXCEPT !.old = TRUE] \in Sent
        BY DEF TypeOK, Sent
      <4> QED
        BY <1>15, <2>4, <4>1 DEF FmtError, Outage,
           FmtFlush, FmtRequestFlush, ExpectFlush
    <3>3. /\ requests' \in Seq(Request) /\ fmtRequests' \in Seq(FmtRequest)
          /\ expects' \in Seq(Expect)
      BY <1>15, <2>4 DEF FmtError, Outage, FmtFlush, FmtRequestFlush, ExpectFlush
    <3>4. /\ fmtSeq' \in 0 .. SeqMax /\ wrapped' \in BOOLEAN
          /\ loopSem' \in BOOLEAN
      <4>1. fmtSeq' = 0 /\ wrapped' = FALSE
        BY <1>15, <2>4 DEF FmtError, Outage, FmtFlush, FmtRequestFlush, ExpectFlush
      <4>2. loopSem' = (loopSem \/ requests # <<>>)
        BY <1>15, <2>4 DEF FmtError, Outage, FmtFlush, FmtRequestFlush, ExpectFlush
      <4>3. loopSem' \in BOOLEAN
        BY <4>2, Zenon
      <4>4. wrapped' \in BOOLEAN
        BY <4>1, Zenon
      <4>5. fmtSeq' \in 0 .. SeqMax
        BY <4>1, ConstantsAssumption
      <4> QED
        BY <4>3, <4>4, <4>5
    <3> QED
      BY <1>15, <2>1, <2>2, <3>1, <3>2, <3>3, <3>4 DEF TypeOK, FmtError
  <2> QED
    BY <2>3, <2>4
<1>16. ASSUME FmtReopen PROVE TypeInv'
  <2>1. radioState' \in RadioStates /\ wire' \in SUBSET Sent
    BY <1>16 DEF FmtReopen, TypeOK, RadioStates, UNAVAILABLE, OFF, SIM_READY
  <2> QED
    BY <1>16, <2>1 DEF TypeOK, FmtReopen, Retrying
<1>17. ASSUME FmtRetryFails PROVE TypeInv'
  <2>1. wire' \in SUBSET Sent
    BY <1>17 DEF FmtRetryFails, TypeOK
  <2>2. failures' \in 0 .. RetryCount
    BY <1>17, ConstantsAssumption DEF FmtRetryFails, Retrying, TypeOK
  <2> QED
    BY <1>17, <2>1, <2>2 DEF TypeOK, FmtRetryFails
<1>18. ASSUME FmtGiveUp PROVE TypeInv'
  <2>1. /\ fmtRequests' \in Seq(FmtRequest) /\ expects' \in Seq(Expect)
        /\ fmtSeq' \in 0 .. SeqMax
    BY <1>18, ConstantsAssumption DEF FmtGiveUp, FmtFlush, FmtRequestFlush, ExpectFlush
  <2> QED
    BY <1>18, <2>1 DEF TypeOK, FmtGiveUp, FmtFlush, FmtRequestFlush, ExpectFlush
<1>19. CASE UNCHANGED vars
  BY <1>19 DEF TypeOK, vars
<1> QED
  BY <1>1, <1>2, <1>3, <1>4, <1>5, <1>6, <1>7, <1>8, <1>9, <1>10, <1>11, <1>12,
     <1>13, <1>14, <1>15, <1>16, <1>17, <1>18, <1>19
     DEF Next, LibrilNext, LoopNext, ModemNext, RetryNext

\* The initial state of the library is well typed.
LEMMA TypeInvInit == Init => TypeInv
<1> SUFFICES ASSUME Init PROVE TypeInv
  OBVIOUS
<1>1. /\ requests \in Seq(Request) /\ fmtRequests \in Seq(FmtRequest)
      /\ expects \in Seq(Expect)
  BY DEF Init
<1>2. fmtSeq \in 0 .. SeqMax /\ failures \in 0 .. RetryCount
  BY ConstantsAssumption DEF Init
<1>3. radioState \in RadioStates
  BY DEF Init, RadioStates, UNAVAILABLE, SIM_READY
<1>4. RetryLeft
  BY ConstantsAssumption DEF Init, RetryLeft
<1>5. owed \in [Token -> Int]
  BY DEF Init
<1> QED
  BY <1>1, <1>2, <1>3, <1>4, <1>5 DEF Init, TypeInv, TypeOK

\* Every reachable state of the queue, the client and the loop has its type.
THEOREM TypeCorrect == Spec => []TypeOK
<1>1. TypeInv => TypeOK
  BY DEF TypeInv
<1> QED
  BY TypeInvInit, TypeInvStep, <1>1, PTL DEF Spec


-----------------------------------------------------------------------------
(* The two lists of requests and the answers libril waits for.             *)

DistinctTokens(q) ==
    \A i, j \in 1 .. Len(q) : q[i].token = q[j].token => i = j

SameTokens(q, f) ==
    /\ Len(f) = Len(q)
    /\ \A i \in 1 .. Len(q) : f[i].token = q[i].token /\ f[i].kind = q[i].kind

OneEach(q, o, c) ==
    \A t \in Token :
        /\ o[t] = IF Positions(q, t) = {} /\ t \notin c THEN 0 ELSE 1
        /\ t \in c => Positions(q, t) = {}

\* What unregistering a token does to a list without duplicates.
LEMMA UnregisterDistinct ==
    ASSUME NEW S, NEW q \in Seq(S), NEW t, DistinctTokens(q)
    PROVE  /\ DistinctTokens(Unregister(q, t))
           /\ Positions(Unregister(q, t), t) = {}
           /\ \A u : u # t =>
                (Positions(Unregister(q, t), u) = {} <=> Positions(q, u) = {})
<1>1. CASE Positions(q, t) = {} /\ Unregister(q, t) = q
  BY <1>1
<1>2. CASE Positions(q, t) # {}
  <2> DEFINE i == FirstOf(Positions(q, t))
             d == Delete(q, i)
  <2>1. i \in 1 .. Len(q) /\ q[i].token = t /\ Unregister(q, t) = d
    BY <1>2, UnregisterCases
  <2> HIDE DEF i
  <2>2. /\ d \in Seq(S)
        /\ Len(d) = Len(q) - 1
        /\ \A j \in 1 .. Len(q) - 1 :
              /\ Shift(i, j) \in 1 .. Len(q)
              /\ Shift(i, j) # i
              /\ d[j] = q[Shift(i, j)]
    BY <2>1, DeleteSeq, DeleteElement
  <2> HIDE DEF d
  <2>3. DistinctTokens(d)
    <3> SUFFICES ASSUME NEW j \in 1 .. Len(d), NEW k \in 1 .. Len(d),
                        d[j].token = d[k].token
                 PROVE  j = k
      BY DEF DistinctTokens
    <3>1. Shift(i, j) = Shift(i, k)
      <4>1. /\ Shift(i, j) \in 1 .. Len(q) /\ d[j] = q[Shift(i, j)]
            /\ Shift(i, k) \in 1 .. Len(q) /\ d[k] = q[Shift(i, k)]
        BY <2>2
      <4>2. q[Shift(i, j)].token = q[Shift(i, k)].token
        BY <4>1
      <4> QED
        BY <4>1, <4>2 DEF DistinctTokens
    <3>2. i \in Nat /\ j \in Nat /\ k \in Nat
      BY <2>1
    <3> QED
      BY <3>1, <3>2 DEF Shift
  <2>4. Positions(d, t) = {}
    <3> SUFFICES ASSUME NEW j \in 1 .. Len(d), d[j].token = t PROVE FALSE
      BY DEF Positions
    <3>1. /\ Shift(i, j) \in 1 .. Len(q) /\ Shift(i, j) # i
          /\ q[Shift(i, j)].token = q[i].token
      BY <2>1, <2>2
    <3> QED
      BY <2>1, <3>1 DEF DistinctTokens
  <2>5. ASSUME NEW u, u # t
        PROVE  Positions(d, u) = {} <=> Positions(q, u) = {}
    <3>1. ASSUME NEW k \in 1 .. Len(q), q[k].token = u
          PROVE  \E j \in 1 .. Len(d) : d[j].token = u
      <4>1. PICK j \in 1 .. Len(q) - 1 : Shift(i, j) = k
        <5>1. k # i
          BY <2>1, <2>5, <3>1
        <5>2. Len(q) \in Nat
          OBVIOUS
        <5> QED
          BY <2>1, <5>1, <5>2, ShiftOnto, Zenon
      <4> QED
        BY <2>2, <3>1, <4>1
    <3>2. ASSUME NEW j \in 1 .. Len(d), d[j].token = u
          PROVE  \E k \in 1 .. Len(q) : q[k].token = u
      BY <2>2, <3>2
    <3> QED
      BY <3>1, <3>2 DEF Positions
  <2> QED
    BY <2>1, <2>3, <2>4, <2>5
<1> QED
  BY <1>1, <1>2, UnregisterCases

\* Unregistering a token from both lists keeps them alike.
LEMMA UnregisterSame ==
    ASSUME NEW q \in Seq(Request), NEW f \in Seq(FmtRequest), NEW t,
           SameTokens(q, f)
    PROVE  SameTokens(Unregister(q, t), Unregister(f, t))
<1>1. Positions(q, t) = Positions(f, t)
  BY DEF SameTokens, Positions
<1>2. CASE Positions(q, t) = {}
  BY <1>1, <1>2 DEF Unregister
<1>3. CASE Positions(q, t) # {}
  <2> DEFINE i == FirstOf(Positions(q, t))
  <2>1. /\ i \in 1 .. Len(q) /\ i \in 1 .. Len(f)
        /\ Unregister(q, t) = Delete(q, i) /\ Unregister(f, t) = Delete(f, i)
    BY <1>1, <1>3, UnregisterCases
  <2> HIDE DEF i
  <2>2. SameTokens(Delete(q, i), Delete(f, i))
    <3>1. /\ Len(Delete(q, i)) = Len(q) - 1
          /\ \A j \in 1 .. Len(q) - 1 :
                /\ Shift(i, j) \in 1 .. Len(q)
                /\ Delete(q, i)[j] = q[Shift(i, j)]
      BY <2>1, DeleteSeq, DeleteElement
    <3>2. /\ Len(Delete(f, i)) = Len(f) - 1
          /\ \A j \in 1 .. Len(f) - 1 : Delete(f, i)[j] = f[Shift(i, j)]
      BY <2>1, DeleteSeq, DeleteElement
    <3> QED
      BY <3>1, <3>2 DEF SameTokens
  <2> QED
    BY <2>1, <2>2
<1> QED
  BY <1>2, <1>3

\* A registered token that is completed leaves both lists and is answered.
LEMMA CompleteLists ==
    ASSUME TypeOK, NEW t \in Token \cup {NoToken}, Complete(t),
           t # NoToken => Positions(requests, t) # {},
           DistinctTokens(requests), OneEach(requests, owed, cancelled),
           SameTokens(requests, fmtRequests), cancelled' = cancelled
    PROVE  /\ DistinctTokens(requests') /\ OneEach(requests', owed', cancelled')
           /\ SameTokens(requests', fmtRequests')
<1>1. requests' = Unregister(requests, t) /\ fmtRequests' = Unregister(fmtRequests, t)
  BY DEF Complete
<1>2. requests \in Seq(Request) /\ fmtRequests \in Seq(FmtRequest)
  BY DEF TypeOK
<1>3. DistinctTokens(requests')
  BY <1>1, <1>2, UnregisterDistinct
<1>4. SameTokens(requests', fmtRequests')
  BY <1>1, <1>2, UnregisterSame
<1>5. OneEach(requests', owed', cancelled')
  <2>1. CASE t = NoToken
    <3>1. Positions(requests, t) = {}
      <4>1. \A i \in 1 .. Len(requests) : requests[i].token \in Token
        <5>1. \A r \in Request : r.token \in Token
          BY DEF Request
        <5>2. \A i \in 1 .. Len(requests) : requests[i] \in Request
          BY <1>2
        <5> QED
          BY <5>1, <5>2
      <4> QED
        BY <2>1, <4>1, ConstantsAssumption DEF Positions
    <3>2. requests' = requests /\ owed' = owed
      BY <1>1, <2>1, <3>1 DEF Unregister, Complete
    <3> QED
      BY <3>2
  <2>2. CASE t # NoToken
    <3>1. owed' = [owed EXCEPT ![t] = @ - 1] /\ owed \in [Token -> Int] /\ t \in Token
      BY <2>2 DEF Complete, TypeOK
    <3>2. owed[t] = 1 /\ t \notin cancelled
      BY <2>2, <3>1 DEF OneEach
    <3>3. Positions(requests', t) = {}
      BY <1>1, <1>2, UnregisterDistinct
    <3>4. \A u \in Token : u # t =>
             (Positions(requests', u) = {} <=> Positions(requests, u) = {})
      BY <1>1, <1>2, UnregisterDistinct
    <3> SUFFICES ASSUME NEW u \in Token
                 PROVE  /\ owed'[u] = IF Positions(requests', u) = {} /\ u \notin cancelled'
                                    THEN 0 ELSE 1
                        /\ u \in cancelled' => Positions(requests', u) = {}
      BY DEF OneEach
    <3>5. CASE u = t
      BY <3>1, <3>2, <3>3, <3>5
    <3>6. CASE u # t
      <4>1. owed'[u] = owed[u]
        BY <3>1, <3>6
      <4> QED
        BY <3>4, <3>6, <4>1 DEF OneEach
    <3> QED
      BY <3>5, <3>6
  <2> QED
    BY <2>1, <2>2
<1> QED
  BY <1>3, <1>4, <1>5

\* ipc_fmt_request_token only gives tokens that are in the queue.
LEMMA FmtTokenRegistered ==
    ASSUME TypeOK, SameTokens(requests, fmtRequests), NEW s, FmtToken(s) # NoToken
    PROVE  Positions(requests, FmtToken(s)) # {}
<1> DEFINE I == {i \in 1 .. Len(fmtRequests) : fmtRequests[i].seq = s}
<1>1. I # {} /\ FmtToken(s) = fmtRequests[FirstOf(I)].token
  BY DEF FmtToken
<1>2. FirstOf(I) \in I
  <2>1. I \in SUBSET Nat
    OBVIOUS
  <2> HIDE DEF I
  <2> QED
    BY <1>1, <2>1, FirstOfIsLeast
<1>3. FirstOf(I) \in 1 .. Len(requests) /\ requests[FirstOf(I)].token = FmtToken(s)
  BY <1>1, <1>2 DEF SameTokens
<1> HIDE DEF I
<1> QED
  BY <1>3 DEF Positions


\* Unregistering adds nothing to either list.
LEMMA UnregisterBoth ==
    ASSUME TypeOK, NEW t, requests' = Unregister(requests, t),
           fmtRequests' = Unregister(fmtRequests, t)
    PROVE  /\ \A j \in 1 .. Len(requests') :
                 \E i \in 1 .. Len(requests) : requests'[j] = requests[i]
           /\ \A j \in 1 .. Len(fmtRequests') :
                 \E i \in 1 .. Len(fmtRequests) : fmtRequests'[j] = fmtRequests[i]
<1>1. \A j \in 1 .. Len(Unregister(requests, t)) :
         \E i \in 1 .. Len(requests) : Unregister(requests, t)[j] = requests[i]
  <2>1. requests \in Seq(Request)
    BY DEF TypeOK
  <2> QED
    BY <2>1, UnregisterElements
<1>2. \A j \in 1 .. Len(Unregister(fmtRequests, t)) :
         \E i \in 1 .. Len(fmtRequests) :
            Unregister(fmtRequests, t)[j] = fmtRequests[i]
  <2>1. fmtRequests \in Seq(FmtRequest)
    BY DEF TypeOK
  <2> QED
    BY <2>1, UnregisterElements
<1> QED
  BY <1>1, <1>2

\* Relabelling requests (a status, a number) changes none of this.
LEMMA Relabel ==
    ASSUME NEW q, NEW p, NEW f, NEW o, NEW c, SameTokens(q, p),
           DistinctTokens(q), OneEach(q, o, c)
    PROVE  /\ DistinctTokens(p) /\ OneEach(p, o, c)
           /\ SameTokens(q, f) => SameTokens(p, f)
<1>1. \A t \in Token : Positions(p, t) = Positions(q, t)
  BY DEF SameTokens, Positions
<1>2. OneEach(p, o, c)
  BY <1>1 DEF OneEach
<1>3. DistinctTokens(p)
  BY DEF DistinctTokens, SameTokens
<1> QED
  BY <1>2, <1>3 DEF SameTokens

\* Setting the status of a request is such a relabelling.
LEMMA SetStatusSame ==
    ASSUME TypeOK, NEW i \in 1 .. Len(requests), NEW s, SetStatus(i, s)
    PROVE  /\ SameTokens(requests, requests')
           /\ requests'[i].status = s
           /\ \A j \in 1 .. Len(requests) : j # i => requests'[j] = requests[j]
<1>1. requests \in Seq(Request)
  BY DEF TypeOK
<1>2. requests[i] \in Request
  BY <1>1
<1>3. requests' = [requests EXCEPT ![i] = [requests[i] EXCEPT !.status = s]]
  BY DEF SetStatus
<1>4. /\ [requests[i] EXCEPT !.status = s].token = requests[i].token
      /\ [requests[i] EXCEPT !.status = s].kind = requests[i].kind
      /\ [requests[i] EXCEPT !.status = s].status = s
  BY <1>2 DEF Request
<1> QED
  BY <1>1, <1>3, <1>4 DEF SameTokens

\* So is making every UNHANDLED request PENDING again.
LEMMA LoopLockSame ==
    ASSUME TypeOK, LoopLock
    PROVE  SameTokens(requests, requests')
<1>1. CASE requests' = requests
  BY <1>1 DEF SameTokens
<1>2. CASE requests' = [i \in 1 .. Len(requests) |->
                IF requests[i].status = "UNHANDLED"
                THEN [requests[i] EXCEPT !.status = "PENDING"]
                ELSE requests[i]]
  <2>1. \A r \in Request : /\ [r EXCEPT !.status = "PENDING"].token = r.token
                           /\ [r EXCEPT !.status = "PENDING"].kind = r.kind
    BY DEF Request
  <2>2. /\ \A i \in 1 .. Len(requests) : requests[i] \in Request
        /\ Len(requests) \in Nat
    BY DEF TypeOK
  <2>3. Len(requests') = Len(requests)
    BY <1>2, <2>2
  <2>4. \A i \in 1 .. Len(requests) : requests'[i].token = requests[i].token
                                   /\ requests'[i].kind = requests[i].kind
    BY <1>2, <2>1, <2>2
  <2> QED
    BY <2>3, <2>4 DEF SameTokens
<1> QED
  BY <1>1, <1>2 DEF LoopLock

\* The inductive invariant of the lists, the radio state and the client.
PassNeedsRadio == loopPc = "run" => radioState >= OFF

QueueInv ==
    /\ DistinctTokens(requests)
    /\ OneEach(requests, owed, cancelled)
    /\ Mirrored
    /\ OutageLeavesNothing
    /\ RadioNeedsClient
    /\ PassNeedsRadio

\* It implies the two properties that are not conjuncts of it.
LEMMA QueueInvAnsweredOnce ==
    ASSUME TypeOK, QueueInv
    PROVE  AnsweredOnce
<1> SUFFICES ASSUME NEW t \in Token
             PROVE  IF t \in cancelled THEN owed[t] \in {0, 1}
                    ELSE owed[t] = Cardinality(Positions(requests, t))
  BY DEF AnsweredOnce
<1>1. CASE Positions(requests, t) = {}
  <2>1. Cardinality({}) = 0
    BY FS_EmptySet
  <2> QED
    BY <1>1, <2>1 DEF QueueInv, OneEach
<1>2. CASE Positions(requests, t) # {}
  <2>1. PICK i \in Positions(requests, t) : TRUE
    BY <1>2
  <2>2. Positions(requests, t) = {i}
    BY <2>1 DEF Positions, QueueInv, DistinctTokens
  <2>3. Cardinality(Positions(requests, t)) = 1
    BY <2>2, FS_Singleton
  <2> QED
    BY <1>2, <2>3 DEF QueueInv, OneEach
<1> QED
  BY <1>1, <1>2


\* A step that completes a token FmtToken found, or none, while the client is
\* up keeps the lists in order.
LEMMA CompleteByNumber ==
    ASSUME TypeInv, QueueInv, fmt # "dead", NEW s, Complete(FmtToken(s)),
           cancelled' = cancelled
    PROVE  /\ DistinctTokens(requests') /\ OneEach(requests', owed', cancelled')
           /\ SameTokens(requests', fmtRequests')
<1>1. SameTokens(requests, fmtRequests)
  BY DEF QueueInv, Mirrored, SameTokens
<1>2. FmtToken(s) \in Token \cup {NoToken}
  BY FmtTokenType DEF TypeInv
<1>3. FmtToken(s) # NoToken => Positions(requests, FmtToken(s)) # {}
  BY <1>1, FmtTokenRegistered DEF TypeInv
<1> QED
  BY <1>1, <1>2, <1>3, CompleteLists DEF TypeInv, QueueInv

\* ... and so does a step that completes the request being dispatched.
LEMMA CompleteCurrent ==
    ASSUME TypeInv, QueueInv, Dispatching, Complete(requests[Current].token),
           cancelled' = cancelled
    PROVE  /\ DistinctTokens(requests') /\ OneEach(requests', owed', cancelled')
           /\ SameTokens(requests', fmtRequests')
<1>1. SameTokens(requests, fmtRequests)
  BY DEF TypeInv, TypeOK, QueueInv, Mirrored, SameTokens, PassNeedsRadio,
         RadioNeedsClient, Dispatching
<1>2. requests[Current].token \in Token /\ Current \in 1 .. Len(requests)
  BY CurrentType DEF TypeInv, Request
<1>3. Positions(requests, requests[Current].token) # {}
  BY <1>2 DEF Positions
<1> QED
  BY <1>1, <1>2, <1>3, CompleteLists DEF TypeInv, QueueInv

\* The queue invariant is preserved by every step.
LEMMA QueueInvStep ==
    ASSUME TypeInv, QueueInv, [Next]_vars
    PROVE  QueueInv'
<1> USE DEF queueVars, seqVars, clientVars, loopVars, histVars
<1>a. TypeOK
  BY DEF TypeInv
<1>b. requests \in Seq(Request) /\ fmtRequests \in Seq(FmtRequest)
  BY DEF TypeInv, TypeOK
<1>c. \A q, f : SameTokens(q, f) <=>
        /\ Len(f) = Len(q)
        /\ \A i \in 1 .. Len(q) : f[i].token = q[i].token /\ f[i].kind = q[i].kind
  BY DEF SameTokens
<1>d. Mirrored <=> (fmt # "dead" => SameTokens(requests, fmtRequests))
  BY DEF Mirrored, SameTokens
<1>e. Mirrored' <=> (fmt' # "dead" => SameTokens(requests', fmtRequests'))
  BY DEF Mirrored, SameTokens
<1>1. ASSUME NEW t \in Token, NEW k \in Kind, OnRequest(t, k)
      PROVE  QueueInv'
  <2> DEFINE u == Unregister(requests, t)
             r == [token |-> t, kind |-> k, status |-> "PENDING"]
             g == Unregister(fmtRequests, t)
             e == [token |-> t, kind |-> k, seq |-> NoSeq]
  <2>1. requests' = Append(u, r) /\ u \in Seq(Request)
    BY <1>1, <1>b, UnregisterType DEF OnRequest
  <2>2. Positions(requests, t) = {}
    BY <1>1 DEF OnRequest, QueueInv, OneEach
  <2>3. u = requests
    BY <2>2 DEF Unregister
  <2>4. DistinctTokens(requests')
    BY <1>b, <2>1, <2>2, <2>3 DEF QueueInv, DistinctTokens, Positions
  <2>5. OneEach(requests', owed', cancelled')
    <3>1. Positions(requests', t) # {}
      <4>1. Len(requests') \in Positions(requests', t)
        BY <1>b, <2>1, <2>3 DEF Positions
      <4> QED
        BY <4>1
    <3>2. \A v \in Token : v # t => Positions(requests', v) = Positions(requests, v)
      BY <1>b, <2>1, <2>3 DEF Positions
    <3>3. owed' = [owed EXCEPT ![t] = @ + 1] /\ owed \in [Token -> Int] /\ owed[t] = 0
      BY <1>1, <1>a DEF OnRequest, TypeOK
    <3>4. owed'[t] = 1 /\ \A v \in Token : v # t => owed'[v] = owed[v]
      BY <3>3
    <3>5. cancelled' = cancelled /\ t \notin cancelled
      BY <1>1, <3>3 DEF OnRequest, OneEach, QueueInv
    <3> QED
      BY <3>1, <3>2, <3>4, <3>5 DEF OneEach, QueueInv
  <2>6. Mirrored'
    <3>1. CASE fmt = "dead"
      BY <1>1, <3>1, <1>e DEF OnRequest
    <3>2. CASE fmt # "dead"
      <4>1. SameTokens(requests, fmtRequests)
        BY <1>d, <3>2 DEF QueueInv
      <4>2. Positions(fmtRequests, t) = {}
        BY <2>2, <4>1 DEF SameTokens, Positions
      <4>3. g = fmtRequests
        BY <4>2 DEF Unregister
      <4>4. fmtRequests' = Append(fmtRequests, e)
        BY <1>1, <3>2, <4>3 DEF OnRequest
      <4>5. SameTokens(requests', fmtRequests')
        BY <1>b, <2>1, <2>3, <4>1, <4>4 DEF SameTokens
      <4> QED
        BY <1>e, <4>5
    <3> QED
      BY <3>1, <3>2
  <2>7. OutageLeavesNothing'
    <3>1. fmtRequests' = fmtRequests \/ fmtRequests' = Append(g, e)
      BY <1>1 DEF OnRequest
    <3>2. g \in Seq(FmtRequest) /\ \A j \in 1 .. Len(g) :
              \E i \in 1 .. Len(fmtRequests) : g[j] = fmtRequests[i]
      BY <1>b, UnregisterType, UnregisterElements
    <3>3. radioState = UNAVAILABLE =>
             \A i \in 1 .. Len(fmtRequests') : fmtRequests'[i].seq = NoSeq
      <4> HIDE DEF g
      <4>1. CASE fmtRequests' = fmtRequests
        BY <4>1 DEF QueueInv, OutageLeavesNothing, NoSeq
      <4>2. CASE fmtRequests' = Append(g, e)
        <5>1. radioState = UNAVAILABLE => \A i \in 1 .. Len(g) : g[i].seq = NoSeq
          BY <3>2 DEF QueueInv, OutageLeavesNothing
        <5>2. e.seq = NoSeq
          OBVIOUS
        <5> HIDE DEF e
        <5> QED
          BY <3>2, <4>2, <5>1, <5>2
      <4> QED
        BY <3>1, <4>1, <4>2
    <3>4. radioState = UNAVAILABLE =>
             \A i \in 1 .. Len(requests') : requests'[i].status = "PENDING"
      BY <1>b, <2>1, <2>3 DEF QueueInv, OutageLeavesNothing
    <3> QED
      BY <1>1, <3>3, <3>4 DEF OnRequest, OutageLeavesNothing, QueueInv, NoSeq
  <2>8. RadioNeedsClient' /\ PassNeedsRadio'
    BY <1>1 DEF OnRequest, QueueInv, RadioNeedsClient, PassNeedsRadio
  <2> QED
    BY <2>4, <2>5, <2>6, <2>7, <2>8 DEF QueueInv
<1>2. ASSUME NEW t \in Token, OnCancel(t) PROVE QueueInv'
  <2>1. /\ requests' = Unregister(requests, t)
        /\ fmtRequests' = Unregister(fmtRequests, t)
        /\ Positions(requests, t) # {}
    BY <1>2 DEF OnCancel
  <2>2. DistinctTokens(requests')
    BY <1>b, <2>1, UnregisterDistinct DEF QueueInv
  <2>3. OneEach(requests', owed', cancelled')
    <3>1. owed' = owed /\ cancelled' = cancelled \cup {t}
      BY <1>2 DEF OnCancel
    <3>2. owed[t] = 1
      BY <2>1 DEF QueueInv, OneEach
    <3>3. /\ Positions(requests', t) = {}
          /\ \A v \in Token : v # t =>
                (Positions(requests', v) = {} <=> Positions(requests, v) = {})
      BY <1>b, <2>1, UnregisterDistinct DEF QueueInv
    <3> QED
      BY <3>1, <3>2, <3>3 DEF OneEach, QueueInv
  <2>4. Mirrored'
    <3>1. SameTokens(requests, fmtRequests) => SameTokens(requests', fmtRequests')
      BY <1>b, <2>1, UnregisterSame
    <3>2. fmt' = fmt
      BY <1>2 DEF OnCancel
    <3> QED
      BY <1>d, <1>e, <3>1, <3>2 DEF QueueInv
  <2>5. OutageLeavesNothing'
    <3>1. /\ \A j \in 1 .. Len(requests') :
                \E i \in 1 .. Len(requests) : requests'[j] = requests[i]
          /\ \A j \in 1 .. Len(fmtRequests') :
                \E i \in 1 .. Len(fmtRequests) : fmtRequests'[j] = fmtRequests[i]
      BY <1>a, <2>1, UnregisterBoth
    <3> QED
      BY <1>2, <3>1 DEF OnCancel, OutageLeavesNothing, QueueInv, NoSeq
  <2>6. RadioNeedsClient' /\ PassNeedsRadio'
    BY <1>2 DEF OnCancel, QueueInv, RadioNeedsClient, PassNeedsRadio
  <2> QED
    BY <2>2, <2>3, <2>4, <2>5, <2>6 DEF QueueInv
<1>3. ASSUME OnRequestSignal \/ LoopWake \/ LoopDone PROVE QueueInv'
  <2>1. /\ UNCHANGED <<requests, fmtRequests, owed, cancelled, expects, fmtSeq, fmt, radioState>>
        /\ loopPc' = "run" => loopPc = "run"
    BY <1>3 DEF OnRequestSignal, LoopWake, LoopDone
  <2> QED
    BY <2>1 DEF QueueInv, DistinctTokens, OneEach, Positions, Mirrored,
                OutageLeavesNothing, RadioNeedsClient, PassNeedsRadio
<1>4. ASSUME LoopLock PROVE QueueInv'
  <2>1. SameTokens(requests, requests')
    BY <1>4, <1>a, LoopLockSame
  <2>2. /\ owed' = owed /\ cancelled' = cancelled /\ fmtRequests' = fmtRequests
        /\ fmt' = fmt
    BY <1>4 DEF LoopLock
  <2>3. /\ DistinctTokens(requests') /\ OneEach(requests', owed', cancelled')
        /\ SameTokens(requests, fmtRequests) => SameTokens(requests', fmtRequests')
    BY <2>1, <2>2, Relabel DEF QueueInv
  <2>4. Mirrored'
    BY <1>d, <1>e, <2>2, <2>3 DEF QueueInv
  <2>5. OutageLeavesNothing'
    BY <1>4 DEF LoopLock, OutageLeavesNothing, QueueInv, NoSeq, UNAVAILABLE, OFF
  <2>6. RadioNeedsClient' /\ PassNeedsRadio'
    BY <1>4 DEF LoopLock, QueueInv, RadioNeedsClient, PassNeedsRadio
  <2> QED
    BY <2>3, <2>4, <2>5, <2>6 DEF QueueInv
<1>5. ASSUME DispatchAnswer \/ DispatchSendFails PROVE QueueInv'
  <2>1. Dispatching /\ Complete(requests[Current].token) /\ cancelled' = cancelled
    BY <1>5 DEF DispatchAnswer, DispatchSendFails
  <2>2. /\ DistinctTokens(requests') /\ OneEach(requests', owed', cancelled')
        /\ SameTokens(requests', fmtRequests')
    BY <2>1, CompleteCurrent
  <2>3. radioState' = radioState /\ fmt' = fmt /\ loopPc' = loopPc
    BY <1>5 DEF DispatchAnswer, DispatchSendFails
  <2>4. radioState >= OFF
    BY <2>1 DEF Dispatching, QueueInv, PassNeedsRadio
  <2> QED
    BY <1>e, <2>2, <2>3, <2>4
       DEF QueueInv, OutageLeavesNothing, RadioNeedsClient, PassNeedsRadio,
           UNAVAILABLE, OFF
<1>6. ASSUME DispatchUnhandled \/ DispatchSend PROVE QueueInv'
  <2>1. Dispatching
    BY <1>6 DEF DispatchUnhandled, DispatchSend
  <2>2. \E s : SetStatus(Current, s)
    BY <1>6 DEF DispatchUnhandled, DispatchSend
  <2>3. SameTokens(requests, requests')
    BY <1>a, <2>1, <2>2, CurrentType, SetStatusSame
  <2>4. /\ owed' = owed /\ cancelled' = cancelled
        /\ radioState' = radioState /\ fmt' = fmt /\ loopPc' = loopPc
    BY <1>6 DEF DispatchUnhandled, DispatchSend
  <2>5. SameTokens(fmtRequests, fmtRequests')
    <3>1. CASE fmtRequests' = fmtRequests
      BY <3>1 DEF SameTokens
    <3>2. ASSUME NEW i, fmtRequests' = [fmtRequests EXCEPT ![i].seq = NextSeq]
          PROVE  SameTokens(fmtRequests, fmtRequests')
      <4>1. \A f \in FmtRequest : /\ [f EXCEPT !.seq = NextSeq].token = f.token
                                  /\ [f EXCEPT !.seq = NextSeq].kind = f.kind
        BY DEF FmtRequest
      <4>2. \A j \in 1 .. Len(fmtRequests) : fmtRequests[j] \in FmtRequest
        BY <1>b
      <4> QED
        BY <1>b, <3>2, <4>1, <4>2 DEF SameTokens
    <3> QED
      BY <1>6, <3>1, <3>2 DEF DispatchUnhandled, DispatchSend, AssignSeq
  <2>6. /\ DistinctTokens(requests') /\ OneEach(requests', owed', cancelled')
        /\ SameTokens(requests, fmtRequests) => SameTokens(requests', fmtRequests)
    BY <2>3, <2>4, Relabel DEF QueueInv
  <2>7. Mirrored'
    BY <1>d, <1>e, <2>4, <2>5, <2>6 DEF QueueInv, SameTokens
  <2>8. radioState >= OFF
    BY <2>1 DEF Dispatching, QueueInv, PassNeedsRadio
  <2> QED
    BY <2>4, <2>6, <2>7, <2>8
       DEF QueueInv, OutageLeavesNothing, RadioNeedsClient, PassNeedsRadio,
           UNAVAILABLE, OFF
<1>7. ASSUME PwrUp \/ \E s \in RadioStates : SimStatus(s) PROVE QueueInv'
  <2>1. UNCHANGED <<requests, fmtRequests, owed, cancelled, expects, fmtSeq, fmt, loopPc>>
    BY <1>7 DEF PwrUp, SimStatus
  <2>2. fmt = "open" /\ loopPc # "run" /\ radioState' # UNAVAILABLE
    BY <1>7 DEF PwrUp, SimStatus, Receiving, LockFree, UNAVAILABLE, OFF, SIM_NOT_READY
  <2> QED
    BY <2>1, <2>2 DEF QueueInv, DistinctTokens, OneEach, Positions, Mirrored,
                OutageLeavesNothing, RadioNeedsClient, PassNeedsRadio
<1>8. ASSUME NEW m \in wire, NEW s \in RadioStates, RecvResp(m, s)
      PROVE  QueueInv'
  <2> DEFINE t == FmtToken(m.seq)
  <2>1. fmt = "open" /\ fmt' = fmt /\ loopPc # "run" /\ loopPc' = loopPc
    BY <1>8 DEF RecvResp, Receiving, LockFree
  <2>2. UNCHANGED <<expects, fmtSeq, cancelled>> /\ radioState' = s
    BY <1>8 DEF RecvResp
  <2>3. CASE UNCHANGED <<queueVars, radioState, loopSem>>
    BY <2>1, <2>2, <2>3 DEF QueueInv, DistinctTokens, OneEach, Positions, Mirrored,
                OutageLeavesNothing, RadioNeedsClient, PassNeedsRadio
  <2>4. CASE /\ Complete(t)
             /\ IF Handler[m.kind].sets = {} THEN s = radioState
                ELSE s \in Handler[m.kind].sets
    <3>1. /\ DistinctTokens(requests') /\ OneEach(requests', owed', cancelled')
          /\ SameTokens(requests', fmtRequests')
      BY <2>1, <2>2, <2>4, CompleteByNumber
    <3>2. s = UNAVAILABLE => radioState = UNAVAILABLE
      <4>1. m.kind \in Kind
        BY <1>a DEF TypeOK, Sent
      <4>2. Handler[m.kind].sets \in SUBSET (OFF .. SIM_READY)
        BY <4>1, ConstantsAssumption DEF Profile
      <4> QED
        BY <2>4, <4>2 DEF UNAVAILABLE, OFF
    <3>3. OutageLeavesNothing'
      <4>1. requests' = Unregister(requests, t) /\ fmtRequests' = Unregister(fmtRequests, t)
        BY <2>4 DEF Complete
      <4>2. /\ \A j \in 1 .. Len(requests') :
                  \E i \in 1 .. Len(requests) : requests'[j] = requests[i]
            /\ \A j \in 1 .. Len(fmtRequests') :
                  \E i \in 1 .. Len(fmtRequests) : fmtRequests'[j] = fmtRequests[i]
        <5> HIDE DEF t
        <5> QED
          BY <1>a, <4>1, UnregisterBoth
      <4> QED
        BY <2>2, <3>2, <4>2 DEF OutageLeavesNothing, QueueInv, NoSeq
    <3> QED
      BY <1>e, <2>1, <3>1, <3>3 DEF QueueInv, RadioNeedsClient, PassNeedsRadio
  <2> QED
    BY <1>8, <2>3, <2>4 DEF RecvResp
<1>9. ASSUME NEW m \in wire, NEW ok \in BOOLEAN, RecvGen(m, ok)
      PROVE  QueueInv'
  <2> DEFINE t == FmtToken(m.seq)
             I == {i \in 1 .. Len(expects) : expects[i].aseq = m.seq}
  <2>1. /\ fmt = "open" /\ fmt' \in {"open", "erring"}
        /\ loopPc # "run" /\ loopPc' = loopPc
        /\ radioState' = radioState /\ fmtSeq' = fmtSeq /\ cancelled' = cancelled
    BY <1>9 DEF RecvGen, Receiving, LockFree
  <2>2. /\ DistinctTokens(requests') /\ OneEach(requests', owed', cancelled')
        /\ SameTokens(requests', fmtRequests')
    <3>1. CASE UNCHANGED queueVars
      BY <1>d, <2>1, <3>1 DEF QueueInv, DistinctTokens, OneEach, Positions, SameTokens
    <3>2. CASE Complete(t)
      BY <2>1, <3>2, CompleteByNumber
    <3> QED
      BY <1>9, <3>1, <3>2 DEF RecvGen
  <2>3. OutageLeavesNothing'
    <3>1. CASE radioState = UNAVAILABLE
      <4>1. expects = <<>>
        BY <3>1 DEF QueueInv, OutageLeavesNothing
      <4>2. I = {}
        BY <4>1
      <4>3. UNCHANGED <<queueVars, expects>>
        BY <1>9, <4>2 DEF RecvGen
      <4> QED
        BY <2>1, <3>1, <4>3 DEF OutageLeavesNothing, QueueInv, NoSeq
    <3>2. CASE radioState # UNAVAILABLE
      BY <2>1, <3>2 DEF OutageLeavesNothing
    <3> QED
      BY <3>1, <3>2
  <2> QED
    BY <1>e, <2>1, <2>2, <2>3 DEF QueueInv, RadioNeedsClient, PassNeedsRadio
<1>10. ASSUME FmtError PROVE QueueInv'
  <2>1. radioState' = UNAVAILABLE /\ fmt' = "failed" /\ loopPc' # "run" /\ fmt # "dead"
    BY <1>10 DEF FmtError, Outage, FmtFlush, FmtRequestFlush, ExpectFlush, LockFree
  <2>2. CASE radioState = UNAVAILABLE
    <3>1. UNCHANGED <<requests, fmtRequests, owed, cancelled, expects, fmtSeq>>
      BY <1>10, <2>2 DEF FmtError, Outage, FmtFlush, FmtRequestFlush, ExpectFlush
    <3> QED
      BY <2>1, <2>2, <3>1 DEF QueueInv, DistinctTokens, OneEach, Positions, Mirrored,
                OutageLeavesNothing, RadioNeedsClient, PassNeedsRadio, UNAVAILABLE, OFF,
                NoSeq
  <2>3. CASE radioState # UNAVAILABLE
    <3>1. /\ requests' = <<>> /\ fmtRequests' = <<>> /\ expects' = <<>> /\ fmtSeq' = 0
          /\ owed' = [t \in Token |-> owed[t] - Cardinality(Positions(requests, t))]
          /\ cancelled' = cancelled
      BY <1>10, <2>3 DEF FmtError, Outage, FmtFlush, FmtRequestFlush, ExpectFlush
    <3>2. \A t \in Token : owed'[t] = IF t \in cancelled THEN 1 ELSE 0
      <4>1. \A t \in Token : t \notin cancelled =>
               owed[t] = Cardinality(Positions(requests, t)) /\ owed[t] \in Int
        BY <1>a, QueueInvAnsweredOnce DEF AnsweredOnce, TypeOK
      <4>2. Cardinality({}) = 0
        BY FS_EmptySet
      <4>3. \A t \in Token : t \in cancelled =>
               owed[t] = 1 /\ Positions(requests, t) = {}
        BY DEF QueueInv, OneEach
      <4> SUFFICES ASSUME NEW t \in Token
                   PROVE  owed'[t] = IF t \in cancelled THEN 1 ELSE 0
        OBVIOUS
      <4>4. owed'[t] = owed[t] - Cardinality(Positions(requests, t))
        BY <3>1
      <4>5. CASE t \in cancelled
        <5>1. owed[t] = 1 /\ Cardinality(Positions(requests, t)) = 0
          BY <4>2, <4>3, <4>5
        <5> QED
          BY <4>4, <4>5, <5>1
      <4>6. CASE t \notin cancelled
        <5>1. owed[t] = Cardinality(Positions(requests, t)) /\ owed[t] \in Int
          BY <4>1, <4>6
        <5> QED
          BY <4>4, <4>6, <5>1
      <4> QED
        BY <4>5, <4>6
    <3>3. OneEach(requests', owed', cancelled')
      BY <3>1, <3>2 DEF OneEach, Positions
    <3> QED
      BY <2>1, <3>1, <3>3 DEF QueueInv, DistinctTokens, Mirrored,
                OutageLeavesNothing, RadioNeedsClient, PassNeedsRadio, UNAVAILABLE, OFF
  <2> QED
    BY <2>2, <2>3
<1>11. ASSUME FmtReopen \/ FmtRetryFails PROVE QueueInv'
  <2>1. /\ UNCHANGED <<requests, fmtRequests, owed, cancelled, expects, fmtSeq, loopPc>>
        /\ loopPc # "run" /\ fmt \in {"failed", "closed"} /\ fmt' \in {"open", "closed"}
        /\ radioState' = radioState \/ (radioState' = OFF /\ fmt' = "open")
    BY <1>11 DEF FmtReopen, FmtRetryFails, Retrying, LockFree
  <2>2. OutageLeavesNothing'
    BY <2>1 DEF QueueInv, OutageLeavesNothing, UNAVAILABLE, OFF, NoSeq
  <2>3. RadioNeedsClient' /\ PassNeedsRadio'
    BY <2>1 DEF QueueInv, RadioNeedsClient, PassNeedsRadio
  <2> QED
    BY <2>1, <2>2, <2>3 DEF QueueInv, DistinctTokens, OneEach, Positions, Mirrored
<1>12. ASSUME FmtGiveUp PROVE QueueInv'
  <2>1. /\ UNCHANGED <<requests, owed, cancelled, loopPc, radioState>>
        /\ loopPc # "run" /\ fmt \in {"failed", "closed"} /\ fmt' = "dead"
        /\ fmtRequests' = <<>> /\ expects' = <<>> /\ fmtSeq' = 0
    BY <1>12 DEF FmtGiveUp, FmtFlush, FmtRequestFlush, ExpectFlush, LockFree
  <2> QED
    BY <2>1 DEF QueueInv, DistinctTokens, OneEach, Positions, Mirrored,
                OutageLeavesNothing, RadioNeedsClient, PassNeedsRadio
<1>13. CASE UNCHANGED vars
  BY <1>13 DEF vars, QueueInv, DistinctTokens, OneEach, Positions, Mirrored,
               OutageLeavesNothing, RadioNeedsClient, PassNeedsRadio, NoSeq
<1> QED
  BY <1>1, <1>2, <1>3, <1>4, <1>5, <1>6, <1>7, <1>8, <1>9, <1>10, <1>11, <1>12,
     <1>13 DEF Next, LibrilNext, LoopNext, ModemNext, RetryNext

\* It holds when the library starts.
LEMMA QueueInvInit == Init => QueueInv
BY DEF Init, QueueInv, DistinctTokens, OneEach, Positions, Mirrored,
       OutageLeavesNothing, RadioNeedsClient, PassNeedsRadio, UNAVAILABLE, OFF

\* The FMT client's list mirrors the queue, every request in the queue and no
\* other is owed one answer, an outage leaves no trace of the requests before
\* it, and the radio is only present while the client can send.
THEOREM QueueCorrect ==
    Spec => [](Mirrored /\ AnsweredOnce /\ OutageLeavesNothing /\ RadioNeedsClient)
<1>1. TypeInv /\ QueueInv =>
        Mirrored /\ AnsweredOnce /\ OutageLeavesNothing /\ RadioNeedsClient
  BY QueueInvAnsweredOnce DEF TypeInv, QueueInv
<1> QED
  BY TypeInvInit, TypeInvStep, QueueInvInit, QueueInvStep, <1>1, PTL DEF Spec

\* The FMT client's list of requests names the same requests in the same order
\* as the library's: no separate register, unregister or flush call is missed.
THEOREM ListsAgree == Spec => []Mirrored
BY QueueCorrect, PTL

\* Nothing of the requests before an outage is left in the two lists, the
\* expects and the sequence number (ril_radio_state_update, ipc_fmt_flush).
THEOREM OutageClean == Spec => []OutageLeavesNothing
BY QueueCorrect, PTL

\* ril_request_loop may send whenever the radio is present: the FMT client is
\* up then, through every retry and when it is given up.
THEOREM RadioImpliesClient == Spec => []RadioNeedsClient
BY QueueCorrect, PTL


-----------------------------------------------------------------------------
(* The request loop.  Between two passes an UNHANDLED request is blocked,  *)
(* or something has happened that the loop will be told of; within a pass  *)
(* it is blocked by what the pass itself cannot remove.                    *)

OrderIn(q) ==
    \A i, j \in 1 .. Len(q) :
        (i < j /\ q[i].kind = q[j].kind /\ Handler[q[i].kind].excl)
            => q[j].status # "HANDLED"

BlockedIn(q, radio, i) ==
    \/ radio < Handler[q[i].kind].min
    \/ /\ Handler[q[i].kind].excl
       /\ \E j \in 1 .. Len(q) : q[j].status = "HANDLED" /\ q[j].kind = q[i].kind

UnhandledBlocked ==
    \A i \in 1 .. Len(requests) : requests[i].status = "UNHANDLED" =>
        \/ BlockedIn(requests, radioState, i)
        \/ loopPc = "wait" /\ (loopSem \/ orphans)
        \/ loopPc = "lock"

LoopInv == NoLostWakeup /\ UnhandledBlocked /\ OrderIn(requests)

\* The invariant says what the properties say.
LEMMA LoopInvImplies ==
    ASSUME LoopInv
    PROVE  NoLostWakeup /\ UnhandledHasReason /\ ExclusiveInOrder
<1>1. UnhandledHasReason
  BY DEF LoopInv, UnhandledBlocked, UnhandledHasReason, InStatus, Blocked,
         BlockedIn, Busy
<1>2. ExclusiveInOrder
  BY DEF LoopInv, OrderIn, ExclusiveInOrder
<1> QED
  BY <1>1, <1>2 DEF LoopInv

\* Unregistering a request keeps the order of the others.
LEMMA UnregisterOrder ==
    ASSUME NEW S, NEW q \in Seq(S), NEW t, OrderIn(q)
    PROVE  OrderIn(Unregister(q, t))
<1>1. CASE Unregister(q, t) = q
  BY <1>1
<1>2. ASSUME NEW d \in 1 .. Len(q), Unregister(q, t) = Delete(q, d)
      PROVE  OrderIn(Unregister(q, t))
  <2> DEFINE p == Delete(q, d)
  <2>1. Len(p) = Len(q) - 1
    BY DeleteSeq
  <2>2. \A j \in 1 .. Len(q) - 1 : p[j] = q[Shift(d, j)] /\ Shift(d, j) \in 1 .. Len(q)
    BY DeleteElement
  <2> HIDE DEF p
  <2> SUFFICES ASSUME NEW i \in 1 .. Len(p), NEW j \in 1 .. Len(p), i < j,
                      p[i].kind = p[j].kind, Handler[p[i].kind].excl
               PROVE  p[j].status # "HANDLED"
    BY <1>2 DEF OrderIn, p
  <2>3. Shift(d, i) < Shift(d, j)
    BY ShiftMonotone
  <2> QED
    BY <2>1, <2>2, <2>3 DEF OrderIn
<1> QED
  BY <1>1, <1>2, UnregisterCases

\* Unregistering the request being dispatched unblocks no other one: it was
\* not HANDLED.
LEMMA UnregisterBlocked ==
    ASSUME NEW S, NEW q \in Seq(S), NEW radio, NEW c \in 1 .. Len(q),
           q[c].status = "PENDING", DistinctTokens(q),
           \A i \in 1 .. Len(q) :
              q[i].status = "UNHANDLED" => BlockedIn(q, radio, i)
    PROVE  \A i \in 1 .. Len(Unregister(q, q[c].token)) :
              Unregister(q, q[c].token)[i].status = "UNHANDLED"
                => BlockedIn(Unregister(q, q[c].token), radio, i)
<1> DEFINE t == q[c].token
           p == Delete(q, c)
<1>1. Unregister(q, t) = p
  <2>1. Positions(q, t) # {}
    BY DEF Positions
  <2>2. /\ FirstOf(Positions(q, t)) \in 1 .. Len(q)
        /\ q[FirstOf(Positions(q, t))].token = t
        /\ Unregister(q, t) = Delete(q, FirstOf(Positions(q, t)))
    BY <2>1, UnregisterCases
  <2>3. FirstOf(Positions(q, t)) = c
    BY <2>2 DEF DistinctTokens
  <2> QED
    BY <2>2, <2>3
<1>2. Len(p) = Len(q) - 1 /\ Len(q) \in Nat
  BY DeleteSeq
<1>3. \A j \in 1 .. Len(q) - 1 : p[j] = q[Shift(c, j)] /\ Shift(c, j) \in 1 .. Len(q)
  BY DeleteElement
<1> HIDE DEF p
<1> SUFFICES ASSUME NEW i \in 1 .. Len(p), p[i].status = "UNHANDLED"
             PROVE  BlockedIn(p, radio, i)
  BY <1>1
<1>4. BlockedIn(q, radio, Shift(c, i))
  BY <1>2, <1>3
<1>5. ASSUME NEW h \in 1 .. Len(q), q[h].status = "HANDLED",
             q[h].kind = q[Shift(c, i)].kind
      PROVE  \E j \in 1 .. Len(p) : p[j].status = "HANDLED" /\ p[j].kind = p[i].kind
  <2>1. h # c
    BY <1>5
  <2>2. PICK j \in 1 .. Len(q) - 1 : Shift(c, j) = h
    BY <1>2, <2>1, ShiftOnto, Zenon
  <2> QED
    BY <1>2, <1>3, <1>5, <2>2
<1> QED
  BY <1>2, <1>3, <1>4, <1>5 DEF BlockedIn

\* A completed token leaves no request PENDING that was not; a NULL token
\* changes nothing.
LEMMA CompletePending ==
    ASSUME TypeOK, NEW t, Complete(t)
    PROVE  /\ InStatus("PENDING")' # {} => InStatus("PENDING") # {}
           /\ t = NoToken => requests' = requests
<1>1. requests' = Unregister(requests, t) /\ fmtRequests' = Unregister(fmtRequests, t)
  BY DEF Complete
<1>2. \A j \in 1 .. Len(requests') :
         \E i \in 1 .. Len(requests) : requests'[j] = requests[i]
  BY <1>1, UnregisterBoth
<1>3. ASSUME t = NoToken PROVE requests' = requests
  <2>1. \A r \in Request : r.token \in Token
    BY DEF Request
  <2>2. \A i \in 1 .. Len(requests) : requests[i] \in Request
    BY DEF TypeOK
  <2>3. Positions(requests, t) = {}
    BY <1>3, <2>1, <2>2, ConstantsAssumption DEF Positions
  <2> QED
    BY <1>1, <2>3 DEF Unregister
<1> QED
  BY <1>2, <1>3 DEF InStatus


\* The loop invariant is preserved by every step.
LEMMA LoopInvStep ==
    ASSUME TypeInv, QueueInv, LoopInv, [Next]_vars
    PROVE  LoopInv'
<1> USE DEF queueVars, seqVars, clientVars, loopVars, histVars
<1>a. TypeOK
  BY DEF TypeInv
<1>b. requests \in Seq(Request) /\ radioState \in 0 .. 4
  BY DEF TypeInv, TypeOK, RadioStates, UNAVAILABLE, SIM_READY
<1>c. \A k \in Kind : Handler[k].min \in 0 .. 4
  BY ConstantsAssumption DEF Profile, RadioStates, UNAVAILABLE, SIM_READY
<1>d. \A i \in 1 .. Len(requests) : requests[i] \in Request /\ requests[i].kind \in Kind
  <2>1. \A r \in Request : r.kind \in Kind
    BY DEF Request
  <2> QED
    BY <1>b, <2>1
<1>e. radioState = UNAVAILABLE =>
        \A i \in 1 .. Len(requests) : requests[i].status = "PENDING"
  BY DEF QueueInv, OutageLeavesNothing
<1>f. \* steps that leave the requests alone and do not raise the radio state
      ASSUME requests' = requests, radioState' <= radioState, radioState' \in Int,
             loopPc' = loopPc, loopSem => loopSem', orphans' = orphans,
             posting' = posting
      PROVE  LoopInv'
  <2>1. NoLostWakeup'
    BY <1>b, <1>f DEF LoopInv, NoLostWakeup, InStatus, OFF
  <2>2. UnhandledBlocked'
    BY <1>b, <1>c, <1>d, <1>f DEF LoopInv, UnhandledBlocked, BlockedIn
  <2>3. OrderIn(requests')
    BY <1>f DEF LoopInv
  <2> QED
    BY <2>1, <2>2, <2>3 DEF LoopInv
<1>g. \* steps that leave the requests alone and wake the loop up
      ASSUME requests' = requests, loopPc' = loopPc, loopPc # "run", loopSem'
      PROVE  LoopInv'
  <2>1. loopPc' \in {"wait", "lock"}
    BY <1>a, <1>g DEF TypeOK
  <2>2. NoLostWakeup'
    BY <1>g DEF NoLostWakeup
  <2>3. UnhandledBlocked'
    BY <1>g, <2>1 DEF UnhandledBlocked
  <2>4. OrderIn(requests')
    BY <1>g DEF LoopInv
  <2> QED
    BY <2>2, <2>3, <2>4 DEF LoopInv
<1>h. \* steps of the client thread that complete a request
      ASSUME NEW t, t # NoToken, Complete(t), loopPc' = loopPc, loopPc # "run", loopSem'
      PROVE  LoopInv'
  <2>1. loopPc' \in {"wait", "lock"}
    BY <1>a, <1>h DEF TypeOK
  <2>2. NoLostWakeup'
    BY <1>h DEF NoLostWakeup
  <2>3. UnhandledBlocked'
    BY <1>h, <2>1 DEF UnhandledBlocked
  <2>4. OrderIn(requests')
    BY <1>b, <1>h, UnregisterOrder DEF LoopInv, Complete
  <2> QED
    BY <2>2, <2>3, <2>4 DEF LoopInv
<1>1. ASSUME NEW t \in Token, NEW k \in Kind, OnRequest(t, k)
      PROVE  LoopInv'
  <2> DEFINE r == [token |-> t, kind |-> k, status |-> "PENDING"]
  <2>1. Unregister(requests, t) = requests
    BY <1>1 DEF OnRequest, QueueInv, OneEach, Unregister
  <2>2. requests' = Append(requests, r) /\ r.status = "PENDING"
    BY <1>1, <2>1 DEF OnRequest
  <2>3. /\ Len(requests') = Len(requests) + 1 /\ Len(requests) \in Nat
        /\ \A i \in 1 .. Len(requests) : requests'[i] = requests[i]
        /\ requests'[Len(requests) + 1].status = "PENDING"
    BY <1>b, <2>2
  <2>4. radioState' = radioState /\ loopPc' = loopPc /\ loopSem' = loopSem
        /\ orphans' = orphans /\ posting'
    BY <1>1 DEF OnRequest
  <2>5. NoLostWakeup'
    BY <2>4 DEF NoLostWakeup
  <2>6. UnhandledBlocked'
    <3> SUFFICES ASSUME NEW i \in 1 .. Len(requests'),
                        requests'[i].status = "UNHANDLED",
                        ~(loopPc' = "wait" /\ (loopSem' \/ orphans')),
                        loopPc' # "lock"
                 PROVE  BlockedIn(requests', radioState', i)
      BY DEF UnhandledBlocked
    <3>1. i \in 1 .. Len(requests)
      BY <2>3
    <3>2. BlockedIn(requests, radioState, i)
      BY <2>3, <2>4, <3>1 DEF LoopInv, UnhandledBlocked
    <3> QED
      BY <2>3, <2>4, <3>1, <3>2 DEF BlockedIn
  <2>7. OrderIn(requests')
    BY <2>3 DEF LoopInv, OrderIn
  <2> QED
    BY <2>5, <2>6, <2>7 DEF LoopInv
<1>2. ASSUME OnRequestSignal PROVE LoopInv'
  <2>1. /\ requests' = requests /\ radioState' = radioState /\ loopPc' = loopPc
        /\ loopSem' /\ orphans' = orphans
    BY <1>2 DEF OnRequestSignal
  <2>2. NoLostWakeup'
    BY <2>1 DEF NoLostWakeup
  <2>3. UnhandledBlocked'
    BY <2>1 DEF LoopInv, UnhandledBlocked, BlockedIn
  <2> QED
    BY <2>1, <2>2, <2>3 DEF LoopInv
<1>3. ASSUME NEW t \in Token, OnCancel(t) PROVE LoopInv'
  <2>1. /\ requests' = Unregister(requests, t)
        /\ fmtRequests' = Unregister(fmtRequests, t)
        /\ radioState' = radioState /\ UNCHANGED <<loopPc, loopSem, posting>>
        /\ loopPc # "run" /\ orphans'
    BY <1>3 DEF OnCancel, LockFree
  <2>2. loopPc' \in {"wait", "lock"}
    BY <1>a, <2>1 DEF TypeOK
  <2>3. InStatus("PENDING")' # {} => InStatus("PENDING") # {}
    <3>1. \A j \in 1 .. Len(requests') :
             \E i \in 1 .. Len(requests) : requests'[j] = requests[i]
      BY <1>a, <2>1, UnregisterBoth
    <3> QED
      BY <3>1 DEF InStatus
  <2>4. NoLostWakeup'
    BY <2>1, <2>3 DEF LoopInv, NoLostWakeup
  <2>5. UnhandledBlocked'
    BY <2>1, <2>2 DEF UnhandledBlocked
  <2>6. OrderIn(requests')
    BY <1>b, <2>1, UnregisterOrder DEF LoopInv
  <2> QED
    BY <2>4, <2>5, <2>6 DEF LoopInv
<1>4. ASSUME LoopWake PROVE LoopInv'
  <2>1. requests' = requests /\ loopPc' = "lock"
    BY <1>4 DEF LoopWake
  <2> QED
    BY <2>1 DEF LoopInv, NoLostWakeup, UnhandledBlocked
<1>5. ASSUME LoopLock PROVE LoopInv'
  <2>1. CASE radioState < OFF
    <3>1. requests' = requests /\ radioState' = radioState /\ radioState = UNAVAILABLE
      BY <1>5, <1>b, <2>1 DEF LoopLock, OFF, UNAVAILABLE
    <3>2. NoLostWakeup'
      BY <3>1 DEF NoLostWakeup, UNAVAILABLE, OFF
    <3>3. UnhandledBlocked'
      BY <1>e, <3>1 DEF UnhandledBlocked
    <3> QED
      BY <3>1, <3>2, <3>3 DEF LoopInv
  <2>2. CASE ~(radioState < OFF)
    <3>1. /\ loopPc' = "run"
          /\ requests' = [i \in 1 .. Len(requests) |->
                IF requests[i].status = "UNHANDLED"
                THEN [requests[i] EXCEPT !.status = "PENDING"]
                ELSE requests[i]]
      BY <1>5, <2>2 DEF LoopLock
    <3>2. SameTokens(requests, requests')
      BY <1>5, <1>a, LoopLockSame
    <3>3. \A q \in Request : [q EXCEPT !.status = "PENDING"].status = "PENDING"
      BY DEF Request
    <3>4. \A i \in 1 .. Len(requests) :
             /\ requests'[i].status # "UNHANDLED"
             /\ requests'[i].status = "HANDLED" => requests[i].status = "HANDLED"
      BY <1>d, <3>1, <3>3
    <3>5. OrderIn(requests')
      BY <3>2, <3>4 DEF LoopInv, OrderIn, SameTokens
    <3> QED
      BY <3>1, <3>2, <3>4, <3>5
         DEF LoopInv, NoLostWakeup, UnhandledBlocked, SameTokens
  <2> QED
    BY <2>1, <2>2
<1>6. ASSUME DispatchAnswer \/ DispatchSendFails PROVE LoopInv'
  <2>1. /\ Dispatching /\ Complete(requests[Current].token)
        /\ radioState' = radioState /\ loopPc' = loopPc
    BY <1>6 DEF DispatchAnswer, DispatchSendFails
  <2>2. requests' = Unregister(requests, requests[Current].token)
    BY <2>1 DEF Complete
  <2>3. loopPc = "run"
    BY <2>1 DEF Dispatching
  <2>4. Current \in 1 .. Len(requests) /\ requests[Current].status = "PENDING"
    BY <1>a, <2>1, CurrentType
  <2>5. \A i \in 1 .. Len(requests) :
           requests[i].status = "UNHANDLED" => BlockedIn(requests, radioState, i)
    BY <2>3 DEF LoopInv, UnhandledBlocked
  <2>6. \A i \in 1 .. Len(requests') :
           requests'[i].status = "UNHANDLED" => BlockedIn(requests', radioState, i)
    <3>1. DistinctTokens(requests)
      BY DEF QueueInv
    <3> QED
      BY <1>b, <2>2, <2>4, <2>5, <3>1, UnregisterBlocked, Zenon
  <2>7. OrderIn(requests')
    BY <1>b, <2>2, UnregisterOrder DEF LoopInv
  <2> QED
    BY <2>1, <2>3, <2>6, <2>7 DEF LoopInv, NoLostWakeup, UnhandledBlocked
<1>7. ASSUME DispatchUnhandled \/ DispatchSend PROVE LoopInv'
  <2> DEFINE c == Current
             k == requests[c].kind
  <2>1. Dispatching /\ radioState' = radioState /\ loopPc' = loopPc /\ loopPc = "run"
    BY <1>7 DEF DispatchUnhandled, DispatchSend, Dispatching
  <2>2. /\ c \in 1 .. Len(requests) /\ requests[c].status = "PENDING" /\ k \in Kind
        /\ \A j \in InStatus("PENDING") : c <= j
    BY <1>a, <1>d, <2>1, CurrentType
  <2>3. PICK s \in {"UNHANDLED", "HANDLED"} :
          /\ SetStatus(c, s)
          /\ s = "UNHANDLED" => BlockedIn(requests, radioState, c)
          /\ s = "HANDLED" => ~BlockedIn(requests, radioState, c)
    <3>1. CASE DispatchUnhandled
      BY <3>1 DEF DispatchUnhandled, BlockedIn, Busy, InStatus
    <3>2. CASE DispatchSend
      <4>1. Handler[k].min \in Int /\ radioState \in Int
        BY <1>b, <1>c, <2>2
      <4> QED
        BY <3>2, <4>1 DEF DispatchSend, BlockedIn, Busy, InStatus
    <3> QED
      BY <1>7, <3>1, <3>2
  <2>4. /\ SameTokens(requests, requests') /\ requests'[c].status = s
        /\ \A j \in 1 .. Len(requests) : j # c => requests'[j] = requests[j]
    BY <1>a, <2>2, <2>3, SetStatusSame
  <2>5. \A i \in 1 .. Len(requests) :
           requests[i].status = "UNHANDLED" => BlockedIn(requests, radioState, i)
    BY <2>1 DEF LoopInv, UnhandledBlocked
  <2> HIDE DEF c
  <2>6. \A i \in 1 .. Len(requests) :
           BlockedIn(requests, radioState, i) => BlockedIn(requests', radioState, i)
    BY <2>2, <2>4 DEF BlockedIn, SameTokens
  <2>7. UnhandledBlocked'
    BY <2>1, <2>3, <2>4, <2>5, <2>6 DEF UnhandledBlocked, SameTokens
  <2>8. OrderIn(requests')
    <3> SUFFICES ASSUME NEW i \in 1 .. Len(requests), NEW j \in 1 .. Len(requests),
                        i < j, requests[i].kind = requests[j].kind,
                        Handler[requests[i].kind].excl,
                        requests'[j].status = "HANDLED"
                 PROVE  FALSE
      BY <2>4 DEF OrderIn, SameTokens
    <3>1. CASE j # c
      BY <2>4, <3>1 DEF LoopInv, OrderIn
    <3>2. CASE j = c
      <4>1. ~BlockedIn(requests, radioState, c)
        BY <2>3, <2>4, <3>2
      <4>2. requests[i].status # "HANDLED"
        BY <3>2, <4>1 DEF BlockedIn
      <4>3. requests[i].status # "UNHANDLED"
        BY <2>5, <3>2, <4>1 DEF BlockedIn
      <4>4. requests[i].status # "PENDING"
        BY <2>2, <3>2 DEF InStatus
      <4>5. requests[i].status \in Status
        <5>1. \A r \in Request : r.status \in Status
          BY DEF Request
        <5> QED
          BY <1>d, <5>1
      <4> QED
        BY <4>2, <4>3, <4>4, <4>5 DEF Status
    <3> QED
      BY <3>1, <3>2
  <2> QED
    BY <2>1, <2>7, <2>8 DEF LoopInv, NoLostWakeup
<1>8. ASSUME LoopDone PROVE LoopInv'
  <2>1. /\ requests' = requests /\ radioState' = radioState
        /\ loopPc = "run" /\ InStatus("PENDING") = {}
    BY <1>8 DEF LoopDone
  <2>2. NoLostWakeup'
    BY <2>1 DEF NoLostWakeup, InStatus
  <2>3. UnhandledBlocked'
    BY <2>1 DEF LoopInv, UnhandledBlocked, BlockedIn
  <2> QED
    BY <2>1, <2>2, <2>3 DEF LoopInv
<1>9. ASSUME PwrUp PROVE LoopInv'
  <2>1. requests' = requests /\ radioState' = OFF /\ UNCHANGED <<loopVars, histVars>>
    BY <1>9 DEF PwrUp
  <2>2. CASE radioState = UNAVAILABLE
    <3>1. NoLostWakeup'
      BY <2>1 DEF NoLostWakeup, OFF
    <3>2. UnhandledBlocked'
      BY <1>e, <2>1, <2>2 DEF UnhandledBlocked
    <3> QED
      BY <2>1, <3>1, <3>2 DEF LoopInv
  <2>3. CASE radioState # UNAVAILABLE
    <3>1. radioState' <= radioState /\ radioState' \in Int
      BY <1>b, <2>1, <2>3 DEF UNAVAILABLE, OFF
    <3> QED
      BY <1>f, <2>1, <3>1
  <2> QED
    BY <2>2, <2>3
<1>10. ASSUME NEW s \in RadioStates, SimStatus(s) PROVE LoopInv'
  <2>1. /\ requests' = requests /\ radioState' = s /\ UNCHANGED <<loopPc, posting>>
        /\ orphans' = orphans /\ loopSem' = (loopSem \/ Wakes(s))
        /\ loopPc # "run" /\ s >= SIM_NOT_READY
    BY <1>10 DEF SimStatus, Receiving, LockFree
  <2>2. CASE s = radioState
    <3>1. radioState' <= radioState /\ radioState' \in Int
      BY <1>b, <2>1, <2>2
    <3>2. loopSem => loopSem'
      BY <2>1
    <3> QED
      BY <1>f, <2>1, <3>1, <3>2
  <2>3. CASE s # radioState
    <3>1. Wakes(s)
      BY <2>1, <2>3 DEF Wakes, SIM_NOT_READY, OFF, RadioStates, UNAVAILABLE, SIM_READY
    <3> QED
      BY <1>g, <2>1, <3>1
  <2> QED
    BY <2>2, <2>3
<1>11. ASSUME NEW m \in wire, NEW s \in RadioStates, RecvResp(m, s)
       PROVE  LoopInv'
  <2> DEFINE t == FmtToken(m.seq)
  <2>1. /\ radioState' = s /\ UNCHANGED <<loopPc, posting>> /\ orphans' = orphans
        /\ loopPc # "run"
    BY <1>11 DEF RecvResp, Receiving, LockFree
  <2>2. CASE UNCHANGED <<queueVars, radioState, loopSem>>
    BY <1>b, <1>f, <2>1, <2>2
  <2>3. CASE /\ Complete(t) /\ loopSem' = (loopSem \/ t # NoToken \/ Wakes(s))
             /\ IF Handler[m.kind].sets = {} THEN s = radioState
                ELSE s \in Handler[m.kind].sets
    <3>1. CASE t # NoToken
      BY <1>h, <2>1, <2>3, <3>1
    <3>2. CASE t = NoToken
      <4>1. requests' = requests
        BY <1>a, <2>3, <3>2, CompletePending
      <4>2. s \in OFF .. SIM_READY \/ s = radioState
        <5>1. m.kind \in Kind
          BY <1>a DEF TypeOK, Sent
        <5>2. Handler[m.kind].sets \in SUBSET (OFF .. SIM_READY)
          BY <5>1, ConstantsAssumption DEF Profile
        <5> QED
          BY <2>3, <5>2
      <4>3. CASE s = radioState
        <5>1. radioState' <= radioState /\ radioState' \in Int
          BY <1>b, <2>1, <4>3
        <5>2. loopSem => loopSem'
          BY <2>3
        <5> QED
          BY <1>f, <2>1, <4>1, <5>1, <5>2
      <4>4. CASE s # radioState /\ s > OFF
        BY <1>g, <2>1, <2>3, <4>1, <4>4 DEF Wakes
      <4>5. CASE s = OFF
        <5>1. CASE radioState = UNAVAILABLE
          <6>1. NoLostWakeup'
            BY <2>1, <4>5 DEF NoLostWakeup, OFF
          <6>2. UnhandledBlocked'
            BY <1>e, <4>1, <5>1 DEF UnhandledBlocked
          <6> QED
            BY <4>1, <6>1, <6>2 DEF LoopInv
        <5>2. CASE radioState # UNAVAILABLE
          <6>1. radioState' <= radioState /\ radioState' \in Int
            BY <1>b, <2>1, <4>5, <5>2 DEF UNAVAILABLE, OFF
          <6>2. loopSem => loopSem'
            BY <2>3
          <6> QED
            BY <1>f, <2>1, <4>1, <6>1, <6>2
        <5> QED
          BY <5>1, <5>2
      <4> QED
        BY <4>2, <4>3, <4>4, <4>5 DEF OFF, SIM_READY
    <3> QED
      BY <3>1, <3>2
  <2> QED
    BY <1>11, <2>2, <2>3 DEF RecvResp
<1>12. ASSUME NEW m \in wire, NEW ok \in BOOLEAN, RecvGen(m, ok)
       PROVE  LoopInv'
  <2> DEFINE t == FmtToken(m.seq)
  <2>1. /\ radioState' = radioState /\ UNCHANGED <<loopPc, posting>>
        /\ orphans' = orphans /\ loopPc # "run"
    BY <1>12 DEF RecvGen, Receiving, LockFree
  <2>2. CASE UNCHANGED <<queueVars, loopSem>>
    BY <1>b, <1>f, <2>1, <2>2
  <2>3. CASE Complete(t) /\ loopSem' = (loopSem \/ t # NoToken)
    <3>1. CASE t # NoToken
      BY <1>h, <2>1, <2>3, <3>1
    <3>2. CASE t = NoToken
      <4>1. requests' = requests
        BY <1>a, <2>3, <3>2, CompletePending
      <4>2. radioState' <= radioState /\ radioState' \in Int
        BY <1>b, <2>1
      <4>3. loopSem => loopSem'
        BY <2>3
      <4> QED
        BY <1>f, <2>1, <4>1, <4>2, <4>3
    <3> QED
      BY <3>1, <3>2
  <2> QED
    BY <1>12, <2>2, <2>3 DEF RecvGen
<1>13. ASSUME FmtError PROVE LoopInv'
  <2>1. radioState' = UNAVAILABLE /\ UNCHANGED <<loopPc, posting, orphans>>
    BY <1>13 DEF FmtError, Outage, FmtFlush, FmtRequestFlush, ExpectFlush
  <2>2. CASE radioState = UNAVAILABLE
    <3>1. UNCHANGED <<requests, loopSem>>
      BY <1>13, <2>2 DEF FmtError, Outage, FmtFlush, FmtRequestFlush, ExpectFlush
    <3> QED
      BY <1>b, <1>f, <2>1, <2>2, <3>1
  <2>3. CASE radioState # UNAVAILABLE
    <3>1. requests' = <<>>
      BY <1>13, <2>3 DEF FmtError, Outage, FmtFlush, FmtRequestFlush, ExpectFlush
    <3> QED
      BY <3>1 DEF LoopInv, NoLostWakeup, UnhandledBlocked, OrderIn, InStatus
  <2> QED
    BY <2>2, <2>3
<1>14. ASSUME FmtReopen \/ FmtRetryFails \/ FmtGiveUp PROVE LoopInv'
  <2>1. /\ UNCHANGED <<requests, loopVars, histVars>>
        /\ radioState' = radioState \/ radioState' = OFF
        /\ fmt \in {"failed", "closed"}
    BY <1>14 DEF FmtReopen, FmtRetryFails, FmtGiveUp,
       FmtFlush, FmtRequestFlush, ExpectFlush, Retrying
  <2>2. radioState = UNAVAILABLE
    BY <1>b, <2>1 DEF QueueInv, RadioNeedsClient, UNAVAILABLE, OFF
  <2>3. NoLostWakeup'
    BY <2>1, <2>2 DEF NoLostWakeup, UNAVAILABLE, OFF
  <2>4. UnhandledBlocked'
    BY <1>e, <2>1, <2>2 DEF UnhandledBlocked
  <2> QED
    BY <2>1, <2>3, <2>4 DEF LoopInv
<1>15. CASE UNCHANGED vars
  BY <1>b, <1>f, <1>15 DEF vars
<1> QED
  BY <1>1, <1>2, <1>3, <1>4, <1>5, <1>6, <1>7, <1>8, <1>9, <1>10, <1>11, <1>12,
     <1>13, <1>14, <1>15 DEF Next, LibrilNext, LoopNext, ModemNext, RetryNext

\* It holds when the library starts.
LEMMA LoopInvInit == Init => LoopInv
BY DEF Init, LoopInv, NoLostWakeup, UnhandledBlocked, OrderIn, InStatus

\* With the radio on (its state above OFF) the request loop never sleeps on a
\* PENDING request; whatever the radio, it sleeps on an UNHANDLED one only when
\* that is blocked or a request was cancelled since the last pass; and exclusive
\* requests reach the modem one at a time and in order.  At OFF a PENDING
\* RADIO_POWER may be slept on: the change from UNAVAILABLE to OFF wakes nobody
\* (samsung-ril.c:1173-1180).
THEOREM LoopCorrect ==
    Spec => [](NoLostWakeup /\ UnhandledHasReason /\ ExclusiveInOrder)
<1>1. LoopInv => NoLostWakeup /\ UnhandledHasReason /\ ExclusiveInOrder
  BY LoopInvImplies
<1> QED
  BY TypeInvInit, TypeInvStep, QueueInvInit, QueueInvStep, LoopInvInit, LoopInvStep,
     <1>1, PTL DEF Spec

\* While the radio is on, no wake-up of ril_request_loop is lost between
\* ril_on_request's unlock and its signal, or to a pass that ends meanwhile.
THEOREM WakeupsKept == Spec => []NoLostWakeup
BY LoopCorrect, PTL

\* Requests of an exclusive kind are handed to the modem in the order libril
\* issued them.
THEOREM OrderKept == Spec => []ExclusiveInOrder
BY LoopCorrect, PTL

-----------------------------------------------------------------------------
(* Sequence numbers.  Until they wrap around, every number in use was      *)
(* given since the last flush, so that the next one is in nobody's hands.  *)

\* What a command tells of the requests and expects with its number: the
\* request is its own, and the expect is for it.
OwnRequest(f, m) ==
    \A i \in 1 .. Len(f) :
        f[i].seq = m.seq => f[i].token = m.token /\ f[i].kind = m.kind
OwnExpect(e, m) ==
    \A i \in 1 .. Len(e) : e[i].aseq = m.seq => e[i].cmd = Handler[m.kind].cmd

NumbersFind(f, e, w, last) ==
    /\ \A i \in 1 .. Len(f) : f[i].seq # NoSeq => f[i].seq <= last
    /\ \A i \in 1 .. Len(e) : e[i].aseq <= last
    /\ \A m \in w : ~m.old => m.seq <= last /\ OwnRequest(f, m) /\ OwnExpect(e, m)

NumberInv == ~wrapped => NumbersFind(fmtRequests, expects, wire, fmtSeq)

\* It is the property, with the numbers in range.
LEMMA NumbersAnswer == NumberInv => AnswersFindTheirRequest
BY DEF NumberInv, NumbersFind, OwnRequest, OwnExpect, AnswersFindTheirRequest

\* Numbers are numbers.
LEMMA NumberTypes ==
    ASSUME TypeOK
    PROVE  /\ \A i \in 1 .. Len(fmtRequests) : fmtRequests[i].seq \in Nat
           /\ \A i \in 1 .. Len(expects) : expects[i].aseq \in Nat
           /\ \A m \in wire : m.seq \in Nat /\ m.seq # NoSeq
<1>1. SeqMax \in Nat /\ NoSeq = SeqMax + 1
  BY ConstantsAssumption DEF NoSeq
<1>2. \A i \in 1 .. Len(fmtRequests) : fmtRequests[i].seq \in Nat
  <2>1. \A i \in 1 .. Len(fmtRequests) : fmtRequests[i] \in FmtRequest
    BY DEF TypeOK
  <2>2. \A x \in FmtRequest : x.seq \in Nat
    BY <1>1 DEF FmtRequest
  <2> QED
    BY <2>1, <2>2
<1>3. \A i \in 1 .. Len(expects) : expects[i].aseq \in Nat
  <2>1. \A i \in 1 .. Len(expects) : expects[i] \in Expect
    BY DEF TypeOK
  <2>2. \A x \in Expect : x.aseq \in Nat
    BY <1>1 DEF Expect, Seqs
  <2> QED
    BY <2>1, <2>2
<1>4. \A m \in wire : m.seq \in Nat /\ m.seq # NoSeq
  <2>1. \A x \in Sent : x.seq \in Nat /\ x.seq # NoSeq
    BY <1>1 DEF Sent, Seqs
  <2> QED
    BY <2>1 DEF TypeOK
<1> QED
  BY <1>2, <1>3, <1>4

\* Removing requests and expects, adding requests without a number, and
\* answering commands in part changes no number.
LEMMA NumbersKept ==
    ASSUME TypeOK,
           NEW f, NEW e, NEW w, NEW last,
           NumbersFind(fmtRequests, expects, wire, last),
           \A j \in 1 .. Len(f) :
              f[j].seq = NoSeq \/ \E i \in 1 .. Len(fmtRequests) : f[j] = fmtRequests[i],
           \A j \in 1 .. Len(e) : \E i \in 1 .. Len(expects) : e[j] = expects[i],
           \A m \in w : \E n \in wire :
              m.seq = n.seq /\ m.token = n.token /\ m.kind = n.kind /\ m.old = n.old
    PROVE  NumbersFind(f, e, w, last)
<1>1. \A m \in wire : m.seq # NoSeq
  BY NumberTypes
<1>2. ASSUME NEW m \in w, ~m.old
      PROVE  m.seq <= last /\ OwnRequest(f, m) /\ OwnExpect(e, m)
  <2>1. PICK n \in wire :
           m.seq = n.seq /\ m.token = n.token /\ m.kind = n.kind /\ m.old = n.old
    OBVIOUS
  <2>2. n.seq <= last /\ OwnRequest(fmtRequests, n) /\ OwnExpect(expects, n)
    BY <1>2, <2>1 DEF NumbersFind
  <2>3. OwnRequest(f, m)
    <3> SUFFICES ASSUME NEW j \in 1 .. Len(f), f[j].seq = m.seq
                 PROVE  f[j].token = m.token /\ f[j].kind = m.kind
      BY DEF OwnRequest
    <3>1. PICK i \in 1 .. Len(fmtRequests) : f[j] = fmtRequests[i]
      BY <1>1, <2>1
    <3>2. fmtRequests[i].seq = n.seq
      BY <2>1, <3>1
    <3> QED
      BY <2>1, <2>2, <3>1, <3>2 DEF OwnRequest
  <2>4. OwnExpect(e, m)
    <3> SUFFICES ASSUME NEW j \in 1 .. Len(e), e[j].aseq = m.seq
                 PROVE  e[j].cmd = Handler[m.kind].cmd
      BY DEF OwnExpect
    <3>1. PICK i \in 1 .. Len(expects) : e[j] = expects[i]
      OBVIOUS
    <3>2. expects[i].aseq = n.seq
      BY <2>1, <3>1
    <3> QED
      BY <2>1, <2>2, <3>1, <3>2 DEF OwnExpect
  <2> QED
    BY <2>1, <2>2, <2>3, <2>4
<1>3. \A j \in 1 .. Len(f) : f[j].seq # NoSeq => f[j].seq <= last
  BY DEF NumbersFind
<1>4. \A j \in 1 .. Len(e) : e[j].aseq <= last
  BY DEF NumbersFind
<1> QED
  BY <1>2, <1>3, <1>4 DEF NumbersFind

\* ... in particular when requests are only unregistered.
LEMMA UnregisterNumbers ==
    ASSUME TypeOK, NEW t, NEW j \in 1 .. Len(Unregister(fmtRequests, t))
    PROVE  \E i \in 1 .. Len(fmtRequests) :
              Unregister(fmtRequests, t)[j] = fmtRequests[i]
BY UnregisterElements DEF TypeOK

\* What is left of the commands when one of them is answered, or dropped
LEMMA AnsweredNumbers ==
    ASSUME TypeOK, NEW m \in wire, NEW a, NEW n \in Answered(m, a)
    PROVE  \E x \in wire : n.seq = x.seq /\ n.token = x.token
                           /\ n.kind = x.kind /\ n.old = x.old
<1>1. CASE n \in wire
  BY <1>1
<1>2. CASE n = [m EXCEPT !.due = @ \ {a}]
  <2>1. m \in Sent
    BY DEF TypeOK
  <2>2. n.seq = m.seq /\ n.token = m.token /\ n.kind = m.kind /\ n.old = m.old
    BY <1>2, <2>1 DEF Sent
  <2> QED
    BY <2>2
<1> QED
  BY <1>1, <1>2 DEF Answered

\* The next number is larger than the last one, unless they wrap around.
LEMMA NextIsNew ==
    ASSUME TypeOK, ~(fmtSeq + 1 > SeqMax)
    PROVE  NextSeq = fmtSeq + 1 /\ fmtSeq \in Nat /\ NextSeq # NoSeq
BY ConstantsAssumption DEF TypeOK, NextSeq, NoSeq

\* What a handler expects under the next number is nobody else's.
LEMMA ExpectNumbers ==
    ASSUME TypeOK, NumberInv, NEW k \in Kind, RegisterExpect(Handler[k]), ~wrapped'
    PROVE  /\ ~wrapped /\ fmtSeq' = fmtSeq + 1 /\ NextSeq = fmtSeq + 1 /\ fmtSeq \in Nat
           /\ NextSeq # NoSeq
           /\ \A i \in 1 .. Len(expects') :
                 /\ expects'[i].aseq <= fmtSeq'
                 /\ expects'[i].aseq = NextSeq => expects'[i].cmd = Handler[k].cmd
           /\ \A m \in wire : ~m.old => OwnExpect(expects', m)
<1>1. ~wrapped /\ ~(fmtSeq + 1 > SeqMax) /\ fmtSeq' = NextSeq
  BY DEF RegisterExpect
<1>2. NextSeq = fmtSeq + 1 /\ fmtSeq \in Nat /\ NextSeq # NoSeq
  BY <1>1, NextIsNew
<1>3. \A i \in 1 .. Len(expects) : expects[i].aseq <= fmtSeq /\ expects[i].aseq \in Nat
  BY <1>1, NumberTypes DEF NumberInv, NumbersFind
<1>4. \A m \in wire : ~m.old => m.seq <= fmtSeq /\ m.seq \in Nat /\ OwnExpect(expects, m)
  BY <1>1, NumberTypes DEF NumberInv, NumbersFind
<1>5. CASE expects' = expects
  BY <1>1, <1>2, <1>3, <1>4, <1>5
<1>6. CASE expects' = Append(expects, [aseq |-> NextSeq, cmd |-> Handler[k].cmd,
                                       mode |-> Handler[k].expect])
  <2>1. expects \in Seq(Expect)
    BY DEF TypeOK
  <2>2. \A i \in 1 .. Len(expects') :
           \/ i \in 1 .. Len(expects) /\ expects'[i] = expects[i]
           \/ expects'[i].aseq = NextSeq /\ expects'[i].cmd = Handler[k].cmd
    BY <1>6, <2>1
  <2>3. \A i \in 1 .. Len(expects') :
           /\ expects'[i].aseq <= fmtSeq'
           /\ expects'[i].aseq = NextSeq => expects'[i].cmd = Handler[k].cmd
    BY <1>1, <1>2, <1>3, <2>2
  <2>4. \A m \in wire : ~m.old => OwnExpect(expects', m)
    BY <1>2, <1>4, <2>2 DEF OwnExpect
  <2> QED
    BY <1>1, <1>2, <2>3, <2>4
<1> QED
  BY <1>1, <1>5, <1>6 DEF RegisterExpect

\* Numbers are kept by every step: a new one is given to the request whose
\* handler sends, and a flush starts them again with nothing under way.
LEMMA NumberInvStep ==
    ASSUME TypeInv, QueueInv, NumberInv, [Next]_vars
    PROVE  NumberInv'
<1> USE DEF queueVars, seqVars, clientVars, loopVars, histVars
<1>a. TypeOK
  BY DEF TypeInv
<1>b. \A t : \A j \in 1 .. Len(Unregister(fmtRequests, t)) :
         \E i \in 1 .. Len(fmtRequests) : Unregister(fmtRequests, t)[j] = fmtRequests[i]
  BY <1>a, UnregisterNumbers
<1>c. ASSUME fmtSeq' = fmtSeq, wrapped' = wrapped,
             \A j \in 1 .. Len(fmtRequests') :
                \/ fmtRequests'[j].seq = NoSeq
                \/ \E i \in 1 .. Len(fmtRequests) : fmtRequests'[j] = fmtRequests[i],
             \A j \in 1 .. Len(expects') :
                \E i \in 1 .. Len(expects) : expects'[j] = expects[i],
             \A m \in wire' : \E n \in wire :
                m.seq = n.seq /\ m.token = n.token /\ m.kind = n.kind /\ m.old = n.old
      PROVE  NumberInv'
  BY <1>a, <1>c, NumbersKept DEF NumberInv
<1>d. CASE UNCHANGED <<fmtSeq, wrapped, fmtRequests, expects, wire>>
  BY <1>c, <1>d
<1>e. ASSUME fmtRequests' = <<>>, expects' = <<>>, \A m \in wire' : m.old
      PROVE  NumberInv'
  BY <1>e DEF NumberInv, NumbersFind
<1>f. ASSUME NEW t, Complete(t), UNCHANGED <<fmtSeq, wrapped, expects>>,
             \A m \in wire' : \E n \in wire :
                m.seq = n.seq /\ m.token = n.token /\ m.kind = n.kind /\ m.old = n.old
      PROVE  NumberInv'
  <2>1. fmtRequests' = Unregister(fmtRequests, t)
    BY <1>f DEF Complete
  <2> QED
    BY <1>b, <1>c, <1>f, <2>1
<1>1. ASSUME NEW t \in Token, NEW k \in Kind, OnRequest(t, k)
      PROVE  NumberInv'
  <2>1. UNCHANGED <<fmtSeq, wrapped, expects, wire>>
    BY <1>1 DEF OnRequest
  <2>2. CASE fmtRequests' = fmtRequests
    BY <1>d, <2>1, <2>2
  <2>3. CASE fmtRequests' = Append(Unregister(fmtRequests, t),
                                   [token |-> t, kind |-> k, seq |-> NoSeq])
    <3>1. Unregister(fmtRequests, t) \in Seq(FmtRequest)
      BY <1>a, UnregisterType DEF TypeOK
    <3>2. \A j \in 1 .. Len(fmtRequests') :
             \/ fmtRequests'[j].seq = NoSeq
             \/ /\ j \in 1 .. Len(Unregister(fmtRequests, t))
                /\ fmtRequests'[j] = Unregister(fmtRequests, t)[j]
      <4> DEFINE u == Unregister(fmtRequests, t)
      <4>1. u \in Seq(FmtRequest)
        BY <3>1
      <4>2. fmtRequests' = Append(u, [token |-> t, kind |-> k, seq |-> NoSeq])
        BY <2>3
      <4> HIDE DEF u
      <4>3. \A j \in 1 .. Len(fmtRequests') :
             \/ fmtRequests'[j].seq = NoSeq
             \/ j \in 1 .. Len(u) /\ fmtRequests'[j] = u[j]
        BY <4>1, <4>2
      <4> QED
        BY <4>3 DEF u
    <3>3. \A j \in 1 .. Len(fmtRequests') :
             \/ fmtRequests'[j].seq = NoSeq
             \/ \E i \in 1 .. Len(fmtRequests) : fmtRequests'[j] = fmtRequests[i]
      BY <1>b, <3>2
    <3> QED
      BY <1>c, <2>1, <3>3
  <2> QED
    BY <1>1, <2>2, <2>3 DEF OnRequest
<1>2. ASSUME NEW t \in Token, OnCancel(t)
      PROVE  NumberInv'
  <2>1. /\ fmtRequests' = Unregister(fmtRequests, t)
        /\ UNCHANGED <<fmtSeq, wrapped, expects, wire>>
    BY <1>2 DEF OnCancel
  <2> QED
    BY <1>b, <1>c, <2>1
<1>3. CASE DispatchAnswer
  <2>1. \E t : Complete(t)
    BY <1>3 DEF DispatchAnswer
  <2> QED
    BY <1>3, <1>f, <2>1 DEF DispatchAnswer
<1>4. CASE DispatchSend
  <2> DEFINE r == requests[Current]
             p == FirstOf(Positions(fmtRequests, r.token))
             c == [seq |-> NextSeq, token |-> r.token, kind |-> r.kind,
                   due |-> IF Handler[r.kind].resp THEN {"gen", "resp"} ELSE {"gen"},
                   old |-> FALSE]
  <2> SUFFICES ASSUME ~wrapped'
               PROVE  NumbersFind(fmtRequests', expects', wire', fmtSeq')
    BY DEF NumberInv
  <2>1. Current \in 1 .. Len(requests) /\ r \in Request
    BY <1>a, <1>4, CurrentType DEF DispatchSend
  <2>2. r.kind \in Kind
    BY <2>1 DEF Request
  <2>3. /\ AssignSeq(p) /\ RegisterExpect(Handler[r.kind]) /\ wire' = wire \cup {c}
        /\ fmt # "dead"
    BY <1>4 DEF DispatchSend
  <2> HIDE DEF c
  <2>4. c.seq = NextSeq /\ c.token = r.token /\ c.kind = r.kind
    BY DEF c
  <2>5. /\ ~wrapped /\ fmtSeq' = fmtSeq + 1 /\ NextSeq = fmtSeq + 1 /\ fmtSeq \in Nat
        /\ NextSeq # NoSeq
        /\ \A i \in 1 .. Len(expects') :
              /\ expects'[i].aseq <= fmtSeq'
              /\ expects'[i].aseq = NextSeq => expects'[i].cmd = Handler[r.kind].cmd
        /\ \A m \in wire : ~m.old => OwnExpect(expects', m)
    BY <1>a, <2>2, <2>3, ExpectNumbers
  <2>6. /\ \A i \in 1 .. Len(fmtRequests) :
              fmtRequests[i].seq # NoSeq => fmtRequests[i].seq <= fmtSeq
        /\ \A m \in wire : ~m.old => m.seq <= fmtSeq /\ OwnRequest(fmtRequests, m)
    BY <2>5 DEF NumberInv, NumbersFind
  <2>7. /\ \A i \in 1 .. Len(fmtRequests) : fmtRequests[i].seq \in Nat
        /\ \A m \in wire : m.seq \in Nat
    BY <1>a, NumberTypes
  \* The entry of the client's list that gets the number is that of the request.
  <2>8. /\ p \in 1 .. Len(fmtRequests) /\ fmtRequests[p].token = r.token
        /\ fmtRequests[p].kind = r.kind
    <3>1. /\ Len(fmtRequests) = Len(requests)
          /\ \A i \in 1 .. Len(requests) :
                /\ fmtRequests[i].token = requests[i].token
                /\ fmtRequests[i].kind = requests[i].kind
      BY <2>3 DEF QueueInv, Mirrored
    <3>2. Current \in Positions(fmtRequests, r.token)
      BY <2>1, <3>1 DEF Positions
    <3>3. p \in Positions(fmtRequests, r.token)
      <4>1. Positions(fmtRequests, r.token) \in SUBSET Nat
        BY DEF Positions
      <4> QED
        BY <3>2, <4>1, FirstOfIsLeast
    <3>4. p \in 1 .. Len(requests) /\ requests[p].token = r.token
      BY <3>1, <3>3 DEF Positions
    <3>5. p = Current
      BY <2>1, <3>4 DEF QueueInv, DistinctTokens
    <3> QED
      BY <2>1, <3>1, <3>5
  <2> HIDE DEF r, p
  <2>9. /\ Len(fmtRequests') = Len(fmtRequests)
        /\ \A i \in 1 .. Len(fmtRequests) :
              /\ fmtRequests'[i].token = fmtRequests[i].token
              /\ fmtRequests'[i].kind = fmtRequests[i].kind
              /\ fmtRequests'[i].seq = IF i = p THEN NextSeq ELSE fmtRequests[i].seq
    <3>1. fmtRequests' = [fmtRequests EXCEPT ![p].seq = NextSeq]
      BY <2>3 DEF AssignSeq
    <3>2. fmtRequests \in Seq(FmtRequest)
      BY <1>a DEF TypeOK
    <3>3. \A i \in 1 .. Len(fmtRequests) :
             fmtRequests'[i] = IF i = p THEN [fmtRequests[i] EXCEPT !.seq = NextSeq]
                               ELSE fmtRequests[i]
      BY <2>8, <3>1, <3>2
    <3>4. \A x \in FmtRequest : /\ [x EXCEPT !.seq = NextSeq].token = x.token
                                /\ [x EXCEPT !.seq = NextSeq].kind = x.kind
                                /\ [x EXCEPT !.seq = NextSeq].seq = NextSeq
      BY DEF FmtRequest
    <3>5. \A i \in 1 .. Len(fmtRequests) : fmtRequests[i] \in FmtRequest
      BY <3>2
    <3>6. Len(fmtRequests') = Len(fmtRequests)
      BY <3>1, <3>2
    <3> QED
      BY <3>3, <3>4, <3>5, <3>6
  <2>10. \A i \in 1 .. Len(fmtRequests') :
            fmtRequests'[i].seq # NoSeq => fmtRequests'[i].seq <= fmtSeq'
    BY <2>5, <2>6, <2>7, <2>9
  <2>11. ASSUME NEW m \in wire, ~m.old
         PROVE  m.seq <= fmtSeq' /\ OwnRequest(fmtRequests', m) /\ OwnExpect(expects', m)
    <3>1. m.seq <= fmtSeq /\ m.seq # NextSeq
      BY <2>5, <2>6, <2>7, <2>11
    <3>2. OwnRequest(fmtRequests', m)
      BY <2>6, <2>9, <2>11, <3>1 DEF OwnRequest
    <3> QED
      BY <2>5, <2>7, <2>11, <3>1, <3>2
  <2>12. c.seq <= fmtSeq' /\ OwnRequest(fmtRequests', c) /\ OwnExpect(expects', c)
    <3>1. \A i \in 1 .. Len(fmtRequests') : fmtRequests'[i].seq = NextSeq => i = p
      BY <2>5, <2>6, <2>7, <2>9
    <3>2. OwnRequest(fmtRequests', c)
      BY <2>4, <2>8, <2>9, <3>1 DEF OwnRequest
    <3>3. OwnExpect(expects', c)
      BY <2>4, <2>5 DEF OwnExpect
    <3> QED
      BY <2>4, <2>5, <3>2, <3>3
  <2> QED
    BY <2>3, <2>5, <2>10, <2>11, <2>12 DEF NumbersFind
<1>5. CASE DispatchSendFails
  <2> SUFFICES ASSUME ~wrapped'
               PROVE  NumbersFind(fmtRequests', expects', wire', fmtSeq')
    BY DEF NumberInv
  <2>1. requests[Current].kind \in Kind
    BY <1>a, <1>5, CurrentType DEF DispatchSendFails, Request
  <2>2. /\ RegisterExpect(Handler[requests[Current].kind])
        /\ fmtRequests' = Unregister(fmtRequests, requests[Current].token)
        /\ wire' = wire
    BY <1>5 DEF DispatchSendFails, Complete
  <2>3. /\ ~wrapped /\ fmtSeq' = fmtSeq + 1 /\ fmtSeq \in Nat
        /\ \A i \in 1 .. Len(expects') : expects'[i].aseq <= fmtSeq'
        /\ \A m \in wire : ~m.old => OwnExpect(expects', m)
    BY <1>a, <2>1, <2>2, ExpectNumbers
  <2>4. NumbersFind(fmtRequests', expects, wire, fmtSeq)
    BY <1>a, <1>b, <2>2, <2>3, NumbersKept DEF NumberInv
  <2>5. \A i \in 1 .. Len(fmtRequests') :
           fmtRequests'[i].seq # NoSeq => fmtRequests'[i].seq <= fmtSeq'
    <3>1. Unregister(fmtRequests, requests[Current].token) \in Seq(FmtRequest)
      BY <1>a, UnregisterType DEF TypeOK
    <3>2. \A i \in 1 .. Len(fmtRequests') : fmtRequests'[i].seq \in Nat
      <4>1. \A i \in 1 .. Len(fmtRequests) : fmtRequests[i].seq \in Nat
        BY <1>a, NumberTypes
      <4> QED
        BY <1>b, <2>2, <4>1
    <3> QED
      BY <2>3, <2>4, <3>2 DEF NumbersFind
  <2>6. \A m \in wire : ~m.old => m.seq <= fmtSeq'
    <3>1. \A m \in wire : m.seq \in Nat
      BY <1>a, NumberTypes
    <3> QED
      BY <2>3, <2>4, <3>1 DEF NumbersFind
  <2> QED
    BY <2>2, <2>3, <2>4, <2>5, <2>6 DEF NumbersFind
<1>6. ASSUME NEW m \in wire, NEW s \in RadioStates, RecvResp(m, s)
      PROVE  NumberInv'
  <2>1. UNCHANGED <<fmtSeq, wrapped, expects>> /\ wire' = Answered(m, "resp")
    BY <1>6 DEF RecvResp
  <2>2. \A n \in wire' : \E x \in wire :
           n.seq = x.seq /\ n.token = x.token /\ n.kind = x.kind /\ n.old = x.old
    BY <1>a, <2>1, AnsweredNumbers
  <2>3. UNCHANGED fmtRequests \/ Complete(FmtToken(m.seq))
    BY <1>6 DEF RecvResp
  <2> QED
    BY <1>c, <1>f, <2>1, <2>2, <2>3
<1>7. ASSUME NEW m \in wire, NEW ok \in BOOLEAN, RecvGen(m, ok)
      PROVE  NumberInv'
  <2>1. /\ UNCHANGED <<fmtSeq, wrapped>>
        /\ wire' = Answered(m, "gen") \/ wire' = wire \ {m}
    BY <1>7 DEF RecvGen
  <2>2. \A n \in wire' : \E x \in wire :
           n.seq = x.seq /\ n.token = x.token /\ n.kind = x.kind /\ n.old = x.old
    BY <1>a, <2>1, AnsweredNumbers
  <2>3. \A j \in 1 .. Len(expects') : \E i \in 1 .. Len(expects) : expects'[j] = expects[i]
    <3> DEFINE I == {i \in 1 .. Len(expects) : expects[i].aseq = m.seq}
    <3>1. expects' = expects \/ (I # {} /\ expects' = Delete(expects, FirstOf(I)))
      BY <1>7 DEF RecvGen
    <3>2. I # {} => FirstOf(I) \in 1 .. Len(expects)
      <4>1. I \in SUBSET Nat /\ I \subseteq 1 .. Len(expects)
        OBVIOUS
      <4> HIDE DEF I
      <4> QED
        BY <4>1, FirstOfIsLeast
    <3> HIDE DEF I
    <3>3. expects \in Seq(Expect)
      BY <1>a DEF TypeOK
    <3>4. \A x \in 1 .. Len(expects) :
             /\ Len(Delete(expects, x)) = Len(expects) - 1
             /\ \A j \in 1 .. Len(expects) - 1 :
                   /\ Delete(expects, x)[j] = expects[Shift(x, j)]
                   /\ Shift(x, j) \in 1 .. Len(expects)
      BY <3>3, DeleteSeq, DeleteElement
    <3>5. CASE expects' = expects
      BY <3>5
    <3>6. CASE I # {} /\ expects' = Delete(expects, FirstOf(I))
      BY <3>2, <3>4, <3>6
    <3> QED
      BY <3>1, <3>5, <3>6
  <2>4. \A j \in 1 .. Len(fmtRequests') :
           \E i \in 1 .. Len(fmtRequests) : fmtRequests'[j] = fmtRequests[i]
    <3>1. UNCHANGED fmtRequests \/ Complete(FmtToken(m.seq))
      BY <1>7 DEF RecvGen
    <3> QED
      BY <1>b, <3>1 DEF Complete
  <2> QED
    BY <1>c, <2>1, <2>2, <2>3, <2>4
<1>8. CASE FmtError
  <2>1. Outage
    BY <1>8 DEF FmtError
  <2>2. CASE radioState = UNAVAILABLE
    BY <1>d, <2>1, <2>2 DEF Outage
  <2>3. CASE radioState # UNAVAILABLE
    <3>1. /\ fmtRequests' = <<>> /\ expects' = <<>>
          /\ wire' = {[m EXCEPT !.old = TRUE] : m \in wire}
      BY <2>1, <2>3 DEF Outage, FmtFlush, FmtRequestFlush, ExpectFlush
    <3>2. \A m \in wire : [m EXCEPT !.old = TRUE].old
      BY <1>a DEF TypeOK, Sent
    <3> QED
      BY <1>e, <3>1, <3>2
  <2> QED
    BY <2>2, <2>3
<1>9. CASE FmtReopen \/ FmtRetryFails
  <2>1. UNCHANGED <<fmtSeq, wrapped, fmtRequests, expects>> /\ wire' \in {wire, {}}
    BY <1>9 DEF FmtReopen, FmtRetryFails
  <2> QED
    BY <1>c, <2>1
<1>10. CASE FmtGiveUp
  BY <1>e, <1>10 DEF FmtGiveUp, FmtFlush, FmtRequestFlush, ExpectFlush
<1>11. CASE OnRequestSignal \/ LoopWake \/ LoopLock \/ DispatchUnhandled \/ LoopDone \/ PwrUp
  BY <1>d, <1>11 DEF OnRequestSignal, LoopWake, LoopLock, DispatchUnhandled, LoopDone, PwrUp
<1>12. ASSUME NEW s \in RadioStates, SimStatus(s)
       PROVE  NumberInv'
  BY <1>d, <1>12 DEF SimStatus
<1>13. CASE UNCHANGED vars
  BY <1>d, <1>13 DEF vars
<1> QED
  BY <1>1, <1>2, <1>3, <1>4, <1>5, <1>6, <1>7, <1>8, <1>9, <1>10, <1>11, <1>12, <1>13
     DEF Next, LibrilNext, LoopNext, ModemNext, RetryNext

\* Initially no number was given.
LEMMA NumberInvInit == Init => NumberInv
BY DEF Init, NumberInv, NumbersFind

\* Until the numbers wrap around, an answer finds the request its command was
\* sent for, or none, and the expect of its command: whatever was cancelled,
\* issued again with the same token, failed or flushed in between
\* (ipc_fmt_request_token, ipc_gen_phone_res_expect_find_aseq).
THEOREM AnswersFindRequests == Spec => []AnswersFindTheirRequest
BY TypeInvInit, TypeInvStep, QueueInvInit, QueueInvStep, NumberInvInit, NumberInvStep,
   NumbersAnswer, PTL DEF Spec

-----------------------------------------------------------------------------
(* The queue implements RequestService.  Its requests, without status and  *)
(* number, are the service's queue; what is HANDLED is served.             *)

Entry == [token : Token, kind : Kind]
EntryOf(r) == [token |-> r.token, kind |-> r.kind]

\* The service's queue has an entry for each request.
LEMMA ServiceQueue ==
    ASSUME TypeOK
    PROVE  /\ serviceQueue \in Seq(Entry) /\ Len(serviceQueue) = Len(requests)
           /\ Len(requests) \in Nat
           /\ \A i \in 1 .. Len(requests) :
                 /\ requests[i] \in Request
                 /\ serviceQueue[i] = EntryOf(requests[i])
<1>1. requests \in Seq(Request)
  BY DEF TypeOK
<1>2. Len(requests) \in Nat /\ \A i \in 1 .. Len(requests) : requests[i] \in Request
  BY <1>1
<1>3. \A r \in Request : EntryOf(r) \in Entry
  BY DEF EntryOf, Entry, Request
<1>4. serviceQueue = [i \in 1 .. Len(requests) |-> EntryOf(requests[i])]
  BY DEF serviceQueue, EntryOf
<1>5. serviceQueue \in [1 .. Len(requests) -> Entry]
  BY <1>2, <1>3, <1>4
<1>6. \A n \in Nat : \A f : f \in [1 .. n -> Entry] => f \in Seq(Entry) /\ Len(f) = n
  <2> HIDE DEF Entry
  <2> QED
    OBVIOUS
<1>7. serviceQueue \in Seq(Entry) /\ Len(serviceQueue) = Len(requests)
  <2> HIDE DEF Entry, serviceQueue
  <2> QED
    BY <1>2, <1>5, <1>6
<1>8. \A i \in 1 .. Len(requests) : serviceQueue[i] = EntryOf(requests[i])
  <2> HIDE DEF EntryOf, serviceQueue
  <2> QED
    BY <1>4
<1> QED
  BY <1>2, <1>7, <1>8

LEMMA ServiceEntries ==
    ASSUME TypeOK
    PROVE  /\ Len(serviceQueue) = Len(requests) /\ Len(requests) \in Nat
           /\ \A i \in 1 .. Len(requests) :
                 /\ serviceQueue[i].token = requests[i].token
                 /\ serviceQueue[i].kind = requests[i].kind
<1>1. Len(serviceQueue) = Len(requests) /\ Len(requests) \in Nat
  BY ServiceQueue
<1>2. \A i \in 1 .. Len(requests) :
         serviceQueue[i] = [token |-> requests[i].token, kind |-> requests[i].kind]
  BY DEF serviceQueue
<1> HIDE DEF serviceQueue
<1>3. \A s, t, k : s = [token |-> t, kind |-> k] => s.token = t /\ s.kind = k
  OBVIOUS
<1>4. ASSUME NEW i \in 1 .. Len(requests)
      PROVE  /\ serviceQueue[i].token = requests[i].token
             /\ serviceQueue[i].kind = requests[i].kind
  <2>1. serviceQueue[i] = [token |-> requests[i].token, kind |-> requests[i].kind]
    BY <1>2
  <2> QED
    BY <1>3, <2>1, Zenon
<1> QED
  BY <1>1, <1>4

\* Taking an entry out of the service's queue is deleting it.
LEMMA WithoutIsDelete ==
    ASSUME NEW S, NEW q \in Seq(S), NEW i \in 1 .. Len(q)
    PROVE  Service!Without(q, i) = Delete(q, i)
<1> DEFINE a == SubSeq(q, 1, i - 1)
           b == SubSeq(q, i + 1, Len(q))
<1>1. a \in Seq(S) /\ Len(a) = i - 1 /\ \A j \in 1 .. i - 1 : a[j] = q[j]
  OBVIOUS
<1>2. b \in Seq(S) /\ Len(b) = Len(q) - i /\ \A j \in 1 .. Len(q) - i : b[j] = q[i + j]
  OBVIOUS
<1>3. Service!Without(q, i) = a \o b
  BY DEF Service!Without
<1> HIDE DEF a, b
<1>4. /\ a \o b \in Seq(S) /\ Len(a \o b) = Len(q) - 1
      /\ \A j \in 1 .. Len(q) - 1 : (a \o b)[j] = IF j < i THEN q[j] ELSE q[j + 1]
  <2>1. a \o b \in Seq(S) /\ Len(a \o b) = Len(q) - 1
    BY <1>1, <1>2
  <2>2. ASSUME NEW j \in 1 .. Len(q) - 1, j < i
        PROVE  (a \o b)[j] = q[j]
    <3>1. j \in 1 .. Len(a) /\ a[j] = q[j]
      BY <1>1, <2>2
    <3> QED
      BY <1>1, <1>2, <3>1
  <2>3. ASSUME NEW j \in 1 .. Len(q) - 1, ~(j < i)
        PROVE  (a \o b)[j] = q[j + 1]
    <3>1. /\ j - (i - 1) \in 1 .. Len(q) - i
          /\ i + (j - (i - 1)) = j + 1
      BY <2>3
    <3>2. b[j - (i - 1)] = q[j + 1]
      BY <1>2, <3>1
    <3>3. (a \o b)[j] = b[j - (i - 1)]
      BY <1>1, <1>2, <2>3
    <3> QED
      BY <3>2, <3>3
  <2> QED
    BY <2>1, <2>2, <2>3
<1>5. /\ Delete(q, i) \in Seq(S) /\ Len(Delete(q, i)) = Len(q) - 1
      /\ \A j \in 1 .. Len(q) - 1 : Delete(q, i)[j] = IF j < i THEN q[j] ELSE q[j + 1]
  BY DeleteSeq DEF Delete, Shift
<1>6. \A u, v \in Seq(S) :
         Len(u) = Len(v) /\ (\A j \in 1 .. Len(u) : u[j] = v[j]) => u = v
  OBVIOUS
<1>7. a \o b = Delete(q, i)
  BY <1>4, <1>5, <1>6
<1> QED
  BY <1>3, <1>7

\* A request that is removed leaves the service's queue and is not served.
LEMMA RemovedEntry ==
    ASSUME TypeOK, DistinctTokens(requests), NEW t \in Token,
           Positions(requests, t) # {}, requests' = Unregister(requests, t)
    PROVE  \E i \in 1 .. Len(serviceQueue) :
              /\ serviceQueue[i].token = t
              /\ serviceQueue' = Service!Without(serviceQueue, i)
              /\ serviceServed' = serviceServed \ {t}
<1> DEFINE i == FirstOf(Positions(requests, t))
<1>1. requests \in Seq(Request)
  BY DEF TypeOK
<1>2. /\ i \in 1 .. Len(requests) /\ requests[i].token = t
      /\ requests' = Delete(requests, i)
  BY <1>1, UnregisterCases
<1> HIDE DEF i
<1>3. /\ serviceQueue \in Seq(Entry) /\ Len(serviceQueue) = Len(requests)
      /\ Len(requests) \in Nat
      /\ \A j \in 1 .. Len(requests) : serviceQueue[j] = EntryOf(requests[j])
  BY ServiceQueue
<1>4. serviceQueue[i].token = t
  BY <1>2, ServiceEntries
<1>5. /\ Len(requests') = Len(requests) - 1
      /\ \A j \in 1 .. Len(requests) - 1 :
            requests'[j] = requests[Shift(i, j)] /\ Shift(i, j) \in 1 .. Len(requests)
            /\ Shift(i, j) # i
  <2>1. Len(Delete(requests, i)) = Len(requests) - 1
    BY <1>1, <1>2, DeleteSeq
  <2>2. \A j \in 1 .. Len(requests) - 1 :
           /\ Delete(requests, i)[j] = requests[Shift(i, j)]
           /\ Shift(i, j) \in 1 .. Len(requests) /\ Shift(i, j) # i
    BY <1>1, <1>2, DeleteElement
  <2> QED
    BY <1>2, <2>1, <2>2
<1>6. serviceQueue' = Delete(serviceQueue, i)
  <2>1. serviceQueue' = [j \in 1 .. Len(requests) - 1 |-> EntryOf(requests[Shift(i, j)])]
    BY <1>5 DEF serviceQueue, EntryOf
  <2>2. Delete(serviceQueue, i) =
           [j \in 1 .. Len(requests) - 1 |-> EntryOf(requests[Shift(i, j)])]
    BY <1>3, <1>5 DEF Delete
  <2> QED
    BY <2>1, <2>2
<1>7. serviceQueue' = Service!Without(serviceQueue, i)
  BY <1>2, <1>3, <1>6, WithoutIsDelete
<1>8. serviceServed' = serviceServed \ {t}
  <2>1. \A u : u \in serviceServed <=>
           \E k \in 1 .. Len(requests) : requests[k].status = "HANDLED" /\ u = requests[k].token
    BY DEF serviceServed, InStatus
  <2>2. \A u : u \in serviceServed' <=>
           \E j \in 1 .. Len(requests) - 1 :
              requests'[j].status = "HANDLED" /\ u = requests'[j].token
    BY <1>5 DEF serviceServed, InStatus
  <2>3. \A k \in 1 .. Len(requests) : k # i => requests[k].token # t
    BY <1>2 DEF DistinctTokens
  <2>4. \A k \in 1 .. Len(requests) : k # i =>
           \E j \in 1 .. Len(requests) - 1 : Shift(i, j) = k
    BY <1>2, <1>3, ShiftOnto
  <2>5. ASSUME NEW u \in serviceServed' PROVE u \in serviceServed \ {t}
    <3>1. PICK j \in 1 .. Len(requests) - 1 :
             requests'[j].status = "HANDLED" /\ u = requests'[j].token
      BY <2>2, <2>5
    <3>2. PICK k \in 1 .. Len(requests) : k = Shift(i, j) /\ requests'[j] = requests[k] /\ k # i
      BY <1>5
    <3> QED
      BY <2>1, <2>3, <3>1, <3>2
  <2>6. ASSUME NEW u \in serviceServed, u # t PROVE u \in serviceServed'
    <3>1. PICK k \in 1 .. Len(requests) : requests[k].status = "HANDLED" /\ u = requests[k].token
      BY <2>1
    <3>2. k # i
      BY <1>2, <2>6, <3>1
    <3>3. PICK j \in 1 .. Len(requests) - 1 : Shift(i, j) = k
      BY <2>4, <3>2
    <3> QED
      BY <1>5, <2>2, <3>1, <3>3
  <2> QED
    BY <2>5, <2>6
<1> QED
  BY <1>2, <1>3, <1>4, <1>7, <1>8

\* Completing a queued request is its one answer.
LEMMA CompletedIsAnswer ==
    ASSUME TypeOK, QueueInv, NEW t \in Token, Positions(requests, t) # {}, Complete(t)
    PROVE  Service!Next
<1>1. requests' = Unregister(requests, t) /\ owed' = [owed EXCEPT ![t] = @ - 1]
  BY ConstantsAssumption DEF Complete
<1>2. PICK i \in 1 .. Len(serviceQueue) :
         /\ serviceQueue[i].token = t
         /\ serviceQueue' = Service!Without(serviceQueue, i)
         /\ serviceServed' = serviceServed \ {t}
  BY <1>1, RemovedEntry DEF QueueInv
<1>3. serviceWaiting' = serviceWaiting \ {t}
  <2>1. owed[t] = 1 /\ owed \in [Token -> Int]
    BY DEF QueueInv, OneEach, TypeOK
  <2>2. \A u \in Token : owed'[u] = IF u = t THEN 0 ELSE owed[u]
    BY <1>1, <2>1
  <2> QED
    BY <2>2 DEF serviceWaiting
<1>4. Service!Answer(i)
  BY <1>2, <1>3 DEF Service!Answer
<1> QED
  BY <1>4 DEF Service!Next

\* Steps that neither add, remove nor serve a request are none of the service.
LEMMA SameService ==
    ASSUME TypeOK, SameTokens(requests, requests'), owed' = owed,
           \A i \in 1 .. Len(requests) :
              requests'[i].status = "HANDLED" <=> requests[i].status = "HANDLED"
    PROVE  UNCHANGED <<serviceWaiting, serviceQueue, serviceServed>>
<1>1. /\ Len(requests') = Len(requests)
      /\ \A i \in 1 .. Len(requests) : /\ requests'[i].token = requests[i].token
                                       /\ requests'[i].kind = requests[i].kind
  BY DEF SameTokens
<1>2. serviceQueue' = serviceQueue
  BY <1>1 DEF serviceQueue
<1>3. serviceServed' = serviceServed
  <2>1. InStatus("HANDLED")' = InStatus("HANDLED")
    BY <1>1 DEF InStatus
  <2>2. \A i \in InStatus("HANDLED") : requests'[i].token = requests[i].token
    BY <1>1 DEF InStatus
  <2> QED
    BY <2>1, <2>2 DEF serviceServed
<1>4. serviceWaiting' = serviceWaiting
  BY DEF serviceWaiting
<1> QED
  BY <1>2, <1>3, <1>4

\* Every step of the threads is a step of the service or none.
LEMMA ServiceStep ==
    ASSUME TypeInv, QueueInv, LoopInv', [Next]_vars
    PROVE  [Service!Next]_(Service!serviceVars)
<1> USE DEF queueVars, seqVars, clientVars, loopVars, histVars
<1>a. TypeOK
  BY DEF TypeInv
<1>b. DistinctTokens(requests) /\ OneEach(requests, owed, cancelled)
  BY DEF QueueInv
<1>c. CASE UNCHANGED <<requests, owed>>
  <2>1. UNCHANGED <<serviceWaiting, serviceQueue, serviceServed>>
    BY <1>c DEF serviceWaiting, serviceQueue, serviceServed, InStatus
  <2> QED
    BY <2>1 DEF Service!serviceVars
<1>d. ASSUME SameTokens(requests, requests'), owed' = owed,
             \A i \in 1 .. Len(requests) :
                requests'[i].status = "HANDLED" <=> requests[i].status = "HANDLED"
      PROVE  [Service!Next]_(Service!serviceVars)
  BY <1>a, <1>d, SameService DEF Service!serviceVars
<1>e. ASSUME NEW s, fmt # "dead", Complete(FmtToken(s))
      PROVE  [Service!Next]_(Service!serviceVars)
  <2>1. FmtToken(s) \in Token \cup {NoToken}
    BY <1>a, FmtTokenType
  <2>2. CASE FmtToken(s) = NoToken
    <3>1. requests' = Unregister(requests, NoToken) /\ owed' = owed
      BY <1>e, <2>2 DEF Complete
    <3>2. Positions(requests, NoToken) = {}
      <4>1. \A i \in 1 .. Len(requests) : requests[i] \in Request
        BY <1>a, ServiceQueue
      <4>2. \A r \in Request : r.token # NoToken
        BY ConstantsAssumption DEF Request
      <4> QED
        BY <4>1, <4>2 DEF Positions
    <3> QED
      BY <1>c, <3>1, <3>2 DEF Unregister
  <2>3. CASE FmtToken(s) # NoToken
    <3>1. SameTokens(requests, fmtRequests)
      BY <1>e DEF QueueInv, Mirrored, SameTokens
    <3>2. Positions(requests, FmtToken(s)) # {}
      BY <1>a, <2>3, <3>1, FmtTokenRegistered
    <3> QED
      BY <1>a, <1>e, <2>1, <2>3, <3>2, CompletedIsAnswer
  <2> QED
    BY <2>2, <2>3
<1>f. ASSUME Dispatching, Complete(requests[Current].token)
      PROVE  [Service!Next]_(Service!serviceVars)
  <2>1. Current \in 1 .. Len(requests) /\ requests[Current].token \in Token
    BY <1>a, <1>f, CurrentType DEF Request
  <2>2. Positions(requests, requests[Current].token) # {}
    BY <2>1 DEF Positions
  <2> QED
    BY <1>a, <1>f, <2>1, <2>2, CompletedIsAnswer
\* A request is issued: its token is not queued, as nobody waits for it.
<1>1. ASSUME NEW t \in Token, NEW k \in Kind, OnRequest(t, k)
      PROVE  [Service!Next]_(Service!serviceVars)
  <2> DEFINE r == [token |-> t, kind |-> k, status |-> "PENDING"]
  <2>1. /\ owed[t] = 0 /\ owed' = [owed EXCEPT ![t] = @ + 1]
        /\ requests' = Append(Unregister(requests, t), r)
    BY <1>1 DEF OnRequest
  <2>2. Positions(requests, t) = {}
    BY <1>b, <2>1 DEF OneEach
  <2>3. requests' = Append(requests, r)
    BY <2>1, <2>2 DEF Unregister
  <2>4. requests \in Seq(Request) /\ r \in Request
    BY <1>a DEF TypeOK, Request, Status
  <2> HIDE DEF r
  <2>5. /\ Len(requests') = Len(requests) + 1 /\ Len(requests) \in Nat
        /\ \A i \in 1 .. Len(requests) : requests'[i] = requests[i]
        /\ requests'[Len(requests) + 1] = r
    BY <2>3, <2>4
  <2>6. serviceQueue' = Append(serviceQueue, [token |-> t, kind |-> k])
    <3>1. EntryOf(r) = [token |-> t, kind |-> k] /\ EntryOf(r) \in Entry
      BY DEF EntryOf, r, Entry
    <3>2. /\ serviceQueue \in Seq(Entry) /\ Len(serviceQueue) = Len(requests)
          /\ \A i \in 1 .. Len(requests) : serviceQueue[i] = EntryOf(requests[i])
      BY <1>a, ServiceQueue
    <3>3. serviceQueue' = [i \in 1 .. Len(requests) + 1 |-> EntryOf(requests'[i])]
      BY <2>5 DEF serviceQueue, EntryOf
    <3> HIDE DEF serviceQueue, EntryOf, Entry
    <3>4. Append(serviceQueue, EntryOf(r)) =
             [i \in 1 .. Len(requests) + 1 |-> EntryOf(requests'[i])]
      BY <2>5, <3>1, <3>2
    <3> QED
      BY <3>1, <3>3, <3>4
  <2>7. serviceServed' = serviceServed
    <3>1. r.status # "HANDLED"
      BY DEF r
    <3>2. InStatus("HANDLED")' = InStatus("HANDLED")
      BY <2>5, <3>1 DEF InStatus
    <3>3. \A i \in InStatus("HANDLED") : requests'[i].token = requests[i].token
      BY <2>5 DEF InStatus
    <3> QED
      BY <3>2, <3>3 DEF serviceServed
  <2>8. t \notin serviceWaiting /\ serviceWaiting' = serviceWaiting \cup {t}
    <3>1. \A u \in Token : owed'[u] = IF u = t THEN 1 ELSE owed[u]
      BY <1>a, <2>1 DEF TypeOK
    <3> QED
      BY <2>1, <3>1 DEF serviceWaiting
  <2>9. Service!Issue(t, k)
    BY <2>6, <2>7, <2>8 DEF Service!Issue
  <2> QED
    BY <2>9 DEF Service!Next
<1>2. ASSUME NEW t \in Token, OnCancel(t)
      PROVE  [Service!Next]_(Service!serviceVars)
  <2>1. /\ Positions(requests, t) # {} /\ requests' = Unregister(requests, t)
        /\ owed' = owed
    BY <1>2 DEF OnCancel
  <2>2. PICK i \in 1 .. Len(serviceQueue) :
           /\ serviceQueue[i].token = t
           /\ serviceQueue' = Service!Without(serviceQueue, i)
           /\ serviceServed' = serviceServed \ {t}
    BY <1>a, <1>b, <2>1, RemovedEntry
  <2>3. Service!Cancel(i)
    BY <2>1, <2>2 DEF Service!Cancel, serviceWaiting
  <2> QED
    BY <2>3 DEF Service!Next
<1>3. CASE LoopLock
  <2>1. SameTokens(requests, requests') /\ owed' = owed
    BY <1>a, <1>3, LoopLockSame DEF LoopLock
  <2>2. \A i \in 1 .. Len(requests) :
           requests'[i].status = "HANDLED" <=> requests[i].status = "HANDLED"
    <3>1. \A i \in 1 .. Len(requests) : requests[i] \in Request
      BY <1>a, ServiceQueue
    <3>2. \A x \in Request : [x EXCEPT !.status = "PENDING"].status = "PENDING"
      BY DEF Request
    <3>3. CASE requests' = requests
      BY <3>3
    <3>4. CASE requests' = [i \in 1 .. Len(requests) |->
                  IF requests[i].status = "UNHANDLED"
                  THEN [requests[i] EXCEPT !.status = "PENDING"]
                  ELSE requests[i]]
      BY <3>1, <3>2, <3>4
    <3> QED
      BY <1>3, <3>3, <3>4 DEF LoopLock
  <2> QED
    BY <1>d, <2>1, <2>2
<1>4. CASE DispatchAnswer
  BY <1>4, <1>f DEF DispatchAnswer
<1>5. CASE DispatchUnhandled
  <2>1. /\ Current \in 1 .. Len(requests) /\ requests[Current].status = "PENDING"
    BY <1>a, <1>5, CurrentType DEF DispatchUnhandled
  <2>2. SetStatus(Current, "UNHANDLED") /\ owed' = owed
    BY <1>5 DEF DispatchUnhandled
  <2>3. /\ SameTokens(requests, requests') /\ requests'[Current].status = "UNHANDLED"
        /\ \A j \in 1 .. Len(requests) : j # Current => requests'[j] = requests[j]
    BY <1>a, <2>1, <2>2, SetStatusSame
  <2> QED
    BY <1>d, <2>1, <2>2, <2>3
\* The first request of its kind is served: another would be before it in the
\* order that LoopInv keeps.
<1>6. CASE DispatchSend
  <2>1. /\ Current \in 1 .. Len(requests) /\ requests[Current].status = "PENDING"
    BY <1>a, <1>6, CurrentType DEF DispatchSend
  <2>2. SetStatus(Current, "HANDLED") /\ owed' = owed
    BY <1>6 DEF DispatchSend
  <2>3. /\ SameTokens(requests, requests') /\ requests'[Current].status = "HANDLED"
        /\ \A j \in 1 .. Len(requests) : j # Current => requests'[j] = requests[j]
    BY <1>a, <2>1, <2>2, SetStatusSame
  <2> DEFINE c == Current
  <2> HIDE DEF c
  <2>4. /\ c \in 1 .. Len(requests) /\ requests[c].status = "PENDING"
        /\ requests'[c].status = "HANDLED"
        /\ \A j \in 1 .. Len(requests) : j # c => requests'[j] = requests[j]
    BY <2>1, <2>3 DEF c
  <2>5. /\ Len(requests') = Len(requests)
        /\ \A i \in 1 .. Len(requests) : /\ requests'[i].token = requests[i].token
                                         /\ requests'[i].kind = requests[i].kind
    BY <2>3 DEF SameTokens
  <2>6. /\ Len(serviceQueue) = Len(requests) /\ Len(requests) \in Nat
        /\ \A i \in 1 .. Len(requests) :
              /\ serviceQueue[i].token = requests[i].token
              /\ serviceQueue[i].kind = requests[i].kind
    BY <1>a, ServiceEntries
  <2>7. serviceQueue[c].token \notin serviceServed
    BY <1>b, <2>4, <2>6 DEF serviceServed, InStatus, DistinctTokens
  <2>8. ASSUME Handler[requests[c].kind].excl, NEW j \in 1 .. c - 1,
               requests[j].kind = requests[c].kind
        PROVE  FALSE
    <3>1. OrderIn(requests')
      BY DEF LoopInv, OrderIn
    <3>2. j \in 1 .. Len(requests') /\ c \in 1 .. Len(requests') /\ j < c
      BY <2>4, <2>5, <2>6
    <3> QED
      BY <2>4, <2>5, <2>8, <3>1, <3>2 DEF OrderIn
  <2>9. serviceQueue[c].kind \in {k \in Kind : Handler[k].excl} =>
           \A j \in 1 .. c - 1 : serviceQueue[j].kind # serviceQueue[c].kind
    BY <2>4, <2>6, <2>8
  <2>10. serviceServed' = serviceServed \cup {serviceQueue[c].token}
    <3>1. InStatus("HANDLED")' = InStatus("HANDLED") \cup {c}
      BY <2>4, <2>5 DEF InStatus
    <3>2. \A i \in InStatus("HANDLED") \cup {c} : requests'[i].token = requests[i].token
      BY <2>4, <2>5 DEF InStatus
    <3> QED
      BY <2>4, <2>6, <3>1, <3>2 DEF serviceServed
  <2>11. serviceQueue' = serviceQueue /\ serviceWaiting' = serviceWaiting
    BY <2>2, <2>5 DEF serviceQueue, serviceWaiting
  <2>12. Service!Serve(c)
    BY <2>7, <2>9, <2>10, <2>11 DEF Service!Serve
  <2> QED
    BY <2>4, <2>6, <2>12 DEF Service!Next
<1>7. CASE DispatchSendFails
  BY <1>7, <1>f DEF DispatchSendFails
<1>8. ASSUME NEW m \in wire, NEW s \in RadioStates, RecvResp(m, s)
      PROVE  [Service!Next]_(Service!serviceVars)
  <2>1. fmt # "dead" /\ (UNCHANGED <<requests, owed>> \/ Complete(FmtToken(m.seq)))
    BY <1>8 DEF RecvResp, Receiving
  <2> QED
    BY <1>c, <1>e, <2>1
<1>9. ASSUME NEW m \in wire, NEW ok \in BOOLEAN, RecvGen(m, ok)
      PROVE  [Service!Next]_(Service!serviceVars)
  <2>1. fmt # "dead" /\ (UNCHANGED <<requests, owed>> \/ Complete(FmtToken(m.seq)))
    BY <1>9 DEF RecvGen, Receiving
  <2> QED
    BY <1>c, <1>e, <2>1
\* An outage answers all requests: one answer is owed to each.
<1>10. CASE FmtError
  <2>1. Outage
    BY <1>10 DEF FmtError
  <2>2. CASE radioState = UNAVAILABLE
    BY <1>c, <2>1, <2>2 DEF Outage
  <2>3. CASE radioState # UNAVAILABLE
    <3>1. /\ requests' = <<>>
          /\ owed' = [t \in Token |-> owed[t] - Cardinality(Positions(requests, t))]
      BY <2>1, <2>3 DEF Outage
    <3>2. serviceQueue' = <<>>
      BY <3>1 DEF serviceQueue
    <3>3. serviceServed' = {}
      BY <3>1 DEF serviceServed, InStatus
    <3>4. \A t : t \in Service!Tokens(serviceQueue) <=> Positions(requests, t) # {}
      <4>1. /\ Len(serviceQueue) = Len(requests)
            /\ \A i \in 1 .. Len(requests) : serviceQueue[i].token = requests[i].token
        BY <1>a, ServiceEntries
      <4> QED
        BY <4>1 DEF Service!Tokens, Positions
    <3>5. ASSUME NEW t \in Token
          PROVE  owed'[t] > 0 <=> owed[t] > 0 /\ Positions(requests, t) = {}
      <4>1. owed'[t] = owed[t] - Cardinality(Positions(requests, t)) /\ owed[t] \in Int
        BY <1>a, <3>1 DEF TypeOK
      <4>2. CASE Positions(requests, t) = {}
        <5>1. Cardinality({}) = 0
          BY FS_EmptySet
        <5> QED
          BY <4>1, <4>2, <5>1
      <4>3. CASE Positions(requests, t) # {}
        <5>1. owed[t] = 1
          BY <1>b, <4>3 DEF OneEach
        <5>2. PICK i \in 1 .. Len(requests) : i \in Positions(requests, t)
          BY <4>3 DEF Positions
        <5>3. Positions(requests, t) = {i}
          BY <1>b, <5>2 DEF Positions, DistinctTokens
        <5>4. Cardinality(Positions(requests, t)) = 1
          BY <5>3, FS_Singleton
        <5> QED
          BY <4>1, <4>3, <5>1, <5>4
      <4> QED
        BY <4>2, <4>3
    <3>6. serviceWaiting' = serviceWaiting \ Service!Tokens(serviceQueue)
      BY <3>4, <3>5 DEF serviceWaiting
    <3>7. Service!Lose
      BY <3>2, <3>3, <3>6 DEF Service!Lose
    <3> QED
      BY <3>7 DEF Service!Next
  <2> QED
    BY <2>2, <2>3
<1>11. CASE OnRequestSignal \/ LoopWake \/ LoopDone \/ PwrUp \/ FmtReopen \/ FmtRetryFails
            \/ FmtGiveUp
  BY <1>c, <1>11
     DEF OnRequestSignal, LoopWake, LoopDone, PwrUp, FmtReopen, FmtRetryFails, FmtGiveUp
<1>12. ASSUME NEW s \in RadioStates, SimStatus(s)
       PROVE  [Service!Next]_(Service!serviceVars)
  BY <1>c, <1>12 DEF SimStatus
<1>13. CASE UNCHANGED vars
  BY <1>c, <1>13 DEF vars
<1> QED
  BY <1>1, <1>2, <1>3, <1>4, <1>5, <1>6, <1>7, <1>8, <1>9, <1>10, <1>11, <1>12, <1>13
     DEF Next, LibrilNext, LoopNext, ModemNext, RetryNext

\* Initially the service has no request either.
LEMMA ServiceInit == Init => Service!Init
BY DEF Init, Service!Init, serviceWaiting, serviceQueue, serviceServed, InStatus

\* The library implements RequestService: whichever of its threads takes a
\* step, ril_request_complete is called once for a queued request,
\* ril_radio_state_update answers all of them, and requests of an exclusive
\* kind are handed to the modem one at a time and in order.
THEOREM ServiceImplemented == Spec => ServiceSpec
BY TypeInvInit, TypeInvStep, QueueInvInit, QueueInvStep, LoopInvInit, LoopInvStep,
   ServiceInit, ServiceStep, PTL DEF Spec, ServiceSpec, Service!Spec

=============================================================================
