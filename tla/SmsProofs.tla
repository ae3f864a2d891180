------------------------------ MODULE SmsProofs ------------------------------
(***************************************************************************)
(* Proofs about Sms, for any requests, service centre, and bounds.         *)
(***************************************************************************)
EXTENDS Sms

-----------------------------------------------------------------------------
(* Type correctness.                                                       *)

TypeInv == TypeOK /\ QueueInv

Expect == [seq : Nat, cmd : {"SEND_MSG", "DELIVER_REPORT"}, mode : {"abort"}]

\* The requests of the messages can be numbered.
LEMMA RequestNumberable == Numberable(Request)
BY DEF Numberable, Request

\* The commands of the messages can become old.
LEMMA CommandAgeable == Ageable(Command)
BY DEF Ageable, Command

\* The commands are well typed, and so is what is expected of them.
LEMMA CommandTypes ==
    ASSUME TypeOK
    PROVE  /\ SvcCenterCommand \in Command
           /\ \A s \in Nat, m \in Message :
                 SendCommand(s, m) \in Command
                 /\ Expecting(SendCommand(s, m), "abort") \in Seq(Expect)
           /\ \A n \in Nat :
                 ReportCommand(n) \in Command
                 /\ Expecting(ReportCommand(n), "abort") \in Seq(Expect)
BY DEF TypeOK, SvcCenterCommand, SendCommand, ReportCommand, Command,
       Expecting, Expect

\* A handler that sends a command ...
LEMMA SendType ==
    ASSUME TypeInv, NEW i \in 1 .. Len(requests), NEW c \in Command,
           NEW E \in Seq(Expect), Send(i, c, E)
    PROVE  /\ QueueInv'
           /\ (radio \in RadioStates)' /\ (requests \in Seq(Request))'
           /\ (seq \in Nat)' /\ (expects \in Seq(Expect))'
           /\ (wire \in SUBSET Command)' /\ (asked \in [Token -> Kind \cup {"none"}])'
           /\ (answer \in [Token -> Errno \cup {"none"}])'
           /\ (outages \in Nat)' /\ (stale \in BOOLEAN)'
<1>1. requests \in Seq(Request) /\ QueueInv
  BY DEF TypeInv, TypeOK
<1>2. QueueInv' /\ requests' \in Seq(Request)
  BY <1>1, SendKeeps, RequestNumberable
<1>3. expects' \in Seq(Expect)
  BY DEF Send, TypeInv, TypeOK, Expect
<1> QED
  BY <1>2, <1>3 DEF Send, TypeInv, TypeOK

\* ... or answers its request at once ...
LEMMA CompleteNowType ==
    ASSUME TypeInv, None \notin Token, NEW i \in 1 .. Len(requests), NEW e \in Errno,
           CompleteNow(i, e)
    PROVE  /\ QueueInv'
           /\ (radio \in RadioStates)' /\ (requests \in Seq(Request))'
           /\ (seq \in Nat)' /\ (expects \in Seq(Expect))'
           /\ (wire \in SUBSET Command)' /\ (asked \in [Token -> Kind \cup {"none"}])'
           /\ (answer \in [Token -> Errno \cup {"none"}])'
           /\ (outages \in Nat)' /\ (stale \in BOOLEAN)'
<1>1. requests \in Seq(Request) /\ QueueInv
  BY DEF TypeInv, TypeOK
<1>2. QueueInv' /\ requests' \in Seq(Request)
  BY <1>1, CompleteNowKeeps
<1>3. answer' \in [Token -> Errno \cup {"none"}]
  BY DEF CompleteNow, CompleteToken, TypeInv, TypeOK
<1> QED
  BY <1>2, <1>3 DEF CompleteNow, TypeInv, TypeOK, Expect

\* ... an answer that completes a request ...
LEMMA CompleteFoundType ==
    ASSUME TypeInv, None \notin Token, NEW c \in wire, NEW e \in Errno,
           Receive(c, {}), UNCHANGED expects, CompleteToken(FindToken(c.seq), e)
    PROVE  /\ QueueInv'
           /\ (radio \in RadioStates)' /\ (requests \in Seq(Request))'
           /\ (seq \in Nat)' /\ (expects \in Seq(Expect))'
           /\ (wire \in SUBSET Command)' /\ (asked \in [Token -> Kind \cup {"none"}])'
           /\ (answer \in [Token -> Errno \cup {"none"}])'
           /\ (outages \in Nat)' /\ (stale \in BOOLEAN)'
<1>1. requests \in Seq(Request) /\ QueueInv
  BY DEF TypeInv, TypeOK
<1>2. asked' = asked /\ seq' = seq
  BY DEF Receive, ReceiveState
<1>3. QueueInv' /\ requests' \in Seq(Request)
  BY <1>1, <1>2, CompleteFoundKeeps
<1>4. answer' \in [Token -> Errno \cup {"none"}]
  BY DEF CompleteToken, TypeInv, TypeOK
<1>5. c.old \in BOOLEAN
  BY DEF TypeInv, TypeOK, Command
<1> QED
  BY <1>3, <1>4, <1>5 DEF Receive, ReceiveState, TypeInv, TypeOK, Expect

\* ... and an answer that sends another command.
LEMMA TypeStep ==
    ASSUME SmsAssumption, None \notin Token, TypeInv, [Next]_vars
    PROVE  TypeInv'
<1> USE DEF dataVars, histVars
<1>a. requests \in Seq(Request) /\ QueueInv
  BY DEF TypeInv, TypeOK
<1>1. ASSUME NEW t \in Token, NEW k \in Kind, NEW o \in OwnSmsc, OnRequest(t, k, o)
      PROVE  TypeInv'
  <2> DEFINE r == [token |-> t, kind |-> k, own |-> o, seq |-> 0]
  <2>1. r \in Request /\ r.token = t /\ r.kind # "none" /\ r.seq = 0
    BY DEF Request, SmsAssumption, Sending
  <2>2. Issue(t, r)
    BY <1>1 DEF OnRequest
  <2>3. QueueInv' /\ requests' \in Seq(Request)
    BY <1>a, <2>1, <2>2, IssueKeeps
  <2>4. asked' \in [Token -> Kind \cup {"none"}]
    BY <2>2 DEF Issue, TypeInv, TypeOK
  <2> QED
    BY <1>1, <2>2, <2>3, <2>4 DEF OnRequest, Issue, TypeInv, TypeOK
<1>2. ASSUME NEW i \in 1 .. Len(requests), SendOwnSmsc(i) PROVE TypeInv'
  <2>1. requests[i].token \in Token
    BY <1>a DEF QueueInv, Queued
  <2> DEFINE m == [smsc |-> requests[i].token, pdu |-> Smsc]
  <2>2. m \in Message
    BY <2>1 DEF Message
  <2>3. /\ Send(i, SendCommand(seq + 1, m), Expecting(SendCommand(seq + 1, m), "abort"))
        /\ sent' = sent \cup {m}
    BY <1>2 DEF SendOwnSmsc
  <2> HIDE DEF m
  <2>4. /\ SendCommand(seq + 1, m) \in Command
        /\ Expecting(SendCommand(seq + 1, m), "abort") \in Seq(Expect)
    <3>1. seq + 1 \in Nat /\ TypeOK
      BY DEF TypeInv, TypeOK
    <3> QED
      BY <2>2, <3>1, CommandTypes
  <2> QED
    BY <1>2, <2>2, <2>3, <2>4, SendType DEF SendOwnSmsc, TypeInv, TypeOK, Expect
<1>3. ASSUME NEW i \in 1 .. Len(requests), SendDefaultSmsc(i) PROVE TypeInv'
  <2>1. requests[i].token \in Token
    BY <1>a DEF QueueInv, Queued
  <2>2. SvcCenterCommand \in Command /\ <<>> \in Seq(Expect)
    BY CommandTypes DEF TypeInv
  <2> QED
    BY <1>3, <2>1, <2>2, SendType DEF SendDefaultSmsc, TypeInv, TypeOK, Expect
<1>4. ASSUME NEW i \in 1 .. Len(requests), SendFails(i) PROVE TypeInv'
  <2>1. "SMS_SEND_FAIL_RETRY" \in Errno
    BY DEF Errno
  <2> QED
    BY <1>4, <2>1, CompleteNowType DEF SendFails, TypeInv, TypeOK, Expect
<1>5. ASSUME NEW i \in 1 .. Len(requests), SmsAcknowledge(i) PROVE TypeInv'
  <2>1. /\ Send(i, ReportCommand(ackData), Expecting(ReportCommand(ackData), "abort"))
        /\ reports' = Append(reports, ackData)
    BY <1>5 DEF SmsAcknowledge
  <2>2. /\ ReportCommand(ackData) \in Command
        /\ Expecting(ReportCommand(ackData), "abort") \in Seq(Expect)
    BY CommandTypes DEF TypeInv, TypeOK
  <2>3. reports' \in Seq(Nat)
    BY <2>1 DEF TypeInv, TypeOK
  <2> QED
    BY <1>5, <2>1, <2>2, <2>3, SendType DEF SmsAcknowledge, TypeInv, TypeOK, Expect
<1>6. ASSUME NEW i \in 1 .. Len(requests), SmsAcknowledgeFails(i) PROVE TypeInv'
  <2>1. "GENERIC_FAILURE" \in Errno
    BY DEF Errno
  <2> QED
    BY <1>6, <2>1, CompleteNowType DEF SmsAcknowledgeFails, TypeInv, TypeOK, Expect
<1>7. ASSUME NEW c \in wire, SvcCenterAddr(c) PROVE TypeInv'
  <2> DEFINE m == [smsc |-> Smsc, pdu |-> sendData]
             d == SendCommand(c.seq, m)
  <2>1. m \in Message /\ c.seq \in Nat /\ c.old \in BOOLEAN
    BY <1>7 DEF SvcCenterAddr, Message, TypeInv, TypeOK, Command
  <2>2. d \in Command /\ Expecting(d, "abort") \in Seq(Expect)
    BY <2>1, CommandTypes DEF TypeInv
  <2>3. Receive(c, {d}) /\ expects' = expects \o Expecting(d, "abort")
        /\ sent' = sent \cup {m}
    BY <1>7 DEF SvcCenterAddr
  <2> HIDE DEF m, d
  <2>4. expects' \in Seq(Expect) /\ wire' \in SUBSET Command
    BY <2>2, <2>3 DEF TypeInv, TypeOK, Expect, Receive, ReceiveState
  <2>5. QueueInv'
    BY <1>7, <2>3, RadioKeeps DEF TypeInv, SvcCenterAddr, Receive, ReceiveState
  <2> QED
    BY <1>7, <2>1, <2>3, <2>4, <2>5
       DEF SvcCenterAddr, TypeInv, TypeOK, Expect, Receive, ReceiveState
<1>8. ASSUME NEW c \in wire, SvcCenterAddrFails(c) PROVE TypeInv'
  <2>1. "SMS_SEND_FAIL_RETRY" \in Errno
    BY DEF Errno
  <2> QED
    BY <1>8, <2>1, CompleteFoundType DEF SvcCenterAddrFails, TypeInv, TypeOK, Expect
<1>9. ASSUME NEW c \in wire, SendMsgResponse(c) \/ DeliverReport(c) PROVE TypeInv'
  <2>1. AckError \subseteq Errno
    BY DEF Errno, AckError
  <2>2. PICK e \in AckError : CompleteToken(FindToken(c.seq), e)
    BY <1>9 DEF SendMsgResponse, DeliverReport
  <2> QED
    BY <1>9, <2>1, <2>2, CompleteFoundType
       DEF SendMsgResponse, DeliverReport, TypeInv, TypeOK, Expect
<1>10. ASSUME NEW c \in wire, Refused(c) PROVE TypeInv'
  <2>1. GenResponse(c, FALSE) /\ expects \in Seq(Expect)
    BY <1>10 DEF Refused, TypeInv, TypeOK, Expect
  <2>2. QueueInv' /\ requests' \in Seq(Request) /\ expects' \in Seq(Expect)
    BY <1>a, <2>1, GenResponseKeeps
  <2>3. answer' \in [Token -> Errno \cup {"none"}]
    BY <2>1 DEF GenResponse, CompleteToken, TypeInv, TypeOK, Errno
  <2>4. c.old \in BOOLEAN
    BY DEF TypeInv, TypeOK, Command
  <2> QED
    BY <1>10, <2>1, <2>2, <2>3, <2>4
       DEF Refused, GenResponse, Receive, ReceiveState, TypeInv, TypeOK, Expect
<1>11. CASE IncomingMsg
  <2>1. QueueInv'
    BY <1>11, RadioKeeps DEF IncomingMsg, TypeInv, queueVars
  <2> QED
    BY <1>11, <2>1 DEF IncomingMsg, TypeInv, TypeOK, queueVars
<1>12. CASE Outage
  <2>1. QueueOutage /\ wire \subseteq Command
    BY <1>12 DEF Outage, TypeInv, TypeOK
  <2>2. /\ QueueInv' /\ requests' = <<>> /\ seq' = 0 /\ expects' = <<>>
        /\ wire' \subseteq Command
    BY <1>a, <2>1, OutageKeeps, CommandAgeable
  <2>3. answer' \in [Token -> Errno \cup {"none"}]
    BY <2>1 DEF QueueOutage, TypeInv, TypeOK, Errno
  <2> QED
    BY <1>12, <2>2, <2>3 DEF Outage, QueueOutage, TypeInv, TypeOK, RadioStates
<1>13. CASE RadioChange
  <2>1. QueueInv'
    BY <1>13, RadioKeeps DEF RadioChange, RadioState, TypeInv
  <2> QED
    BY <1>13, <2>1 DEF RadioChange, RadioState, TypeInv, TypeOK
<1>14. CASE UNCHANGED vars
  <2>1. QueueInv'
    BY <1>14, RadioKeeps DEF vars, TypeInv, queueVars
  <2> QED
    BY <1>14, <2>1 DEF vars, TypeInv, TypeOK, queueVars
<1> QED
  BY <1>1, <1>2, <1>3, <1>4, <1>5, <1>6, <1>7, <1>8, <1>9, <1>10, <1>11, <1>12,
     <1>13, <1>14 DEF Next

\* Initially the types are right.
LEMMA TypeInit == Init => TypeInv
<1>1. ASSUME Init PROVE QueueInv
  BY <1>1, QueueInitInv DEF Init
<1>2. ASSUME Init PROVE TypeOK
  <2>1. <<>> \in Seq(Request) /\ <<>> \in Seq(Nat) /\ <<>> \in Seq(Expect)
    OBVIOUS
  <2>2. /\ [t \in Token |-> "none"] \in [Token -> Kind \cup {"none"}]
        /\ [t \in Token |-> "none"] \in [Token -> Errno \cup {"none"}]
    OBVIOUS
  <2> QED
    BY <1>2, <2>1, <2>2 DEF Init, QueueInit, TypeOK, RadioStates, Expect
<1> QED
  BY <1>1, <1>2 DEF TypeInv
-----------------------------------------------------------------------------
(* Acknowledgements: the identifier that is stored is that of the last     *)
(* message, and none of it or of a later one was acknowledged.             *)

ReportsInv ==
    /\ ReportedOnce
    /\ ackData <= shown
    /\ \A i \in 1 .. Len(reports) : reports[i] <= shown
    /\ ackData # 0 => \A i \in 1 .. Len(reports) : reports[i] < ackData

\* Initially no message came in and none was acknowledged.
LEMMA ReportsInit == Init => ReportsInv
BY DEF Init, ReportsInv, ReportedOnce

\* A message gets the next identifier, and its acknowledgement takes it out.
LEMMA ReportsStep ==
    ASSUME TypeInv, ReportsInv, [Next]_vars
    PROVE  ReportsInv'
<1> USE DEF dataVars, histVars
<1>1. /\ ackData \in Nat /\ shown \in Nat /\ reports \in Seq(Nat)
  BY DEF TypeInv, TypeOK
<1>2. CASE UNCHANGED <<ackData, shown, reports>>
  BY <1>2 DEF ReportsInv, ReportedOnce
<1>3. CASE IncomingMsg
  <2>1. shown' = shown + 1 /\ ackData' = shown + 1 /\ reports' = reports
    BY <1>3 DEF IncomingMsg
  <2> QED
    BY <1>1, <2>1 DEF ReportsInv, ReportedOnce
<1>4. ASSUME NEW i \in 1 .. Len(requests), SmsAcknowledge(i) PROVE ReportsInv'
  <2>1. /\ shown' = shown /\ ackData' = 0 /\ ackData # 0
        /\ reports' = Append(reports, ackData)
    BY <1>4 DEF SmsAcknowledge
  <2> QED
    BY <1>1, <2>1 DEF ReportsInv, ReportedOnce
<1>5. CASE ackData' \in {ackData, 0} /\ shown' = shown /\ reports' = reports
  BY <1>1, <1>5 DEF ReportsInv, ReportedOnce
<1>6. ASSUME NEW i \in 1 .. Len(requests), SmsAcknowledgeFails(i) PROVE ReportsInv'
  BY <1>5, <1>6 DEF SmsAcknowledgeFails
<1>7. CASE Outage
  BY <1>5, <1>7 DEF Outage
<1> QED
  BY <1>2, <1>3, <1>4, <1>6, <1>7
     DEF Next, vars, OnRequest, SendOwnSmsc, SendDefaultSmsc, SendFails,
         SvcCenterAddr, SvcCenterAddrFails, SendMsgResponse, DeliverReport, Refused,
         RadioChange

-----------------------------------------------------------------------------
(* Stored PDUs.                                                            *)

HandedOver(t) == \E m \in sent : m.pdu = t \/ m.smsc = t

\* One request at a time is on its way.
OneSent ==
    \A i, j \in 1 .. Len(requests) :
        (/\ requests[i].kind = "SEND_SMS" /\ Handled(requests[i])
         /\ requests[j].kind = "SEND_SMS" /\ Handled(requests[j]))
            => requests[i].token = requests[j].token

\* What each command tells of the request that waits for it: whether its
\* message was handed over, and that its PDU is the one stored.
Matched ==
    \A c \in wire : ~c.old =>
        /\ c.seq \in 1 .. seq
        /\ c.cmd = "SVC_CENTER_ADDR" =>
              /\ \E i \in 1 .. Len(requests) : requests[i].seq = c.seq
              /\ \A i \in 1 .. Len(requests) : requests[i].seq = c.seq =>
                    /\ requests[i].kind = "SEND_SMS"
                    /\ ~HandedOver(requests[i].token)
                    /\ sendData = requests[i].token
        /\ c.cmd = "SEND_MSG" =>
              \A i \in 1 .. Len(requests) : requests[i].seq = c.seq =>
                 /\ requests[i].kind = "SEND_SMS"
                 /\ HandedOver(requests[i].token)
        /\ c.cmd = "DELIVER_REPORT" =>
              \A i \in 1 .. Len(requests) : requests[i].seq = c.seq =>
                 requests[i].kind = "SMS_ACKNOWLEDGE"

\* A message is handed over after it was issued and before it is answered ...
HandedInTime ==
    /\ \A t \in Token : asked[t] = "none" => ~HandedOver(t)
    /\ \A i \in 1 .. Len(requests) :
          ~Handled(requests[i]) => ~HandedOver(requests[i].token)

\* ... and the answer says so.
AnsweredRightly ==
    \A t \in Token :
        /\ asked[t] \in Sending /\ answer[t] = "SUCCESS" => HandedOver(t)
        /\ answer[t] = "SMS_SEND_FAIL_RETRY" => ~HandedOver(t)

MatchInv == OneSent /\ (~stale => Matched /\ HandedInTime /\ AnsweredRightly)

\* RIL_REQUEST_SEND_SMS_EXPECT_MORE is not used: its messages share the stored
\* PDU with those of RIL_REQUEST_SEND_SMS but do not wait for them.
OneKind == "SEND_SMS_EXPECT_MORE" \notin Kind

\* What is known of each queued request then.
LEMMA RequestKinds ==
    ASSUME SmsAssumption, OneKind, TypeInv, NEW i \in 1 .. Len(requests)
    PROVE  /\ requests[i].kind \in {"SEND_SMS", "SMS_ACKNOWLEDGE"}
           /\ requests[i].kind \in Sending => requests[i].kind = "SEND_SMS"
           /\ requests[i].token \in Token /\ requests[i].token # Smsc
           /\ asked[requests[i].token] = requests[i].kind
           /\ answer[requests[i].token] = "none"
           /\ requests[i].seq \in Nat /\ requests[i].seq <= seq
<1>1. requests[i] \in Request /\ Queued(requests[i])
  BY DEF TypeInv, TypeOK, QueueInv
<1> QED
  BY <1>1 DEF Request, Queued, SmsAssumption, OneKind, Sending

\* Only one question for the service centre is open.
LEMMA OneQuestion ==
    ASSUME SmsAssumption, OneKind, TypeInv, OneSent, Matched,
           NEW c \in wire, NEW d \in wire, ~c.old, ~d.old,
           c.cmd = "SVC_CENTER_ADDR", d.cmd = "SVC_CENTER_ADDR"
    PROVE  c = d
<1>1. PICK i \in 1 .. Len(requests) : requests[i].seq = c.seq
  BY DEF Matched
<1>2. PICK j \in 1 .. Len(requests) : requests[j].seq = d.seq
  BY DEF Matched
<1>3. /\ requests[i].kind = "SEND_SMS" /\ requests[j].kind = "SEND_SMS"
      /\ requests[i].seq # 0 /\ requests[j].seq # 0
  BY <1>1, <1>2 DEF Matched
<1>4. i = j
  BY <1>3 DEF OneSent, Handled, TypeInv, QueueInv, DistinctTokens
<1>5. c.seq = d.seq
  BY <1>1, <1>2, <1>4
<1>6. c \in Command /\ d \in Command
  BY DEF TypeInv, TypeOK
<1>7. c \in [cmd : {"SVC_CENTER_ADDR"}, seq : Nat, old : BOOLEAN]
      /\ d \in [cmd : {"SVC_CENTER_ADDR"}, seq : Nat, old : BOOLEAN]
  BY <1>6 DEF Command
<1>8. c.old = FALSE /\ d.old = FALSE
  BY <1>7
<1> QED
  BY <1>5, <1>7, <1>8

\* None is open when the handler of a message runs.
LEMMA NoQuestion ==
    ASSUME TypeInv, Matched, NEW i \in 1 .. Len(requests), Dispatched(i, Ready),
           requests[i].kind \in Sending, NEW c \in wire, ~c.old
    PROVE  c.cmd # "SVC_CENTER_ADDR"
<1>1. ~Busy("SEND_SMS")
  BY DEF Dispatched, Ready, CanRun
<1> QED
  BY <1>1 DEF Busy, Handled, Matched

\* Requests that leave the queue take no command along that is not theirs.
LEMMA MatchKept ==
    ASSUME TypeInv, Matched, HandedInTime,
           UNCHANGED <<asked, sent, seq>>, wire' \subseteq wire,
           \A j \in 1 .. Len(requests') :
              \E k \in 1 .. Len(requests) : requests'[j] = requests[k],
           \A c \in wire' : ~c.old /\ c.cmd = "SVC_CENTER_ADDR" =>
              /\ sendData' = sendData
              /\ \A k \in 1 .. Len(requests) : requests[k].seq = c.seq =>
                    \E j \in 1 .. Len(requests') : requests'[j] = requests[k]
    PROVE  Matched' /\ HandedInTime'
<1>1. \A t : HandedOver(t)' <=> HandedOver(t)
  BY DEF HandedOver
<1>2. HandedInTime'
  BY <1>1 DEF HandedInTime, Handled
<1>3. ASSUME NEW c \in wire', ~c.old
      PROVE  /\ c.seq \in 1 .. seq'
             /\ c.cmd = "SVC_CENTER_ADDR" =>
                  /\ \E i \in 1 .. Len(requests') : requests'[i].seq = c.seq
                  /\ \A i \in 1 .. Len(requests') : requests'[i].seq = c.seq =>
                        /\ requests'[i].kind = "SEND_SMS"
                        /\ ~HandedOver(requests[i].token)'
                        /\ sendData' = requests'[i].token
             /\ c.cmd = "SEND_MSG" =>
                  \A i \in 1 .. Len(requests') : requests'[i].seq = c.seq =>
                     /\ requests'[i].kind = "SEND_SMS"
                     /\ HandedOver(requests[i].token)'
             /\ c.cmd = "DELIVER_REPORT" =>
                  \A i \in 1 .. Len(requests') : requests'[i].seq = c.seq =>
                     requests'[i].kind = "SMS_ACKNOWLEDGE"
  <2>1. c \in wire
    BY <1>3
  <2>2. c.seq \in 1 .. seq'
    BY <1>3, <2>1 DEF Matched
  <2>3. ASSUME c.cmd = "SVC_CENTER_ADDR"
        PROVE  /\ \E i \in 1 .. Len(requests') : requests'[i].seq = c.seq
               /\ \A i \in 1 .. Len(requests') : requests'[i].seq = c.seq =>
                     /\ requests'[i].kind = "SEND_SMS"
                     /\ ~HandedOver(requests[i].token)'
                     /\ sendData' = requests'[i].token
    <3>1. PICK k \in 1 .. Len(requests) : requests[k].seq = c.seq
      BY <1>3, <2>1, <2>3 DEF Matched
    <3>2. \E j \in 1 .. Len(requests') : requests'[j] = requests[k]
      BY <1>3, <2>3, <3>1
    <3>3. sendData' = sendData
      BY <1>3, <2>3
    <3>4. ASSUME NEW i \in 1 .. Len(requests'), requests'[i].seq = c.seq
          PROVE  /\ requests'[i].kind = "SEND_SMS"
                 /\ ~HandedOver(requests[i].token)'
                 /\ sendData = requests'[i].token
      <4>1. PICK n \in 1 .. Len(requests) : requests'[i] = requests[n]
        OBVIOUS
      <4>2. /\ requests[n].kind = "SEND_SMS"
            /\ ~HandedOver(requests[n].token)
            /\ sendData = requests[n].token
        BY <1>3, <2>1, <2>3, <3>4, <4>1 DEF Matched
      <4> QED
        BY <4>1, <4>2 DEF HandedOver
    <3> QED
      BY <3>1, <3>2, <3>3, <3>4
  <2> QED
    BY <1>1, <1>3, <2>1, <2>2, <2>3 DEF Matched
<1>4. Matched'
  BY <1>3 DEF Matched
<1> QED
  BY <1>2, <1>4

\* Initially no message is queued, sent, or answered.
LEMMA MatchInit == Init => MatchInv
BY DEF Init, QueueInit, MatchInv, OneSent, Matched, HandedInTime, AnsweredRightly,
       HandedOver

\* The requests that are sent are one at a time.
LEMMA OneSentStep ==
    ASSUME SmsAssumption, OneKind, None \notin Token, TypeInv, OneSent, Next
    PROVE  OneSent'
<1> USE DEF dataVars, histVars
<1>a. requests \in Seq(Request) /\ QueueInv
  BY DEF TypeInv, TypeOK
<1>1. CASE \A j \in 1 .. Len(requests') :
              \E k \in 1 .. Len(requests) : requests'[j] = requests[k]
  <2> SUFFICES ASSUME NEW i \in 1 .. Len(requests'), NEW j \in 1 .. Len(requests'),
                      requests'[i].kind = "SEND_SMS", Handled(requests'[i]),
                      requests'[j].kind = "SEND_SMS", Handled(requests'[j])
               PROVE  requests'[i].token = requests'[j].token
    BY DEF OneSent, Handled
  <2>1. PICK k \in 1 .. Len(requests) : requests'[i] = requests[k]
    BY <1>1
  <2>2. PICK l \in 1 .. Len(requests) : requests'[j] = requests[l]
    BY <1>1
  <2>3. requests[k].token = requests[l].token
    BY <2>1, <2>2 DEF OneSent
  <2> QED
    BY <2>1, <2>2, <2>3
<1>2. ASSUME NEW t \in Token, NEW k \in Kind, NEW o \in OwnSmsc, OnRequest(t, k, o)
      PROVE  OneSent'
  <2>1. requests' = Append(requests, [token |-> t, kind |-> k, own |-> o, seq |-> 0])
    BY <1>2 DEF OnRequest, Issue
  <2> QED
    BY <1>a, <2>1 DEF OneSent, Handled
<1>3. ASSUME NEW i \in 1 .. Len(requests), NEW c, NEW E, Dispatched(i, Ready),
             Send(i, c, E)
      PROVE  OneSent'
  <2>1. /\ Len(requests') = Len(requests)
        /\ \A j \in 1 .. Len(requests) :
              /\ requests'[j].kind = requests[j].kind
              /\ j # i => requests'[j] = requests[j]
    BY <1>a, <1>3, SendKeeps, RequestNumberable
  <2>2. requests'[i].kind = requests[i].kind
    BY <2>1
  <2>3. requests[i].kind = "SEND_SMS" =>
           \A j \in 1 .. Len(requests) :
              ~(requests[j].kind = "SEND_SMS" /\ Handled(requests[j]))
    BY <1>3 DEF Dispatched, Ready, CanRun, Busy, Sending
  <2>4. \A j \in 1 .. Len(requests) : j # i => requests'[j] = requests[j]
    BY <2>1
  <2>5. ASSUME NEW j \in 1 .. Len(requests), NEW k \in 1 .. Len(requests),
               requests'[j].kind = "SEND_SMS", Handled(requests'[j]),
               requests'[k].kind = "SEND_SMS", Handled(requests'[k])
        PROVE  requests'[j].token = requests'[k].token
    <3>1. CASE j = i /\ k = i
      BY <3>1
    <3>2. CASE j # i /\ k # i
      BY <2>4, <2>5, <3>2 DEF OneSent
    <3>3. CASE j = i /\ k # i
      BY <2>2, <2>3, <2>4, <2>5, <3>3
    <3>4. CASE j # i /\ k = i
      BY <2>2, <2>3, <2>4, <2>5, <3>4
    <3> QED
      BY <3>1, <3>2, <3>3, <3>4
  <2> QED
    BY <2>1, <2>5 DEF OneSent, Handled
<1>4. ASSUME NEW i \in 1 .. Len(requests), NEW e, CompleteNow(i, e)
      PROVE  OneSent'
  BY <1>a, <1>1, <1>4, CompleteNowKeeps
<1>5. ASSUME NEW c \in wire, NEW e, Receive(c, {}), CompleteToken(FindToken(c.seq), e)
      PROVE  OneSent'
  <2>1. asked' = asked /\ seq' = seq
    BY <1>5 DEF Receive, ReceiveState
  <2> QED
    BY <1>a, <1>1, <1>5, <2>1, CompleteFoundKeeps
<1>6. CASE requests' = requests \/ requests' = <<>>
  BY <1>1, <1>6
<1>7. ASSUME NEW c \in wire, Refused(c) PROVE OneSent'
  <2>1. GenResponse(c, FALSE) /\ expects \in Seq(Expect)
    BY <1>7 DEF Refused, TypeInv, TypeOK, Expect
  <2> QED
    BY <1>a, <1>1, <2>1, GenResponseKeeps
<1>8. ASSUME NEW i \in 1 .. Len(requests), SendOwnSmsc(i) PROVE OneSent'
  BY <1>3, <1>8 DEF SendOwnSmsc
<1>9. ASSUME NEW i \in 1 .. Len(requests), SendDefaultSmsc(i) PROVE OneSent'
  BY <1>3, <1>9 DEF SendDefaultSmsc
<1>10. ASSUME NEW i \in 1 .. Len(requests), SmsAcknowledge(i) PROVE OneSent'
  BY <1>3, <1>10 DEF SmsAcknowledge
<1>11. ASSUME NEW i \in 1 .. Len(requests), SendFails(i) \/ SmsAcknowledgeFails(i)
       PROVE  OneSent'
  BY <1>4, <1>11 DEF SendFails, SmsAcknowledgeFails
<1>12. ASSUME NEW c \in wire,
              SvcCenterAddrFails(c) \/ SendMsgResponse(c) \/ DeliverReport(c)
       PROVE  OneSent'
  BY <1>5, <1>12 DEF SvcCenterAddrFails, SendMsgResponse, DeliverReport
<1> QED
  BY <1>2, <1>6, <1>7, <1>8, <1>9, <1>10, <1>11, <1>12
     DEF Next, SvcCenterAddr, IncomingMsg, Outage, QueueOutage, RadioChange,
         RadioState, queueVars

\* A command that is sent for request i, and what it tells of it.
LEMMA MatchSent ==
    ASSUME SmsAssumption, OneKind, TypeInv, Matched, HandedInTime, AnsweredRightly,
           NEW i \in 1 .. Len(requests), ~Handled(requests[i]),
           NEW c \in Command, ~c.old, c.seq = seq + 1, NEW E, Send(i, c, E),
           NEW H, sent' = sent \cup H,
           \A t \in Token : (\E m \in H : m.pdu = t \/ m.smsc = t)
                              => t = requests[i].token,
           \A d \in wire : ~d.old => d.cmd # "SVC_CENTER_ADDR" \/ sendData' = sendData,
           c.cmd = "SVC_CENTER_ADDR" =>
              /\ requests[i].kind = "SEND_SMS" /\ H = {}
              /\ sendData' = requests[i].token,
           c.cmd = "SEND_MSG" =>
              /\ requests[i].kind = "SEND_SMS"
              /\ \E m \in H : m.pdu = requests[i].token \/ m.smsc = requests[i].token,
           c.cmd = "DELIVER_REPORT" => requests[i].kind = "SMS_ACKNOWLEDGE"
    PROVE  Matched' /\ HandedInTime' /\ AnsweredRightly'
<1>1. requests \in Seq(Request) /\ QueueInv
  BY DEF TypeInv, TypeOK
<1>2. /\ Len(requests') = Len(requests)
      /\ \A j \in 1 .. Len(requests) :
            /\ requests'[j].token = requests[j].token
            /\ requests'[j].kind = requests[j].kind
            /\ requests'[j].seq = IF j = i THEN seq + 1 ELSE requests[j].seq
  BY <1>1, SendKeeps, RequestNumberable
<1>3. /\ seq' = seq + 1 /\ seq \in Nat /\ asked' = asked /\ answer' = answer
      /\ wire' = wire \cup {c}
  BY <1>1 DEF Send, QueueInv
<1>4. \A t \in Token : /\ HandedOver(t)' => HandedOver(t) \/ t = requests[i].token
                       /\ HandedOver(t) => HandedOver(t)'
  BY DEF HandedOver
<1>5. \A j \in 1 .. Len(requests) :
         /\ requests[j].token \in Token /\ asked[requests[j].token] # "none"
         /\ answer[requests[j].token] = "none"
         /\ requests[j].seq \in Nat /\ requests[j].seq <= seq
         /\ requests[j].token = requests[i].token => j = i
  BY <1>1, RequestKinds DEF QueueInv, Queued, DistinctTokens
<1>6. ~HandedOver(requests[i].token) /\ requests[i].seq = 0
  BY DEF HandedInTime, Handled
<1>7. HandedInTime'
  <2>1. \A t \in Token : asked'[t] = "none" => ~HandedOver(t)'
    BY <1>3, <1>4, <1>5 DEF HandedInTime
  <2>2. ASSUME NEW j \in 1 .. Len(requests'), ~Handled(requests'[j])
        PROVE  ~HandedOver(requests[j].token)'
    <3>1. j # i /\ requests'[j].token = requests[j].token
          /\ requests'[j].seq = requests[j].seq
      BY <1>2, <1>3, <2>2 DEF Handled
    <3>2. ~HandedOver(requests[j].token) /\ requests[j].token # requests[i].token
      BY <1>2, <1>5, <2>2, <3>1 DEF Handled, HandedInTime
    <3>3. ~\E m \in sent' : m.pdu = requests[j].token \/ m.smsc = requests[j].token
      BY <1>2, <1>4, <1>5, <3>2 DEF HandedOver
    <3> QED
      BY <3>1, <3>3 DEF HandedOver
  <2> QED
    BY <2>1, <2>2 DEF HandedInTime
<1>8. AnsweredRightly'
  BY <1>3, <1>4, <1>5 DEF AnsweredRightly
<1>9. ASSUME NEW d \in wire', ~d.old
      PROVE  /\ d.seq \in 1 .. seq'
             /\ d.cmd = "SVC_CENTER_ADDR" =>
                  /\ \E j \in 1 .. Len(requests') : requests'[j].seq = d.seq
                  /\ \A j \in 1 .. Len(requests') : requests'[j].seq = d.seq =>
                        /\ requests'[j].kind = "SEND_SMS"
                        /\ ~HandedOver(requests[j].token)'
                        /\ sendData' = requests'[j].token
             /\ d.cmd = "SEND_MSG" =>
                  \A j \in 1 .. Len(requests') : requests'[j].seq = d.seq =>
                     /\ requests'[j].kind = "SEND_SMS"
                     /\ HandedOver(requests[j].token)'
             /\ d.cmd = "DELIVER_REPORT" =>
                  \A j \in 1 .. Len(requests') : requests'[j].seq = d.seq =>
                     requests'[j].kind = "SMS_ACKNOWLEDGE"
  <2>1. CASE d = c
    <3>1. d.seq \in 1 .. seq' /\ requests'[i].seq = d.seq
      BY <1>2, <1>3, <2>1
    <3>2. \A j \in 1 .. Len(requests') : requests'[j].seq = d.seq => j = i
      BY <1>2, <1>3, <1>5, <2>1
    <3>3. requests'[i].token = requests[i].token /\ requests'[i].kind = requests[i].kind
      BY <1>2
    <3>4. H = {} => ~HandedOver(requests[i].token)'
      BY <1>6, <3>3 DEF HandedOver
    <3>5. d.cmd = "SEND_MSG" => HandedOver(requests[i].token)'
      BY <2>1, <3>3 DEF HandedOver
    <3> QED
      BY <1>2, <2>1, <3>1, <3>2, <3>3, <3>4, <3>5
  <2>2. CASE d # c
    <3>1. d \in wire /\ d.seq \in 1 .. seq
      BY <1>3, <1>9, <2>2 DEF Matched
    <3>2. \A j \in 1 .. Len(requests) : requests'[j].seq = d.seq =>
             /\ j # i /\ requests[j].seq = d.seq
             /\ requests[j].token # requests[i].token
      BY <1>2, <1>3, <1>5, <3>1
    <3>3. \A j \in 1 .. Len(requests) : requests[j].seq = d.seq =>
             requests'[j].seq = d.seq
      BY <1>2, <1>6, <3>1
    <3>4. \A j \in 1 .. Len(requests) : requests'[j].seq = d.seq =>
             (HandedOver(requests[j].token)' <=> HandedOver(requests[j].token))
      <4>1. ASSUME NEW j \in 1 .. Len(requests), requests'[j].seq = d.seq
            PROVE  (\E m \in sent' : m.pdu = requests[j].token \/ m.smsc = requests[j].token)
                   <=> HandedOver(requests[j].token)
        BY <1>4, <1>5, <3>2, <4>1 DEF HandedOver
      <4> QED
        BY <1>2, <4>1 DEF HandedOver
    <3>5. d.cmd = "SVC_CENTER_ADDR" => sendData' = sendData
      BY <1>9, <3>1
    <3>6. /\ d.cmd = "SVC_CENTER_ADDR" =>
                /\ \E j \in 1 .. Len(requests) : requests[j].seq = d.seq
                /\ \A j \in 1 .. Len(requests) : requests[j].seq = d.seq =>
                      /\ requests[j].kind = "SEND_SMS"
                      /\ ~HandedOver(requests[j].token)
                      /\ sendData = requests[j].token
          /\ d.cmd = "SEND_MSG" =>
                \A j \in 1 .. Len(requests) : requests[j].seq = d.seq =>
                   /\ requests[j].kind = "SEND_SMS"
                   /\ HandedOver(requests[j].token)
          /\ d.cmd = "DELIVER_REPORT" =>
                \A j \in 1 .. Len(requests) : requests[j].seq = d.seq =>
                   requests[j].kind = "SMS_ACKNOWLEDGE"
      BY <1>9, <3>1 DEF Matched
    <3>7. d.seq \in 1 .. seq'
      BY <1>3, <3>1
    <3>8. d.cmd = "SVC_CENTER_ADDR" => \E j \in 1 .. Len(requests') : requests'[j].seq = d.seq
      BY <1>2, <3>3, <3>6
    <3>9. ASSUME NEW j \in 1 .. Len(requests'), requests'[j].seq = d.seq
          PROVE  /\ d.cmd = "SVC_CENTER_ADDR" =>
                       /\ requests'[j].kind = "SEND_SMS"
                       /\ ~HandedOver(requests[j].token)'
                       /\ sendData' = requests'[j].token
                 /\ d.cmd = "SEND_MSG" =>
                       /\ requests'[j].kind = "SEND_SMS"
                       /\ HandedOver(requests[j].token)'
                 /\ d.cmd = "DELIVER_REPORT" => requests'[j].kind = "SMS_ACKNOWLEDGE"
      <4>1. /\ j \in 1 .. Len(requests) /\ requests'[j].kind = requests[j].kind
            /\ requests'[j].token = requests[j].token /\ requests[j].seq = d.seq
        BY <1>2, <3>2, <3>9
      <4>2. HandedOver(requests[j].token)' <=> HandedOver(requests[j].token)
        BY <3>4, <3>9, <4>1
      <4> QED
        BY <3>5, <3>6, <4>1, <4>2
    <3> QED
      BY <3>7, <3>8, <3>9
  <2> QED
    BY <2>1, <2>2
<1>10. Matched'
  BY <1>9 DEF Matched
<1> QED
  BY <1>7, <1>8, <1>10

\* A request that a handler answers has not been sent.
LEMMA MatchNow ==
    ASSUME SmsAssumption, OneKind, None \notin Token, TypeInv,
           Matched, HandedInTime, AnsweredRightly,
           NEW i \in 1 .. Len(requests), ~Handled(requests[i]),
           NEW e, CompleteNow(i, e), sent' = sent,
           e # "SUCCESS",
           \A d \in wire : ~d.old => d.cmd # "SVC_CENTER_ADDR" \/ sendData' = sendData
    PROVE  Matched' /\ HandedInTime' /\ AnsweredRightly'
<1>1. requests \in Seq(Request) /\ QueueInv
  BY DEF TypeInv, TypeOK
<1>2. /\ \A j \in 1 .. Len(requests') :
            \E k \in 1 .. Len(requests) : requests'[j] = requests[k]
      /\ \A k \in 1 .. Len(requests) : requests[k].token # requests[i].token =>
            \E j \in 1 .. Len(requests') : requests'[j] = requests[k]
      /\ \A u \in Token : answer'[u] = IF u = requests[i].token THEN e ELSE answer[u]
  BY <1>1, CompleteNowKeeps
<1>3. asked' = asked /\ seq' = seq /\ wire' = wire
  BY DEF CompleteNow
<1>4. \A c \in wire : ~c.old => \A k \in 1 .. Len(requests) :
         requests[k].seq = c.seq => requests[k].token # requests[i].token
  BY <1>1 DEF Matched, QueueInv, DistinctTokens, Handled
<1>5. Matched' /\ HandedInTime'
  BY <1>2, <1>3, <1>4, MatchKept
<1>6. ~HandedOver(requests[i].token)
  BY DEF HandedInTime
<1>7. AnsweredRightly'
  BY <1>2, <1>3, <1>6 DEF AnsweredRightly, HandedOver
<1> QED
  BY <1>5, <1>7

\* A request that an answer completes is the one the command was sent for.
LEMMA MatchFound ==
    ASSUME SmsAssumption, OneKind, None \notin Token, TypeInv, OneSent,
           Matched, HandedInTime, AnsweredRightly,
           NEW c \in wire, ~c.old, NEW e,
           asked' = asked, seq' = seq, wire' \subseteq wire \ {c}, sent' = sent,
           \A j \in 1 .. Len(requests') :
              \E k \in 1 .. Len(requests) : requests'[j] = requests[k],
           \A k \in 1 .. Len(requests) : requests[k].token # FindToken(c.seq) =>
              \E j \in 1 .. Len(requests') : requests'[j] = requests[k],
           \A u \in Token : answer'[u] = IF u = FindToken(c.seq) THEN e ELSE answer[u],
           c.cmd = "SVC_CENTER_ADDR" => e = "SMS_SEND_FAIL_RETRY",
           c.cmd # "SVC_CENTER_ADDR" => e \in AckError /\ sendData' = sendData
    PROVE  Matched' /\ HandedInTime' /\ AnsweredRightly'
<1>1. requests \in Seq(Request) /\ QueueInv
  BY DEF TypeInv, TypeOK
<1>2. \/ FindToken(c.seq) = None
      \/ \E k \in 1 .. Len(requests) :
            requests[k].seq = c.seq /\ FindToken(c.seq) = requests[k].token
  BY <1>1, FindTokenCases
<1>3. ASSUME NEW d \in wire', ~d.old, d.cmd = "SVC_CENTER_ADDR"
      PROVE  /\ sendData' = sendData
             /\ \A k \in 1 .. Len(requests) : requests[k].seq = d.seq =>
                   requests[k].token # FindToken(c.seq)
  <2>1. d \in wire /\ d # c
    OBVIOUS
  <2>2. c.cmd # "SVC_CENTER_ADDR"
    BY <1>3, <2>1, OneQuestion
  <2>3. c.cmd \in {"SEND_MSG", "DELIVER_REPORT"}
    BY <2>2 DEF TypeInv, TypeOK, Command
  <2>4. ASSUME NEW k \in 1 .. Len(requests), requests[k].seq = d.seq,
               NEW n \in 1 .. Len(requests), requests[n].seq = c.seq
        PROVE  requests[k].token # requests[n].token
    <3>1. requests[k].kind = "SEND_SMS" /\ ~HandedOver(requests[k].token)
      BY <1>3, <2>1, <2>4 DEF Matched
    <3>2. \/ requests[n].kind = "SEND_SMS" /\ HandedOver(requests[n].token)
          \/ requests[n].kind = "SMS_ACKNOWLEDGE"
      BY <2>3, <2>4 DEF Matched
    <3> QED
      BY <1>1, <3>1, <3>2 DEF QueueInv, Queued
  <2> QED
    BY <1>1, <1>2, <2>2, <2>4 DEF QueueInv, Queued
<1>4. Matched' /\ HandedInTime'
  BY <1>3, MatchKept
<1>5. AnsweredRightly'
  <2>1. ASSUME NEW t \in Token, t = FindToken(c.seq)
        PROVE  /\ asked[t] \in Sending /\ e = "SUCCESS" => HandedOver(t)
               /\ e = "SMS_SEND_FAIL_RETRY" => ~HandedOver(t)
    <3>1. PICK k \in 1 .. Len(requests) :
             requests[k].seq = c.seq /\ t = requests[k].token
      BY <1>2, <2>1
    <3>2. asked[t] = requests[k].kind
      BY <1>1, <3>1 DEF QueueInv, Queued
    <3>3. c.cmd \in {"SVC_CENTER_ADDR", "SEND_MSG", "DELIVER_REPORT"}
      BY DEF TypeInv, TypeOK, Command
    <3> QED
      BY <3>1, <3>2, <3>3 DEF Matched, AckError, Sending
  <2>2. \A t : HandedOver(t)' <=> HandedOver(t)
    BY DEF HandedOver
  <2> QED
    BY <2>1, <2>2 DEF AnsweredRightly
<1> QED
  BY <1>4, <1>5

\* Every step keeps PDUs and requests together.
LEMMA MatchStep ==
    ASSUME SmsAssumption, OneKind, None \notin Token, TypeInv, MatchInv, [Next]_vars
    PROVE  MatchInv'
<1> USE DEF dataVars, histVars
<1>a. requests \in Seq(Request) /\ QueueInv
  BY DEF TypeInv, TypeOK
<1>b. CASE UNCHANGED <<requests, seq, wire, asked, answer, stale, sendData, sent>>
  BY <1>b DEF MatchInv, OneSent, Matched, HandedInTime, AnsweredRightly, HandedOver
<1>c. CASE UNCHANGED vars
  BY <1>b, <1>c DEF vars, queueVars
<1>d. CASE IncomingMsg \/ RadioChange
  BY <1>b, <1>d DEF IncomingMsg, RadioChange, RadioState, queueVars
<1>e. CASE Next
  <2>1. OneSent'
    BY <1>e, OneSentStep DEF MatchInv
  <2> SUFFICES ASSUME ~stale'
               PROVE  Matched' /\ HandedInTime' /\ AnsweredRightly'
    BY <2>1 DEF MatchInv
  <2>2. ~stale
    BY <1>e DEF Next, OnRequest, Issue, SendOwnSmsc, SendDefaultSmsc, SendFails,
         SmsAcknowledge, SmsAcknowledgeFails, Send, CompleteNow, SvcCenterAddr,
         SvcCenterAddrFails, SendMsgResponse, DeliverReport, Refused, GenResponse,
         Receive, ReceiveState, IncomingMsg, Outage, QueueOutage, RadioChange,
         RadioState, queueVars
  <2>3. OneSent /\ Matched /\ HandedInTime /\ AnsweredRightly
    BY <2>2 DEF MatchInv
  <2>4. ASSUME NEW t \in Token, NEW k \in Kind, NEW o \in OwnSmsc, OnRequest(t, k, o)
        PROVE  Matched' /\ HandedInTime' /\ AnsweredRightly'
    <3> DEFINE r == [token |-> t, kind |-> k, own |-> o, seq |-> 0]
    <3>1. /\ asked[t] = "none" /\ requests' = Append(requests, r)
          /\ asked' = [asked EXCEPT ![t] = k]
          /\ UNCHANGED <<seq, wire, answer, sent, sendData>>
      BY <2>4 DEF OnRequest, Issue
    <3>2. /\ Len(requests') = Len(requests) + 1
          /\ \A j \in 1 .. Len(requests) : requests'[j] = requests[j]
          /\ requests'[Len(requests) + 1] = r
      BY <1>a, <3>1
    <3>3. ~HandedOver(t) /\ answer[t] = "none"
      BY <1>a, <2>3, <3>1 DEF HandedInTime, QueueInv
    <3>4. HandedInTime'
      BY <1>a, <2>3, <3>1, <3>2, <3>3 DEF HandedInTime, HandedOver, Handled, QueueInv
    <3>5. AnsweredRightly'
      BY <1>a, <2>3, <3>1, <3>3 DEF AnsweredRightly, HandedOver, QueueInv
    <3>6. \A c \in wire : ~c.old => c.seq # r.seq
      BY <2>3 DEF Matched
    <3>7. \A u : HandedOver(u)' <=> HandedOver(u)
      BY <3>1 DEF HandedOver
    <3>8. Matched'
      BY <1>a, <2>3, <3>1, <3>2, <3>6 DEF Matched, HandedOver
    <3> QED
      BY <3>4, <3>5, <3>8
  <2>5. ASSUME NEW i \in 1 .. Len(requests), SendOwnSmsc(i)
        PROVE  Matched' /\ HandedInTime' /\ AnsweredRightly'
    <3> DEFINE m == [smsc |-> requests[i].token, pdu |-> Smsc]
               c == SendCommand(seq + 1, m)
    <3>1. /\ Send(i, c, Expecting(c, "abort")) /\ sent' = sent \cup {m}
          /\ sendData' = sendData /\ ~Handled(requests[i])
          /\ requests[i].kind \in Sending
      BY <2>5 DEF SendOwnSmsc, Dispatched
    <3>2. c.cmd = "SEND_MSG" /\ c.seq = seq + 1 /\ ~c.old /\ m.smsc = requests[i].token
          /\ m.pdu = Smsc /\ m \in Message
      BY RequestKinds DEF SendCommand, Message
    <3>3. c \in Command
      <4> HIDE DEF m
      <4>1. TypeOK /\ seq + 1 \in Nat
        BY DEF TypeInv, TypeOK
      <4> QED
        BY <3>2, <4>1, CommandTypes
    <3>4. \A t \in Token : (\E x \in {m} : x.pdu = t \/ x.smsc = t)
                           => t = requests[i].token
      BY <3>2 DEF SmsAssumption
    <3>5. requests[i].kind = "SEND_SMS"
      BY <3>1, RequestKinds
    <3>6. \E x \in {m} : x.pdu = requests[i].token \/ x.smsc = requests[i].token
      BY <3>2
    <3>7. \A d \in wire : ~d.old => d.cmd # "SVC_CENTER_ADDR" \/ sendData' = sendData
      BY <3>1
    <3>8. c.cmd # "SVC_CENTER_ADDR" /\ c.cmd # "DELIVER_REPORT"
      BY <3>2
    <3> DEFINE H == {m}
    <3> HIDE DEF m, c, H
    <3>9. sent' = sent \cup H
      BY <3>1 DEF H
    <3>10. \A t \in Token : (\E x \in H : x.pdu = t \/ x.smsc = t)
                            => t = requests[i].token
      BY <3>4 DEF H
    <3>11. \E x \in H : x.pdu = requests[i].token \/ x.smsc = requests[i].token
      BY <3>6 DEF H
    <3> QED
      BY <2>3, <3>1, <3>2, <3>3, <3>5, <3>7, <3>8, <3>9, <3>10, <3>11, MatchSent
  <2>6. ASSUME NEW i \in 1 .. Len(requests), SendDefaultSmsc(i)
        PROVE  Matched' /\ HandedInTime' /\ AnsweredRightly'
    <3>1. /\ Send(i, SvcCenterCommand, <<>>) /\ sent' = sent \cup {}
          /\ sendData' = requests[i].token /\ ~Handled(requests[i])
          /\ requests[i].kind \in Sending /\ Dispatched(i, Ready)
      BY <2>6 DEF SendDefaultSmsc, Dispatched
    <3>2. /\ SvcCenterCommand.cmd = "SVC_CENTER_ADDR"
          /\ SvcCenterCommand.seq = seq + 1 /\ ~SvcCenterCommand.old
          /\ SvcCenterCommand \in Command
      BY CommandTypes DEF SvcCenterCommand, TypeInv
    <3>3. requests[i].kind = "SEND_SMS"
      BY <3>1, RequestKinds
    <3>4. \A d \in wire : ~d.old => d.cmd # "SVC_CENTER_ADDR"
      BY <2>3, <3>1, NoQuestion
    <3> QED
      BY <2>3, <3>1, <3>2, <3>3, <3>4, MatchSent
  <2>7. ASSUME NEW i \in 1 .. Len(requests), SmsAcknowledge(i)
        PROVE  Matched' /\ HandedInTime' /\ AnsweredRightly'
    <3> DEFINE c == ReportCommand(ackData)
    <3>1. /\ Send(i, c, Expecting(c, "abort")) /\ sent' = sent \cup {}
          /\ sendData' = sendData /\ ~Handled(requests[i])
          /\ requests[i].kind = "SMS_ACKNOWLEDGE"
      BY <2>7 DEF SmsAcknowledge, Dispatched
    <3>2. c.cmd = "DELIVER_REPORT" /\ c.seq = seq + 1 /\ ~c.old
      BY DEF ReportCommand
    <3>3. c \in Command
      BY CommandTypes DEF TypeInv, TypeOK
    <3> HIDE DEF c
    <3> QED
      BY <2>3, <3>1, <3>2, <3>3, MatchSent
  <2>8. ASSUME NEW i \in 1 .. Len(requests), SendFails(i)
        PROVE  Matched' /\ HandedInTime' /\ AnsweredRightly'
    <3>1. /\ CompleteNow(i, "SMS_SEND_FAIL_RETRY") /\ sent' = sent
          /\ Dispatched(i, Ready) /\ requests[i].kind \in Sending
          /\ ~Handled(requests[i])
      BY <2>8 DEF SendFails, Dispatched
    <3>2. \A d \in wire : ~d.old => d.cmd # "SVC_CENTER_ADDR"
      BY <2>3, <3>1, NoQuestion
    <3> QED
      BY <2>3, <3>1, <3>2, MatchNow
  <2>9. ASSUME NEW i \in 1 .. Len(requests), SmsAcknowledgeFails(i)
        PROVE  Matched' /\ HandedInTime' /\ AnsweredRightly'
    <3>1. /\ CompleteNow(i, "GENERIC_FAILURE") /\ sent' = sent
          /\ ~Handled(requests[i]) /\ sendData' = sendData
      BY <2>9 DEF SmsAcknowledgeFails, Dispatched
    <3> QED
      BY <2>3, <3>1, MatchNow
  <2>10. ASSUME NEW c \in wire, SvcCenterAddr(c)
         PROVE  Matched' /\ HandedInTime' /\ AnsweredRightly'
    <3> DEFINE m == [smsc |-> Smsc, pdu |-> sendData]
               d == SendCommand(c.seq, m)
    <3>1. /\ c.cmd = "SVC_CENTER_ADDR" /\ ~c.old
          /\ wire' = (wire \ {c}) \cup {d} /\ sent' = sent \cup {m}
          /\ UNCHANGED <<requests, seq, asked, answer>>
      BY <2>10 DEF SvcCenterAddr, Receive, ReceiveState
    <3>2. PICK i \in 1 .. Len(requests) : requests[i].seq = c.seq
      BY <2>3, <3>1 DEF Matched
    <3>3. /\ requests[i].kind = "SEND_SMS" /\ sendData = requests[i].token
          /\ c.seq \in 1 .. seq
      BY <2>3, <3>1, <3>2 DEF Matched
    <3>4. /\ d.cmd = "SEND_MSG" /\ d.seq = c.seq
          /\ m.pdu = sendData /\ m.smsc = Smsc
      BY DEF SendCommand
    <3> HIDE DEF m, d
    <3>5. \A t \in Token : HandedOver(t)' <=> HandedOver(t) \/ t = sendData
      BY <3>1, <3>4 DEF HandedOver, SmsAssumption
    <3>6. /\ sendData \in Token /\ asked[sendData] # "none"
          /\ answer[sendData] = "none"
      BY <1>a, <3>3 DEF QueueInv, Queued
    <3>7. HandedInTime'
      <4>1. \A t \in Token : asked'[t] = "none" => ~HandedOver(t)'
        BY <2>3, <3>1, <3>5, <3>6 DEF HandedInTime
      <4>2. ASSUME NEW j \in 1 .. Len(requests), ~Handled(requests[j])
            PROVE  ~HandedOver(requests[j].token)'
        <5>1. requests[j].token # sendData /\ requests[j].token \in Token
          BY <1>a, <3>2, <3>3, <4>2 DEF QueueInv, Queued, DistinctTokens, Handled
        <5>2. ~HandedOver(requests[j].token)
          BY <2>3, <4>2 DEF HandedInTime
        <5> QED
          BY <3>1, <3>4, <5>1, <5>2 DEF HandedOver, SmsAssumption
      <4> QED
        BY <3>1, <4>1, <4>2 DEF HandedInTime, Handled
    <3>8. AnsweredRightly'
      BY <2>3, <3>1, <3>5, <3>6 DEF AnsweredRightly
    <3>9. ASSUME NEW x \in wire', ~x.old
          PROVE  /\ x.seq \in 1 .. seq
                 /\ x.cmd # "SVC_CENTER_ADDR"
                 /\ x.cmd = "SEND_MSG" =>
                      \A j \in 1 .. Len(requests) : requests[j].seq = x.seq =>
                         requests[j].kind = "SEND_SMS" /\ HandedOver(requests[j].token)'
                 /\ x.cmd = "DELIVER_REPORT" =>
                      \A j \in 1 .. Len(requests) : requests[j].seq = x.seq =>
                         requests[j].kind = "SMS_ACKNOWLEDGE"
      <4>1. CASE x = d
        <5>1. \A j \in 1 .. Len(requests) : requests[j].seq = c.seq =>
                 requests[j].kind = "SEND_SMS" /\ requests[j].token = sendData
          BY <2>3, <3>1 DEF Matched
        <5>2. \A j \in 1 .. Len(requests) : requests[j].seq = c.seq =>
                 \E y \in sent' : y.pdu = requests[j].token
          BY <3>1, <3>4, <5>1
        <5> QED
          BY <3>1, <3>3, <3>4, <4>1, <5>1, <5>2 DEF HandedOver
      <4>2. CASE x # d
        <5>1. x \in wire /\ x # c
          BY <3>1, <4>2
        <5>2. x.cmd # "SVC_CENTER_ADDR"
          BY <2>3, <3>1, <3>9, <5>1, OneQuestion
        <5>3. \A j \in 1 .. Len(requests) :
                 HandedOver(requests[j].token) => HandedOver(requests[j].token)'
          BY <3>1 DEF HandedOver
        <5> QED
          BY <2>3, <3>9, <5>1, <5>2, <5>3 DEF Matched
      <4> QED
        BY <4>1, <4>2
    <3>10. Matched'
      BY <3>1, <3>9 DEF Matched
    <3> QED
      BY <3>7, <3>8, <3>10
  <2>11. ASSUME NEW c \in wire, NEW e,
                Receive(c, {}), CompleteToken(FindToken(c.seq), e), sent' = sent,
                c.cmd = "SVC_CENTER_ADDR" => e = "SMS_SEND_FAIL_RETRY",
                c.cmd # "SVC_CENTER_ADDR" => e \in AckError /\ sendData' = sendData
         PROVE  Matched' /\ HandedInTime' /\ AnsweredRightly'
    <3>1. asked' = asked /\ seq' = seq /\ wire' = wire \ {c} /\ ~c.old
      BY <2>11 DEF Receive, ReceiveState
    <3>2. /\ \A j \in 1 .. Len(requests') :
                \E k \in 1 .. Len(requests) : requests'[j] = requests[k]
          /\ \A k \in 1 .. Len(requests) : requests[k].token # FindToken(c.seq) =>
                \E j \in 1 .. Len(requests') : requests'[j] = requests[k]
          /\ \A u \in Token : answer'[u] = IF u = FindToken(c.seq) THEN e
                                            ELSE answer[u]
      BY <1>a, <2>11, <3>1, CompleteFoundKeeps
    <3> QED
      BY <2>3, <2>11, <3>1, <3>2, MatchFound
  <2>12. ASSUME NEW c \in wire, SvcCenterAddrFails(c)
         PROVE  Matched' /\ HandedInTime' /\ AnsweredRightly'
    BY <2>11, <2>12 DEF SvcCenterAddrFails
  <2>13. ASSUME NEW c \in wire, SendMsgResponse(c) \/ DeliverReport(c)
         PROVE  Matched' /\ HandedInTime' /\ AnsweredRightly'
    <3>1. PICK e \in AckError : CompleteToken(FindToken(c.seq), e)
      BY <2>13 DEF SendMsgResponse, DeliverReport
    <3> QED
      BY <2>11, <2>13, <3>1 DEF SendMsgResponse, DeliverReport
  <2>14. ASSUME NEW c \in wire, Refused(c)
         PROVE  Matched' /\ HandedInTime' /\ AnsweredRightly'
    <3>1. /\ GenResponse(c, FALSE) /\ expects \in Seq(Expect)
          /\ sent' = sent /\ sendData' = sendData
      BY <2>14 DEF Refused, TypeInv, TypeOK, Expect
    <3>2. asked' = asked /\ seq' = seq /\ wire' = wire \ {c} /\ ~c.old
      BY <3>1 DEF GenResponse, Receive, ReceiveState
    <3>3. CASE UNCHANGED <<requests, answer>>
      <4>1. Matched' /\ HandedInTime'
        BY <2>3, <3>1, <3>2, <3>3, MatchKept
      <4>2. AnsweredRightly'
        BY <2>3, <3>1, <3>2, <3>3 DEF AnsweredRightly, HandedOver
      <4> QED
        BY <4>1, <4>2
    <3>4. CASE CompleteToken(FindToken(c.seq), "GENERIC_FAILURE")
               /\ Mode(c) \in {"complete", "abort"}
      <4>1. Receive(c, {}) /\ "GENERIC_FAILURE" \in AckError
        BY <3>1 DEF GenResponse, AckError
      <4>2. c.cmd # "SVC_CENTER_ADDR"
        <5>1. Numbered(expects, c.seq) # {}
          BY <3>4 DEF Mode
        <5>2. expects[First(expects, c.seq)] \in Expect
          BY <3>1, <5>1, FirstNumbered
        <5>3. expects[First(expects, c.seq)].cmd = c.cmd
          BY <3>4, <5>1 DEF Mode
        <5> QED
          BY <5>2, <5>3 DEF Expect
      <4> QED
        BY <2>11, <3>1, <3>4, <4>1, <4>2
    <3> QED
      BY <3>1, <3>3, <3>4 DEF GenResponse
  <2>15. CASE Outage
    <3>1. QueueOutage /\ wire \subseteq Command /\ sent' = sent
      BY <2>15 DEF Outage, TypeInv, TypeOK
    <3>2. /\ requests' = <<>> /\ \A c \in wire' : c.old
          /\ \A t \in Token :
                answer'[t] = "RADIO_NOT_AVAILABLE" \/ answer'[t] = answer[t]
      BY <1>a, <3>1, OutageKeeps, CommandAgeable
    <3>3. asked' = asked
      BY <3>1 DEF QueueOutage
    <3>4. Matched' /\ HandedInTime'
      BY <2>3, <3>1, <3>2, <3>3 DEF Matched, HandedInTime, HandedOver
    <3>5. AnsweredRightly'
      BY <2>3, <3>1, <3>2, <3>3 DEF AnsweredRightly, HandedOver
    <3> QED
      BY <3>4, <3>5
  <2> QED
    BY <1>d, <1>e, <2>4, <2>5, <2>6, <2>7, <2>8, <2>9, <2>10, <2>12, <2>13, <2>14, <2>15
       DEF Next, MatchInv
<1> QED
  BY <1>c, <1>e


\* So success is reported for messages that were handed over, and "retry" only
\* for messages that were not.
LEMMA MatchedPdus == MatchInv => StoredPduMatches
<1> SUFFICES ASSUME MatchInv, ~stale
             PROVE  LET Handed == {m.pdu : m \in sent} \cup {m.smsc : m \in sent}
                    IN  /\ Answers("SUCCESS") \subseteq Handed
                        /\ Answers("SMS_SEND_FAIL_RETRY") \cap Handed = {}
  BY DEF StoredPduMatches
<1> DEFINE Handed == {m.pdu : m \in sent} \cup {m.smsc : m \in sent}
<1>1. \A t : t \in Handed <=> HandedOver(t)
  BY DEF HandedOver
<1>2. \A e : \A t \in Answers(e) : t \in Token /\ asked[t] \in Sending /\ answer[t] = e
  BY DEF Answers
<1>3. Answers("SUCCESS") \subseteq Handed
  BY <1>1, <1>2 DEF MatchInv, AnsweredRightly
<1>4. Answers("SMS_SEND_FAIL_RETRY") \cap Handed = {}
  BY <1>1, <1>2 DEF MatchInv, AnsweredRightly
<1> QED
  BY <1>3, <1>4
=============================================================================
