--------------------------------- MODULE Sms ---------------------------------
(***************************************************************************)
(* Sending and acknowledging short messages (sms.c), with the data that    *)
(* its handlers keep in the library's request data list (samsung-ril.c).   *)
(*                                                                         *)
(* To send a message without a service centre, ril_request_send_sms stores *)
(* the PDU, asks the modem for the default service centre and returns; the *)
(* handler of the answer takes the stored PDU back and sends the message.  *)
(* An incoming message leaves its identifier for the acknowledgement.      *)
(***************************************************************************)
EXTENDS QueueView

CONSTANTS
    Kind,        \* the kinds of request libril issues
    OwnSmsc,     \* the set of BOOLEANs: requests may name a service centre
    Smsc,        \* a service centre address
    MaxIncoming  \* bound: messages received

Sending == {"SEND_SMS", "SEND_SMS_EXPECT_MORE"}

SmsAssumption ==
    /\ Kind \subseteq Sending \cup {"SMS_ACKNOWLEDGE"}
    /\ OwnSmsc \subseteq BOOLEAN
    /\ Smsc \notin Token
    /\ MaxIncoming \in Nat

VARIABLES
    sendData,   \* request data of RIL_REQUEST_SEND_SMS: the PDU of a message
    ackData,    \* request data of RIL_REQUEST_SMS_ACKNOWLEDGE: an identifier
    sent,       \* history: the messages handed to the modem
    shown,      \* history: number of incoming messages passed to libril
    reports     \* history: the identifiers in the delivery reports sent

dataVars == <<sendData, ackData>>
histVars == <<sent, shown, reports>>
vars == <<queueVars, dataVars, histVars>>

Errno == {"SUCCESS", "SMS_SEND_FAIL_RETRY", "GENERIC_FAILURE",
          "RADIO_NOT_AVAILABLE"}

\* The PDU of a message is named after the token of its request.
Request == [token : Token, kind : Kind, own : OwnSmsc, seq : Nat]
Message == [smsc : Token \cup {Smsc}, pdu : Token \cup {Smsc}]

\* The commands: SMS_SVC_CENTER_ADDR, SMS_SEND_MSG with its two fields and
\* SMS_DELIVER_REPORT with the identifier of a message; old ones were sent
\* before the last outage.
Command == [cmd : {"SVC_CENTER_ADDR"}, seq : Nat, old : BOOLEAN]
           \cup [cmd : {"SEND_MSG"}, seq : Nat, old : BOOLEAN, msg : Message]
           \cup [cmd : {"DELIVER_REPORT"}, seq : Nat, old : BOOLEAN, id : Nat]

SvcCenterCommand == [cmd |-> "SVC_CENTER_ADDR", seq |-> seq + 1, old |-> FALSE]
SendCommand(s, m) == [cmd |-> "SEND_MSG", seq |-> s, old |-> FALSE, msg |-> m]
ReportCommand(n) ==
    [cmd |-> "DELIVER_REPORT", seq |-> seq + 1, old |-> FALSE, id |-> n]

Init ==
    /\ QueueInit
    /\ sendData = None /\ ackData = 0
    /\ sent = {} /\ shown = 0 /\ reports = <<>>

OnRequest(t, k, o) ==
    /\ Issue(t, [token |-> t, kind |-> k, own |-> o, seq |-> 0])
    /\ UNCHANGED <<dataVars, histVars>>

\* What the handlers check before they do anything: the radio state and,
\* for a message to send, that no SEND_SMS request is on its way.
CanRun(r) ==
    IF r.kind \in Sending THEN radio \in {"sim", "ready"} /\ ~Busy("SEND_SMS")
    ELSE radio = "ready"

Ready == {i \in 1 .. Len(requests) : CanRun(requests[i])}

-----------------------------------------------------------------------------
(* ril_request_send_sms and the answers it waits for.                      *)

\* The message names its service centre: it is sent at once.  The call passes
\* the PDU where the service centre belongs and the other way round.
SendOwnSmsc(i) ==
    /\ Dispatched(i, Ready) /\ requests[i].kind \in Sending /\ requests[i].own
    /\ LET m == [smsc |-> requests[i].token, pdu |-> Smsc]
           c == SendCommand(seq + 1, m)
       IN  Send(i, c, Expecting(c, "abort")) /\ sent' = sent \cup {m}
    /\ UNCHANGED <<dataVars, shown, reports>>

\* Mutant of SendDefaultSmsc: the PDU of an earlier message is kept.
SendDefaultSmscKeeps(i) ==
    /\ Dispatched(i, Ready) /\ requests[i].kind \in Sending /\ ~requests[i].own
    /\ sendData' = IF sendData = None THEN requests[i].token ELSE sendData
    /\ Send(i, SvcCenterCommand, <<>>)
    /\ UNCHANGED <<ackData, histVars>>

\* It does not: the PDU is stored, replacing one stored before, and the modem
\* is asked for the default service centre.
SendDefaultSmsc(i) ==
    /\ Dispatched(i, Ready) /\ requests[i].kind \in Sending /\ ~requests[i].own
    /\ sendData' = requests[i].token
    /\ Send(i, SvcCenterCommand, <<>>)
    /\ UNCHANGED <<ackData, histVars>>

\* The data is malformed, or the command cannot be sent: then the stored PDU,
\* of whichever message, is freed again.
SendFails(i) ==
    /\ Dispatched(i, Ready) /\ requests[i].kind \in Sending
    /\ sendData' \in IF requests[i].own THEN {sendData} ELSE {sendData, None}
    /\ CompleteNow(i, "SMS_SEND_FAIL_RETRY")
    /\ UNCHANGED <<ackData, histVars>>

\* ipc_sms_svc_center_addr: the stored PDU is taken and sent under the number
\* of the answer
SvcCenterAddr(c) ==
    /\ c.cmd = "SVC_CENTER_ADDR" /\ sendData # None
    /\ LET m == [smsc |-> Smsc, pdu |-> sendData]
           d == SendCommand(c.seq, m)
       IN  /\ Receive(c, {d}) /\ expects' = expects \o Expecting(d, "abort")
           /\ sent' = sent \cup {m}
    /\ sendData' = None
    /\ UNCHANGED <<requests, answer, ackData, shown, reports>>

\* ... or the request fails: the address is malformed before the PDU is taken,
\* there is no PDU, or it is taken and the message cannot be built or sent
SvcCenterAddrFails(c) ==
    /\ c.cmd = "SVC_CENTER_ADDR"
    /\ Receive(c, {}) /\ UNCHANGED expects
    /\ sendData' \in {sendData, None}
    /\ CompleteToken(FindToken(c.seq), "SMS_SEND_FAIL_RETRY")
    /\ UNCHANGED <<ackData, histVars>>

\* ipc2ril_sms_ack_error: every error of the modem is a generic failure
AckError == {"SUCCESS", "GENERIC_FAILURE"}

\* Mutant of SendMsgResponse: the error of the modem is passed on as it is.
SendMsgResponseRaw(c) ==
    /\ c.cmd = "SEND_MSG"
    /\ Receive(c, {}) /\ UNCHANGED expects
    /\ CompleteToken(FindToken(c.seq), "SMS_ACK_UNSPEC_ERROR")
    /\ UNCHANGED <<dataVars, histVars>>

\* ipc_sms_send_msg
SendMsgResponse(c) ==
    /\ c.cmd = "SEND_MSG"
    /\ Receive(c, {}) /\ UNCHANGED expects
    /\ \E e \in AckError : CompleteToken(FindToken(c.seq), e)
    /\ UNCHANGED <<dataVars, histVars>>

-----------------------------------------------------------------------------
(* Acknowledgements.                                                       *)

\* ipc_sms_incoming_msg: the identifier replaces one that is still stored
IncomingMsg ==
    /\ radio # "out" /\ shown < MaxIncoming
    /\ shown' = shown + 1
    /\ ackData' = shown + 1
    /\ UNCHANGED <<queueVars, sendData, sent, reports>>

\* Mutant of SmsAcknowledge: the identifier stays stored.
SmsAcknowledgeKeeps(i) ==
    /\ Dispatched(i, Ready) /\ requests[i].kind = "SMS_ACKNOWLEDGE"
    /\ ackData # 0
    /\ LET c == ReportCommand(ackData) IN Send(i, c, Expecting(c, "abort"))
    /\ reports' = Append(reports, ackData)
    /\ UNCHANGED <<dataVars, sent, shown>>

\* ril_request_sms_acknowledge
SmsAcknowledge(i) ==
    /\ Dispatched(i, Ready) /\ requests[i].kind = "SMS_ACKNOWLEDGE"
    /\ ackData # 0
    /\ LET c == ReportCommand(ackData) IN Send(i, c, Expecting(c, "abort"))
    /\ reports' = Append(reports, ackData)
    /\ ackData' = 0
    /\ UNCHANGED <<sendData, sent, shown>>

\* The data is malformed, there is nothing to acknowledge, or the report cannot
\* be sent: then the identifier is gone.
SmsAcknowledgeFails(i) ==
    /\ Dispatched(i, Ready) /\ requests[i].kind = "SMS_ACKNOWLEDGE"
    /\ ackData' \in {ackData, 0}
    /\ CompleteNow(i, "GENERIC_FAILURE")
    /\ UNCHANGED <<sendData, histVars>>

\* ipc_sms_deliver_report
DeliverReport(c) ==
    /\ c.cmd = "DELIVER_REPORT"
    /\ Receive(c, {}) /\ UNCHANGED expects
    /\ \E e \in AckError : CompleteToken(FindToken(c.seq), e)
    /\ UNCHANGED <<dataVars, histVars>>

-----------------------------------------------------------------------------
(* The modem.                                                              *)

\* A generic response refuses a command: the two commands that expect one
\* abort their request, a refused question for the service centre is ignored.
Refused(c) ==
    /\ GenResponse(c, FALSE)
    /\ UNCHANGED <<dataVars, histVars>>

\* ril_request_data_flush as well
Outage ==
    /\ QueueOutage
    /\ sendData' = None /\ ackData' = 0
    /\ UNCHANGED histVars

RadioChange ==
    /\ \E s \in RadioStates : RadioState(s)
    /\ UNCHANGED <<dataVars, histVars>>

Next ==
    \/ \E t \in Token, k \in Kind, o \in OwnSmsc : OnRequest(t, k, o)
    \/ \E i \in 1 .. Len(requests) :
          \/ SendOwnSmsc(i) \/ SendDefaultSmsc(i) \/ SendFails(i)
          \/ SmsAcknowledge(i) \/ SmsAcknowledgeFails(i)
    \/ \E c \in wire :
          \/ SvcCenterAddr(c) \/ SvcCenterAddrFails(c) \/ SendMsgResponse(c)
          \/ DeliverReport(c) \/ Refused(c)
    \/ IncomingMsg \/ Outage \/ RadioChange

Spec == Init /\ [][Next]_vars
-----------------------------------------------------------------------------
(* Properties.                                                             *)

TypeOK ==
    /\ radio \in RadioStates
    /\ requests \in Seq(Request)
    /\ seq \in Nat
    /\ expects \in Seq([seq : Nat, cmd : {"SEND_MSG", "DELIVER_REPORT"},
                        mode : {"abort"}])
    /\ wire \in SUBSET Command
    /\ asked \in [Token -> Kind \cup {"none"}]
    /\ answer \in [Token -> Errno \cup {"none"}]
    /\ outages \in Nat /\ stale \in BOOLEAN
    /\ sendData \in Token \cup {None}
    /\ ackData \in Nat
    /\ sent \in SUBSET Message
    /\ shown \in Nat
    /\ reports \in Seq(Nat)

Answers(e) == {t \in Token : asked[t] \in Sending /\ answer[t] = e}
SentPdus == {m.pdu : m \in sent}

\* "Send an SMS message" (ril.h, RIL_REQUEST_SEND_SMS): success is reported
\* for a message only if its own PDU was handed to the modem.
SuccessMeansSent == Answers("SUCCESS") \subseteq SentPdus

\* With requests of one kind only, and as long as no answer from before a
\* restart of the modem comes in, PDU and request find together again: success
\* is reported for messages that were sent, and "retry" only for messages that
\* were not, so that no message is lost and none is sent twice. 
StoredPduMatches ==
    LET Handed == {m.pdu : m \in sent} \cup {m.smsc : m \in sent}
    IN  ~stale => /\ Answers("SUCCESS") \subseteq Handed
                  /\ Answers("SMS_SEND_FAIL_RETRY") \cap Handed = {}

\* No incoming message is acknowledged twice or out of order, whichever
\* messages, acknowledgements and outages come in between: the identifiers
\* in the delivery reports increase.
ReportedOnce ==
    \A i, j \in 1 .. Len(reports) : i < j => reports[i] < reports[j]
==============================================================================
