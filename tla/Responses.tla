----------------------------- MODULE Responses -----------------------------
(***************************************************************************)
(* What libril writes for the phone when a RIL completes a request or      *)
(* reports something on its own.                                           *)
(*                                                                         *)
(* A RIL passes a pointer and a length.  libril has one response function  *)
(* per row of its tables; it is told neither the type nor the version of   *)
(* the structure behind the pointer and works them out from the length.    *)
(* The model keeps, for every answer, the structure the RIL meant (`sent') *)
(* and the one libril took it for (`written').                             *)
(***************************************************************************)
EXTENDS Integers, FiniteSets, Scenario

\* The instances.
Word == 4  \* sizeof (char *): 4 or 8
Version == InRun([safety |-> 10, further |-> 6])  \* s_callbacks.version
MaxCount == InRun([safety |-> 8, further |-> 7])  \* the longest list a RIL sends
\* the longest answer of a wrong type, in bytes
MaxLength == 60
\* TRUE: the answers of samsung-ril; FALSE: of any RIL
Samsung == InRun([safety |-> FALSE, further |-> TRUE])
\* the versions of the card status the RIL of a run may send
CardVersions == InRun([safety |-> {"card_v5", "card_v6"}, further |-> {"card_v6"}])
\* the versions of the data call list it may send
CallVersions == InRun([safety |-> {"call_v6", "call_v9"}, further |-> {"call_v6"}])

VARIABLES sent, written

vars == <<sent, written>>

-----------------------------------------------------------------------------
\* The size of one element, as the compiler lays it out.
SizeOf(form) ==
    CASE form \in {"int", "signal_info"} -> 4
      [] form = "byte" -> 1
      [] form \in {"pointer", "gsm_config", "cdma_config"} -> Word
      [] form = "sms" -> 3 * Word
      [] form = "call_v4" -> 8 + 3 * Word
      [] form = "call_v6" -> 16 + 5 * Word
      [] form = "call_v9" -> 16 + 6 * Word
      [] form = "sim_io" -> 8 + Word
      [] form = "notification" -> 16 + Word
      [] form = "records" -> 964
      [] form = "strength_v5" -> 28
      [] form = "strength_v6" -> 48
      [] form = "strength_v10" -> 56
      [] form = "waiting_v5" -> 4 * Word
      [] form = "waiting_v6" -> IF Word = 4 THEN 24 ELSE 40
      [] form = "refresh_v6" -> 8
      [] form = "refresh_v7" -> 8 + Word
      [] form = "card_v5" -> IF Word = 4 THEN 276 ELSE 408
      [] form = "card_v6" -> IF Word = 4 THEN 280 ELSE 408
      [] form = "cdma_sms" -> 372

Invalid == [as |-> "invalid", count |-> 0]
Read(form, n) == [as |-> form, count |-> n]

\* A list: the length is a multiple of the size of an element.
List(form, null, len) ==
    IF (null /\ len # 0) \/ len % SizeOf(form) # 0 THEN Invalid ELSE Read(form, len \div SizeOf(form))

\* One structure of one size.
One(form, null, len) == IF null \/ len # SizeOf(form) THEN Invalid ELSE Read(form, 1)

responseInts(null, len) == List("int", null, len)

\* Lists of pointers: strings, calls, call forwardings, neighbouring cells.
responseStrings(null, len) == List("pointer", null, len)

responseCallList(null, len) == List("pointer", null, len)

\* The length of a string is ignored.
responseString(null, len) == Read("string", IF null THEN 0 ELSE 1)

responseVoid(null, len) == Read("nothing", 0)

responseSMS(null, len) == One("sms", null, len)

responseDataCallListV4(null, len) == List("call_v4", null, len)

responseDataCallListV6(null, len) == List("call_v6", null, len)

\* Of a new RIL, a length that fits version 6 is a version 6 list, any other a version 9 list.
responseDataCallList(null, len) ==
    CASE Version < 5 -> responseDataCallListV4(null, len)
      [] Version >= 5 /\ null /\ len # 0 -> Invalid
      [] Version >= 5 /\ ~(null /\ len # 0) /\ len % SizeOf("call_v6") = 0 ->
           responseDataCallListV6(null, len)
      [] OTHER -> List("call_v9", null, len)

responseSetupDataCall(null, len) ==
    IF Version < 5 THEN responseStrings(null, len) ELSE responseDataCallList(null, len)

responseRaw(null, len) == IF null /\ len # 0 THEN Invalid ELSE Read("byte", len)

responseSIM_IO(null, len) == One("sim_io", null, len)

responseCallForwards(null, len) == List("pointer", null, len)

responseSsn(null, len) == One("notification", null, len)

responseCellList(null, len) == List("pointer", null, len)

\* Every record is checked when it is written; a record of an unknown kind, or too long, makes the
\* whole answer invalid.
responseCdmaInformationRecords(null, len, good) ==
    IF good THEN One("records", null, len) ELSE Invalid

\* The longest structure that is all there.
responseRilSignalStrength(null, len) ==
    CASE (null /\ len # 0) \/ len < SizeOf("strength_v5") -> Invalid
      [] ~null /\ len >= SizeOf("strength_v10") -> Read("strength_v10", 1)
      [] ~null /\ len \in SizeOf("strength_v6") .. SizeOf("strength_v10") - 1 -> Read("strength_v6", 1)
      [] OTHER -> Read("strength_v5", 1)

responseCdmaSignalInfoRecord(null, len) == One("signal_info", null, len)

responseCallRing(null, len) ==
    IF null \/ len = 0 THEN responseVoid(null, len) ELSE responseCdmaSignalInfoRecord(null, len)

responseCdmaCallWaiting(null, len) ==
    IF null /\ len # 0 THEN Invalid
    ELSE Read(IF len >= SizeOf("waiting_v6") THEN "waiting_v6" ELSE "waiting_v5", 1)

\* The version of the RIL, not the length, tells the structure.
responseSimRefresh(null, len) ==
    IF null /\ len # 0 THEN Invalid ELSE Read(IF Version = 7 THEN "refresh_v7" ELSE "refresh_v6", 1)

responseSimStatus(null, len) ==
    CASE null /\ len # 0 -> Invalid
      [] ~null /\ len = SizeOf("card_v6") -> Read("card_v6", 1)
      [] ~null /\ len = SizeOf("card_v5") /\ len # SizeOf("card_v6") -> Read("card_v5", 1)
      [] OTHER -> Invalid

\* These two test nothing: what is left over is ignored.
responseGsmBrSmsCnf(null, len) == Read("gsm_config", len \div Word)

responseCdmaBrSmsCnf(null, len) == Read("cdma_config", len \div Word)

responseCdmaSms(null, len) == One("cdma_sms", null, len)

-----------------------------------------------------------------------------
\* The rows of the command table, one request for each use of a response function.
s_commands(code, null, len) ==
    CASE code \in {"ENTER_SIM_PIN", "LAST_CALL_FAIL_CAUSE", "WRITE_SMS_TO_SIM", "QUERY_FACILITY_LOCK",
                   "LAST_DATA_CALL_FAIL_CAUSE", "QUERY_NETWORK_SELECTION_MODE",
                   "GET_PREFERRED_NETWORK_TYPE"} -> responseInts(null, len)
      [] code \in {"VOICE_REGISTRATION_STATE", "DATA_REGISTRATION_STATE", "OPERATOR",
                   "QUERY_AVAILABLE_NETWORKS"} -> responseStrings(null, len)
      [] code \in {"GET_IMSI", "GET_IMEI", "GET_IMEISV", "BASEBAND_VERSION"} -> responseString(null, len)
      [] code = "GET_CURRENT_CALLS" -> responseCallList(null, len)
      [] code = "SIGNAL_STRENGTH" -> responseRilSignalStrength(null, len)
      [] code = "SEND_SMS" -> responseSMS(null, len)
      [] code = "SETUP_DATA_CALL" -> responseSetupDataCall(null, len)
      [] code = "DATA_CALL_LIST" -> responseDataCallList(null, len)
      [] code = "SIM_IO" -> responseSIM_IO(null, len)
      [] code = "QUERY_CALL_FORWARD_STATUS" -> responseCallForwards(null, len)
      [] code = "GET_SIM_STATUS" -> responseSimStatus(null, len)
      [] code = "OEM_HOOK_RAW" -> responseRaw(null, len)
      [] code = "GET_NEIGHBORING_CELL_IDS" -> responseCellList(null, len)
      [] code = "GSM_GET_BROADCAST_SMS_CONFIG" -> responseGsmBrSmsCnf(null, len)
      [] code = "CDMA_GET_BROADCAST_SMS_CONFIG" -> responseCdmaBrSmsCnf(null, len)
      [] OTHER -> responseVoid(null, len)

\* The rows of the table of unsolicited responses, likewise.
s_unsolResponses(code, null, len, good) ==
    CASE code \in {"NEW_SMS", "NEW_SMS_STATUS_REPORT", "NITZ_TIME_RECEIVED"} -> responseString(null, len)
      [] code = "ON_USSD" -> responseStrings(null, len)
      [] code = "NEW_SMS_ON_SIM" -> responseInts(null, len)
      [] code = "UNSOL_SIGNAL_STRENGTH" -> responseRilSignalStrength(null, len)
      [] code = "DATA_CALL_LIST_CHANGED" -> responseDataCallList(null, len)
      [] code = "SUPP_SVC_NOTIFICATION" -> responseSsn(null, len)
      [] code = "SIM_REFRESH" -> responseSimRefresh(null, len)
      [] code = "CALL_RING" -> responseCallRing(null, len)
      [] code = "CDMA_NEW_SMS" -> responseCdmaSms(null, len)
      [] code = "CDMA_CALL_WAITING" -> responseCdmaCallWaiting(null, len)
      [] code = "CDMA_INFO_REC" -> responseCdmaInformationRecords(null, len, good)
      [] OTHER -> responseVoid(null, len)

-----------------------------------------------------------------------------
(***************************************************************************)
(* What a RIL answers: the structure it means for a request or report, and *)
(* how many of them.                                                       *)
(***************************************************************************)
Length(form, n) == IF form \in {"string", "nothing"} THEN IF n = 0 THEN 0 ELSE Word ELSE n * SizeOf(form)

Answer(codes, forms, counts) ==
    {[code |-> c, form |-> f, count |-> n] : c \in codes, f \in forms, n \in counts}

StrengthForm == IF Version >= 6 THEN "strength_v6" ELSE "strength_v5"
CallForm == IF Version >= 6 THEN "call_v6" ELSE "call_v4"
CardForm == IF Version >= 6 THEN "card_v6" ELSE "card_v5"

\* What samsung-ril completes requests with.
SamsungAnswers ==
    Answer({"ENTER_SIM_PIN", "LAST_CALL_FAIL_CAUSE", "QUERY_FACILITY_LOCK", "LAST_DATA_CALL_FAIL_CAUSE",
            "QUERY_NETWORK_SELECTION_MODE", "GET_PREFERRED_NETWORK_TYPE"}, {"int"}, {1})
    \cup Answer({"OPERATOR"}, {"pointer"}, {3})
    \cup Answer({"VOICE_REGISTRATION_STATE"}, {"pointer"}, {15})
    \cup Answer({"DATA_REGISTRATION_STATE"}, {"pointer"}, {5})
    \cup Answer({"QUERY_AVAILABLE_NETWORKS"}, {"pointer"}, {4 * n : n \in 1 .. MaxCount})
    \cup Answer({"GET_CURRENT_CALLS"}, {"pointer"}, 1 .. MaxCount)
    \cup Answer({"GET_IMSI", "GET_IMEI", "GET_IMEISV", "BASEBAND_VERSION"}, {"string"}, {1})
    \cup Answer({"SIGNAL_STRENGTH"}, {StrengthForm}, {1})
    \cup Answer({"SEND_SMS"}, {"sms"}, {1})
    \cup Answer({"SETUP_DATA_CALL"}, {CallForm}, {1})
    \cup Answer({"DATA_CALL_LIST"}, {CallForm}, 0 .. 3)
    \cup Answer({"SIM_IO"}, {"sim_io"}, {1})
    \cup Answer({"GET_SIM_STATUS"}, {CardForm}, {1})
    \cup Answer({"OEM_HOOK_RAW"}, {"byte"}, 1 .. MaxCount)

SamsungReports ==
    Answer({"NEW_SMS", "NEW_SMS_STATUS_REPORT", "NITZ_TIME_RECEIVED"}, {"string"}, {1})
    \cup Answer({"UNSOL_SIGNAL_STRENGTH"}, {StrengthForm}, {1})
    \cup Answer({"DATA_CALL_LIST_CHANGED"}, {CallForm}, 0 .. 3)
    \cup Answer({"CALL_RING", "CALL_STATE_CHANGED"}, {"nothing"}, {0})

\* What any RIL of this version may send.
RilAnswers ==
    Answer({"WRITE_SMS_TO_SIM"}, {"int"}, 1 .. MaxCount)
    \cup Answer({"QUERY_CALL_FORWARD_STATUS", "GET_NEIGHBORING_CELL_IDS", "GET_CURRENT_CALLS"},
                {"pointer"}, 0 .. MaxCount)
    \cup Answer({"SIGNAL_STRENGTH"}, {"strength_v5", "strength_v6", "strength_v10"}, {1})
    \cup Answer({"DATA_CALL_LIST"}, CallVersions, 0 .. MaxCount)
    \cup Answer({"GET_SIM_STATUS"}, CardVersions, {1})
    \cup Answer({"GSM_GET_BROADCAST_SMS_CONFIG"}, {"gsm_config"}, 0 .. MaxCount)
    \cup Answer({"CDMA_GET_BROADCAST_SMS_CONFIG"}, {"cdma_config"}, 0 .. MaxCount)

RilReports ==
    Answer({"ON_USSD"}, {"pointer"}, 1 .. 2)
    \cup Answer({"NEW_SMS_ON_SIM"}, {"int"}, {1})
    \cup Answer({"SUPP_SVC_NOTIFICATION"}, {"notification"}, {1})
    \cup Answer({"SIM_REFRESH"}, {IF Version = 7 THEN "refresh_v7" ELSE "refresh_v6"}, {1})
    \cup Answer({"CALL_RING"}, {"signal_info"}, {1})
    \cup Answer({"CDMA_NEW_SMS"}, {"cdma_sms"}, {1})
    \cup Answer({"CDMA_CALL_WAITING"}, {"waiting_v5", "waiting_v6"}, {1})
    \cup Answer({"CDMA_INFO_REC"}, {"records"}, {1})

Answers == IF Samsung THEN SamsungAnswers ELSE RilAnswers
Reports == IF Samsung THEN SamsungReports ELSE RilReports

\* The requests and reports that come without data.
Bare == IF Samsung THEN {"WRITE_SMS_TO_SIM", "GET_CURRENT_CALLS", "RADIO_POWER"} ELSE {"RADIO_POWER"}

NotSent == [code |-> "none", form |-> "nothing", count |-> 0, null |-> TRUE, len |-> 0,
            error |-> "none", solicited |-> FALSE]
NotWritten == [error |-> "none", as |-> "nothing", count |-> 0]

Init == sent = NotSent /\ written = NotWritten

Message(a, null, len, error, solicited) ==
    [code |-> a.code, form |-> a.form, count |-> a.count, null |-> null, len |-> len,
     error |-> error, solicited |-> solicited]

\* The error goes first; an answer that cannot be read overwrites it.  No response is written for
\* NULL, whatever the row says.
RIL_onRequestComplete(msg) ==
    LET r == s_commands(msg.code, msg.null, msg.len)
    IN  /\ sent' = msg
        /\ written' = CASE msg.null -> [error |-> msg.error, as |-> "nothing", count |-> 0]
                        [] ~msg.null /\ r = Invalid ->
                             [error |-> "INVALID_RESPONSE", as |-> "nothing", count |-> 0]
                        [] OTHER -> [error |-> msg.error, as |-> r.as, count |-> r.count]

\* An unsolicited response that cannot be read is not sent.
RIL_onUnsolicitedResponse(msg, good) ==
    LET r == s_unsolResponses(msg.code, msg.null, msg.len, good)
    IN  /\ sent' = msg
        /\ written' = IF r = Invalid THEN NotWritten
                      ELSE [error |-> "unsolicited", as |-> r.as, count |-> r.count]

Errors == {"SUCCESS", "GENERIC_FAILURE"}

\* A request is completed with a structure the RIL means for it.
Complete ==
    /\ sent = NotSent
    /\ \E a \in Answers, e \in Errors :
         RIL_onRequestComplete(Message(a, FALSE, Length(a.form, a.count), e, TRUE))

\* A request is completed without one.
CompleteBare ==
    /\ sent = NotSent
    /\ \E code \in Bare \cup {a.code : a \in Answers}, e \in Errors :
         /\ code \notin Bare => e # "SUCCESS"
         /\ RIL_onRequestComplete(Message([code |-> code, form |-> "nothing", count |-> 0],
                                          TRUE, 0, e, TRUE))

\* A request is completed with something else, of any length.
CompleteWrong ==
    /\ sent = NotSent
    /\ \E a \in Answers, len \in 1 .. MaxLength, e \in Errors :
         RIL_onRequestComplete(Message([a EXCEPT !.form = "other", !.count = 1], FALSE, len, e, TRUE))

Report ==
    /\ sent = NotSent
    /\ \E a \in Reports, good \in BOOLEAN :
         RIL_onUnsolicitedResponse(
           Message(a, a.form = "nothing", Length(a.form, a.count), "unsolicited", FALSE),
           good \/ a.code # "CDMA_INFO_REC")

\* The parcel is on its way (sendResponse) and the next answer can be taken.
Sent == sent # NotSent /\ sent' = NotSent /\ written' = NotWritten

Next == Sent \/ Complete \/ CompleteBare \/ CompleteWrong \/ Report

Spec == Init /\ [][Next]_vars

-----------------------------------------------------------------------------
\* Nothing that a response function gave up on is in a parcel that is sent.
TypeOK ==
    /\ sent.error \in Errors \cup {"unsolicited", "none"}
    /\ written.error \in Errors \cup {"INVALID_RESPONSE", "unsolicited", "none"}
    /\ written.as # "invalid"
    /\ written.count \in Nat

\* An answer reaches the phone as the structure the RIL meant, with all its elements: no two
\* structures that a request may be answered with are confused because of their lengths.  (An empty
\* list is an empty list in every version, and a report that is not sent is none.)
ReadAsSent ==
    sent.form \notin {"other", "nothing"} =>
      \/ written.as = sent.form /\ written.count = sent.count /\ written.error = sent.error
      \/ sent.count = 0 /\ written.count = 0
      \/ sent.code = "CDMA_INFO_REC" /\ written = NotWritten

\* The phone never takes an answer for a success when the response function could not read it.
NoSuccessUnread ==
    sent.solicited /\ ~sent.null /\ s_commands(sent.code, sent.null, sent.len) = Invalid =>
      written.error \notin Errors
=============================================================================
