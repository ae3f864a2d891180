----------------------------- MODULE MockMessages -----------------------------
(***************************************************************************)
(* The way of a request through the mock RIL and back: conversion of its    *)
(* data to a protobuf and the request queue (requests.cpp), the dispatch to  *)
(* the workers of the simulated card and radio (mock_ril.js, worker_v8.cpp), *)
(* the handlers that only read or set a value (simulated_icc.js,            *)
(* simulated_radio.js), and the conversion of the answer (responses.cpp).   *)
(*                                                                         *)
(* Everything that touches V8 holds its Locker, so adding a request,        *)
(* processing one and running a worker's function are one step each.  A     *)
(* Buffer is an object of the JavaScript heap; the C++ side keeps a plain   *)
(* pointer and the heap only a weak handle (node_object_wrap.h), so the     *)
(* collector may free it.  Why the radio refuses a call request is          *)
(* SimulatedRadio's matter; here it may refuse any of them.                 *)
(***************************************************************************)
EXTENDS Integers, Sequences, FiniteSets, SequencesExt, TLC, Scenario

\* The instances.
\* the requests the framework makes
Made == InRun([
     safety |-> {"GET_SIM_STATUS", "ENTER_SIM_PIN", "DIAL", "GET_CURRENT_CALLS", "GET_IMSI", "HANGUP", "HANGUP_WAITING",
        "HANGUP_FOREGROUND", "SWITCH", "CONFERENCE", "LAST_CALL_FAIL_CAUSE",
        "VOICE_REGISTRATION", "DATA_REGISTRATION", "OPERATOR", "GET_IMEI", "GET_IMEISV",
        "ANSWER", "NETWORK_SELECTION", "SET_AUTOMATIC", "BASEBAND_VERSION", "SEPARATE",
        "SET_MUTE", "SCREEN_STATE", "SIGNAL_STRENGTH", "OTHER"},
     further |-> {"SCREEN_STATE", "GET_IMSI"},
     progress |-> {"SCREEN_STATE", "DIAL", "GET_SIM_STATUS"}])
MaxRequests == InRun([safety |-> 1, further |-> 2, progress |-> 2])  \* how many of them
Collects == InRun([safety |-> FALSE, further |-> TRUE])  \* the garbage collector runs

VARIABLES
    started,      \* RIL_Init has returned
    crashed,
    made,         \* the requests, by token
    heap,         \* the Buffers: None where there is none
    emptyBuffer,  \* the static pointer of ReqWithNoData
    rec,          \* the Request records
    freeList,     \* free_list_
    queue,        \* the request worker's queue, of records
    icc,          \* the queue of simulatedIccWorker
    radio,        \* the queue of simulatedRadioWorker
    gRadioState, muteState, screenState,
    told,         \* the radio state at the last report of a change
    strengthTold, \* the signal strength last reported, or None
    arrived,      \* ghost: the data each request reached its handler with
    sent,         \* ghost: what the handler answered
    answers       \* what OnRequestComplete was called with, in order

settings == <<gRadioState, muteState, screenState>>
reports == <<told, strengthTold>>
ghosts == <<arrived, sent>>
vars == <<started, crashed, made, heap, emptyBuffer, rec, freeList, queue, icc, radio,
          settings, reports, ghosts, answers>>

Token == 1 .. MaxRequests
Address == 1 .. MaxRequests + 1

-----------------------------------------------------------------------------
(* The tables.                                                             *)

CallRequests == {"HANGUP_WAITING", "HANGUP_FOREGROUND", "SWITCH", "CONFERENCE", "ANSWER"}
StringQueries == {"GET_IMSI", "GET_IMEI", "GET_IMEISV", "BASEBAND_VERSION"}
Queries == StringQueries \cup
    {"GET_SIM_STATUS", "GET_CURRENT_CALLS", "LAST_CALL_FAIL_CAUSE", "SIGNAL_STRENGTH",
     "VOICE_REGISTRATION", "DATA_REGISTRATION", "OPERATOR", "NETWORK_SELECTION"}
Booleans == {"SET_MUTE", "SCREEN_STATE"}
Numbers == {"ENTER_SIM_PIN", "HANGUP", "SEPARATE", "DIAL"}

\* requestsInit: the rows of rilReqConversionMap.
rilReqConversionMap ==
    [n \in CallRequests \cup Queries \cup {"SET_AUTOMATIC"} |-> "ReqWithNoData"]
    @@ ("SET_MUTE" :> "ReqSetMute") @@ ("SCREEN_STATE" :> "ReqScreenState")
    @@ ("ENTER_SIM_PIN" :> "ReqEnterSimPin") @@ ("DIAL" :> "ReqDial")
    @@ ("HANGUP" :> "ReqHangUp") @@ ("SEPARATE" :> "ReqSeparateConnection")

\* dispatchTable: the component of each row.
Icc == {"GET_SIM_STATUS", "ENTER_SIM_PIN", "GET_IMSI", "OPERATOR", "GET_IMEI", "GET_IMEISV"}
Component(n) == IF n \in Icc THEN "icc" ELSE "radio"

\* responsesInit: the rows of rilRspConversionMap; DIAL has none.
rilRspConversionMap ==
    [n \in CallRequests \cup Booleans \cup {"HANGUP", "SEPARATE", "SET_AUTOMATIC"}
        |-> "RspWithNoData"]
    @@ [n \in StringQueries |-> "RspString"]
    @@ [n \in {"LAST_CALL_FAIL_CAUSE", "NETWORK_SELECTION"} |-> "RspIntegers"]
    @@ [n \in {"VOICE_REGISTRATION", "DATA_REGISTRATION"} |-> "RspStrings"]
    @@ ("GET_SIM_STATUS" :> "RspGetSimStatus") @@ ("ENTER_SIM_PIN" :> "RspEnterSimPinData")
    @@ ("GET_CURRENT_CALLS" :> "RspGetCurrentCalls")
    @@ ("SIGNAL_STRENGTH" :> "RspSignalStrength") @@ ("OPERATOR" :> "RspOperator")

\* libril's side: how the answer to each request is read (ril_commands.h).
librilReads ==
    [n \in CallRequests \cup Booleans \cup
           {"HANGUP", "SEPARATE", "SET_AUTOMATIC", "DIAL"} |-> "nothing"]
    @@ [n \in StringQueries |-> "string"]
    @@ [n \in {"LAST_CALL_FAIL_CAUSE", "NETWORK_SELECTION", "ENTER_SIM_PIN"} |-> "ints"]
    @@ [n \in {"VOICE_REGISTRATION", "DATA_REGISTRATION", "OPERATOR"} |-> "strings"]
    @@ ("GET_SIM_STATUS" :> "card") @@ ("GET_CURRENT_CALLS" :> "calls")
    @@ ("SIGNAL_STRENGTH" :> "strength")

-----------------------------------------------------------------------------
(* Requests.                                                               *)

\* The data of a request: what it is about, and for DIAL the user-user
\* information.  It may be too short to be read.
Data(n) ==
    IF n \in Booleans \cup Numbers
    THEN [arg : {0, 1, 2}, uus : IF n = "DIAL" THEN BOOLEAN ELSE {FALSE}, short : {FALSE}]
         \cup {[arg |-> 0, uus |-> FALSE, short |-> TRUE]}
    ELSE {None}

TooShort(d) == d # None /\ d.short

Init ==
    /\ started = FALSE /\ crashed = FALSE /\ made = <<>>
    /\ heap = [a \in Address |-> None] /\ emptyBuffer = None
    /\ rec = <<>> /\ freeList = <<>> /\ queue = <<>> /\ icc = <<>> /\ radio = <<>>
    /\ gRadioState = "UNAVAILABLE" /\ muteState = 0 /\ screenState = 0
    /\ told = "UNAVAILABLE" /\ strengthTold = None
    /\ arrived = <<>> /\ sent = <<>> /\ answers = <<>>

\* currentState, which libril calls for each report of a radio state.
currentState == gRadioState

\* setRadioState: gRadioState is set, and the change reported.
setRadioState(s) == gRadioState' = s /\ told' = currentState'

\* RIL_Init: V8, the tables, mock_ril.js and the workers, RIL_register and
\* startMockRil, all under the Locker.
RIL_Init ==
    /\ ~started /\ started' = TRUE /\ setRadioState("SIM_READY")
    /\ UNCHANGED <<crashed, made, heap, emptyBuffer, rec, freeList, queue, icc, radio,
                   muteState, screenState, strengthTold, ghosts, answers>>

\* The conversions of requests.  A protobuf's optional field is there only if it
\* was set through the message.
ReqMessage(arg) == [arg |-> arg, uus |-> FALSE]
ReqWithNoData == ReqMessage(0)
ReqEnterSimPin(d) == ReqMessage(d.arg)

\* ReqDial writes the user-user information to what uus_info() returns: the default
\* instance, which all messages share and none serializes.
ReqDial(d) == ReqMessage(d.arg)

ReqHangUp(d) == ReqMessage(d.arg)
ReqSeparateConnection(d) == ReqMessage(d.arg)

\* Mutant of ReqSetMute: the number is stored as it is.
MuteAsNumber(d) == ReqMessage(d.arg)

\* A number stored in a bool.
ReqSetMute(d) == ReqMessage(IF d.arg = 0 THEN 0 ELSE 1)
ReqScreenState(d) == ReqMessage(IF d.arg = 0 THEN 0 ELSE 1)

Serialized(n, d) ==
    CASE rilReqConversionMap[n] = "ReqWithNoData" -> ReqWithNoData
      [] rilReqConversionMap[n] = "ReqEnterSimPin" -> ReqEnterSimPin(d)
      [] rilReqConversionMap[n] = "ReqDial" -> ReqDial(d)
      [] rilReqConversionMap[n] = "ReqHangUp" -> ReqHangUp(d)
      [] rilReqConversionMap[n] = "ReqSeparateConnection" -> ReqSeparateConnection(d)
      [] rilReqConversionMap[n] = "ReqSetMute" -> ReqSetMute(d)
      [] rilReqConversionMap[n] = "ReqScreenState" -> ReqScreenState(d)

\* OnRequestComplete, called by AddRequest or by SendRilRequestComplete.
Complete(t, err, data) ==
    answers' = Append(answers, [tok |-> t, err |-> err, data |-> data])

\* Buffer::New: the object is wherever malloc puts it.
NewBuffer(b, content) == heap[b] = None /\ heap' = [heap EXCEPT ![b] = content]

\* Mutant of AddRequest: a request whose data is too short is only logged.
AddRequestSilent(n, d) ==
    LET t == Len(made) + 1 IN
    /\ IF n \in DOMAIN rilReqConversionMap
       THEN UNCHANGED answers ELSE Complete(t, "NOT_SUPPORTED", None)
    /\ UNCHANGED <<heap, emptyBuffer, rec, freeList, queue>>

\* AddRequest when there is no conversion or it fails: answered at once.
AddRequestFails(n, d) ==
    /\ Complete(Len(made) + 1,
                IF n \in DOMAIN rilReqConversionMap THEN "GENERIC_FAILURE" ELSE "NOT_SUPPORTED",
                None)
    /\ UNCHANGED <<heap, emptyBuffer, rec, freeList, queue>>

\* The Buffer a conversion returns: the static empty one, made by the first
\* request without data, or a new one.
Converted(n, d, b) ==
    IF rilReqConversionMap[n] = "ReqWithNoData" /\ emptyBuffer # None
    THEN b = emptyBuffer /\ UNCHANGED <<heap, emptyBuffer>>
    ELSE /\ NewBuffer(b, Serialized(n, d))
         /\ emptyBuffer' = IF rilReqConversionMap[n] = "ReqWithNoData" THEN b ELSE emptyBuffer

\* AddRequest: a new record, or one of the free list, is added to the queue.
Enqueue(r) ==
    IF freeList = <<>>
    THEN rec' = Append(rec, r) /\ queue' = Append(queue, Len(rec) + 1) /\ UNCHANGED freeList
    ELSE /\ rec' = [rec EXCEPT ![Head(freeList)] = r]
         /\ queue' = Append(queue, Head(freeList)) /\ freeList' = Tail(freeList)

\* onRequest calls AddRequest.
onRequest(n, d) ==
    /\ started /\ ~crashed /\ Len(made) < MaxRequests
    /\ made' = Append(made, [num |-> n, data |-> d])
    /\ \/ /\ n \notin DOMAIN rilReqConversionMap \/ TooShort(d)
          /\ AddRequestFails(n, d)
       \/ /\ n \in DOMAIN rilReqConversionMap /\ ~TooShort(d)
          /\ \E b \in Address :
                /\ Converted(n, d, b)
                /\ Enqueue([num |-> n, tok |-> Len(made) + 1, buf |-> b])
          /\ UNCHANGED answers
    /\ UNCHANGED <<started, crashed, icc, radio, settings, reports, ghosts>>

\* The collector runs while JavaScript does: no Buffer of the C++ side is
\* reachable, so each is freed (WeakCallback).
Collect ==
    /\ Collects /\ started /\ ~crashed
    /\ heap' = [a \in Address |-> None] /\ heap' # heap
    /\ UNCHANGED <<started, crashed, made, emptyBuffer, rec, freeList, queue, icc, radio,
                   settings, reports, ghosts, answers>>

\* WorkerV8::Add: a persistent handle keeps the request until it is processed.
WorkerAdd(worker, item) == Append(worker, item)

\* Handler::Process: the function ran with the item, whose handle is disposed of.
WorkerProcess(worker) == Tail(worker)

\* callOnRilRequest and onRilRequest: the component of the row gets the parsed
\* request.  Every row that can be converted has a component.
onRilRequest(n, t, d) ==
    LET item == [num |-> n, tok |-> t, data |-> d] IN
    /\ icc' = IF Component(n) = "icc" THEN WorkerAdd(icc, item) ELSE icc
    /\ radio' = IF Component(n) = "radio" THEN WorkerAdd(radio, item) ELSE radio

\* The Buffer was freed: its handle is empty, and V8 fails.
UsesFreed ==
    /\ started /\ ~crashed /\ queue # <<>> /\ heap[rec[Head(queue)].buf] = None
    /\ crashed' = TRUE
    /\ UNCHANGED <<started, made, heap, emptyBuffer, rec, freeList, queue, icc, radio, settings,
                   reports, ghosts, answers>>

\* RilRequestWorkerQueue::Process: the record is free once JavaScript has the
\* request.  A Buffer that was freed and made again holds another request's data.
Process ==
    /\ started /\ ~crashed /\ queue # <<>>
    /\ LET r == rec[Head(queue)] IN
        /\ heap[r.buf] # None
        /\ onRilRequest(r.num, r.tok, heap[r.buf])
    /\ queue' = Tail(queue) /\ freeList' = Append(freeList, Head(queue))
    /\ UNCHANGED <<started, crashed, made, heap, emptyBuffer, rec, settings, reports, ghosts,
                   answers>>

-----------------------------------------------------------------------------
(* The simulated card and radio, and their answers.                        *)

Message(kind, val) == [kind |-> kind, val |-> val]
Empty == Message("nothing", None)

\* The protobufs the handlers serialize.
rilRequestGetSimStatus == Message("card", <<"application", "no CDMA application">>)
rilRequestEnterSimPin == Message("retries", 3)
rilRequestGetImsi == Message("strings", <<"imsi">>)
rilRequestGetImei == Message("strings", <<"imei">>)
rilRequestGetImeisv == Message("strings", <<"imeisv">>)
rilRequestBaseBandVersion == Message("strings", <<"version">>)
rilRequestOperator == Message("operator", <<"long", "short", "plmn">>)
rilRequestGetCurrentCalls == Message("calls", <<"call", "call">>)
rilRequestSignalStrength == Message("strength", 10)
rilRequestLastCallFailCause == Message("ints", <<16>>)
rilRequestQueryNeworkSelectionMode == Message("ints", <<0>>)
rilRequestVoiceRegistrationState == Message("strings", <<"1", "0", "*magic-null*">>)
rilRequestDataRegistrationState == Message("strings", <<"1", "0">>)

\* The dispatch tables of the card and of the radio.
Handled(n) ==
    CASE n = "GET_SIM_STATUS" -> rilRequestGetSimStatus
      [] n = "ENTER_SIM_PIN" -> rilRequestEnterSimPin
      [] n = "GET_IMSI" -> rilRequestGetImsi
      [] n = "GET_IMEI" -> rilRequestGetImei
      [] n = "GET_IMEISV" -> rilRequestGetImeisv
      [] n = "BASEBAND_VERSION" -> rilRequestBaseBandVersion
      [] n = "OPERATOR" -> rilRequestOperator
      [] n = "GET_CURRENT_CALLS" -> rilRequestGetCurrentCalls
      [] n = "SIGNAL_STRENGTH" -> rilRequestSignalStrength
      [] n = "LAST_CALL_FAIL_CAUSE" -> rilRequestLastCallFailCause
      [] n = "NETWORK_SELECTION" -> rilRequestQueryNeworkSelectionMode
      [] n = "VOICE_REGISTRATION" -> rilRequestVoiceRegistrationState
      [] n = "DATA_REGISTRATION" -> rilRequestDataRegistrationState
      [] OTHER -> Empty

\* rilRequestSetMute sets the state, and then looks at the radio.
rilRequestSetMute(item) ==
    muteState' = IF item.num = "SET_MUTE" THEN item.data.arg ELSE muteState
MuteOutcome == IF gRadioState = "UNAVAILABLE" THEN "RADIO_NOT_AVAILABLE" ELSE "SUCCESS"

rilRequestScreenState(item) ==
    screenState' = IF item.num = "SCREEN_STATE" THEN item.data.arg ELSE screenState

\* What a handler may answer with.
Outcomes(n) ==
    CASE n \in CallRequests \cup {"DIAL", "HANGUP", "SEPARATE"} -> {"SUCCESS", "GENERIC_FAILURE"}
      [] n = "SET_MUTE" -> {MuteOutcome}
      [] OTHER -> {"SUCCESS"}

\* Memory the code never writes.
Uninitialized == {0, 10}

\* unmarshallRilSignalStrength fills a local variable, and not the one it was given.
unmarshallRilSignalStrength(msg) == Uninitialized

\* The conversions of answers: the data each may complete the request with.
RspWithNoData == {Empty}
RspStrings(msg) ==
    {Message("strings", [i \in DOMAIN msg.val |->
                            IF msg.val[i] = "*magic-null*" THEN "null" ELSE msg.val[i]])}
RspString(msg) == {Message("string", Head(msg.val))}
RspIntegers(msg) == {Message("ints", msg.val)}

\* RspGetSimStatus sets all but the index of the CDMA application.
RspGetSimStatus(msg) ==
    {Message("card", <<msg.val[1], x>>) : x \in {"no CDMA application", "anything"}}

RspEnterSimPinData(msg) == {Message("ints", <<msg.val>>)}
RspGetCurrentCalls(msg) == {Message("calls", [i \in DOMAIN msg.val |-> msg.val[i]])}
RspSignalStrength(msg) == {Message("strength", x) : x \in unmarshallRilSignalStrength(msg)}
RspOperator(msg) == {Message("strings", msg.val)}

ConvertedData(n, msg) ==
    LET conversion == rilRspConversionMap[n] IN
    CASE conversion = "RspWithNoData" -> RspWithNoData
      [] conversion = "RspString" -> RspString(msg)
      [] conversion = "RspStrings" -> RspStrings(msg)
      [] conversion = "RspIntegers" -> RspIntegers(msg)
      [] conversion = "RspGetSimStatus" -> RspGetSimStatus(msg)
      [] conversion = "RspEnterSimPinData" -> RspEnterSimPinData(msg)
      [] conversion = "RspGetCurrentCalls" -> RspGetCurrentCalls(msg)
      [] conversion = "RspSignalStrength" -> RspSignalStrength(msg)
      [] conversion = "RspOperator" -> RspOperator(msg)

\* Mutant of SendRilRequestComplete: every answer without data is a success.
EmptyIsSuccess(n, t, err, msg) ==
    IF msg = Empty THEN Complete(t, "SUCCESS", Empty)
    ELSE \E data \in ConvertedData(n, msg) : Complete(t, err, data)

\* SendRilRequestComplete: without a conversion and without data, the request
\* succeeded.  No handler without a conversion answers with data.
SendRilRequestComplete(n, t, err, msg) ==
    IF n \in DOMAIN rilRspConversionMap
    THEN \E data \in ConvertedData(n, msg) : Complete(t, err, data)
    ELSE Complete(t, "SUCCESS", None)

Answer(item, err) ==
    /\ SendRilRequestComplete(item.num, item.tok, err, Handled(item.num))
    /\ arrived' = Append(arrived, item)
    /\ sent' = Append(sent, [tok |-> item.tok, err |-> err, msg |-> Handled(item.num)])

\* Icc.process.
RunIcc ==
    /\ started /\ ~crashed /\ icc # <<>>
    /\ Answer(Head(icc), "SUCCESS") /\ icc' = WorkerProcess(icc)
    /\ UNCHANGED <<started, crashed, made, heap, emptyBuffer, rec, freeList, queue, radio,
                   settings, reports>>

\* Radio.process.
RunRadio ==
    /\ started /\ ~crashed /\ radio # <<>>
    /\ LET item == Head(radio) IN
        /\ \E err \in Outcomes(item.num) : Answer(item, err)
        /\ rilRequestSetMute(item) /\ rilRequestScreenState(item)
    /\ radio' = WorkerProcess(radio)
    /\ UNCHANGED <<started, crashed, made, heap, emptyBuffer, rec, freeList, queue, icc,
                   gRadioState, reports>>

UnsolRspSignalStrength(msg) == unmarshallRilSignalStrength(msg)

\* Of the unsolicited responses only the signal strength has a conversion.
SendRilUnsolicitedResponse(msg) == strengthTold' \in UnsolRspSignalStrength(msg)

\* cmdUnsolSignalStrength, every minute.
cmdUnsolSignalStrength ==
    /\ started /\ ~crashed
    /\ SendRilUnsolicitedResponse(rilRequestSignalStrength)
    /\ UNCHANGED <<started, crashed, made, heap, emptyBuffer, rec, freeList, queue, icc, radio,
                   settings, told, ghosts, answers>>

\* ctrlSetRadioState, asked for by a control client.
ctrlSetRadioState(s) ==
    /\ started /\ ~crashed /\ gRadioState # s /\ setRadioState(s)
    /\ UNCHANGED <<started, crashed, made, heap, emptyBuffer, rec, freeList, queue, icc, radio,
                   muteState, screenState, strengthTold, ghosts, answers>>

Next ==
    \/ RIL_Init \/ Collect \/ UsesFreed \/ Process \/ RunIcc \/ RunRadio
    \/ cmdUnsolSignalStrength
    \/ \E n \in Made : \E d \in Data(n) : onRequest(n, d)
    \/ \E s \in {"UNAVAILABLE", "SIM_READY"} : ctrlSetRadioState(s)

Spec == Init /\ [][Next]_vars

-----------------------------------------------------------------------------
(* Properties.                                                             *)

\* The types of the variables.
TypeOK ==
    /\ started \in BOOLEAN /\ crashed \in BOOLEAN /\ Len(made) <= MaxRequests
    /\ DOMAIN heap = Address /\ emptyBuffer \in Address \cup {None}
    /\ \A r \in Range(rec) : r.tok \in DOMAIN made /\ r.buf \in Address
    /\ Range(queue) \subseteq DOMAIN rec /\ Range(freeList) \subseteq DOMAIN rec
    /\ gRadioState \in {"UNAVAILABLE", "SIM_READY"}
    /\ muteState \in {0, 1} /\ screenState \in {0, 1}
    /\ strengthTold \in Uninitialized \cup {None}

\* How often a token occurs in a sequence of records.
Occurrences(s, t) == Cardinality({i \in DOMAIN s : s[i].tok = t})

\* A request handed to onRequest is in exactly one place: the request queue, the
\* queue of one worker, or answered, once (the comment of onRequest: "Must be
\* completed with a call to RIL_onRequestComplete()").
OnePlace ==
    \A t \in DOMAIN made :
        Cardinality({i \in DOMAIN queue : rec[queue[i]].tok = t})
        + Occurrences(icc, t) + Occurrences(radio, t) + Occurrences(answers, t) = 1

\* The error code a handler passes to sendRilRequestComplete is the one the
\* framework gets, but for DIAL: rilRspConversionMap has no row for it, and an
\* answer without a conversion and without data is a success.
ErrorsSurvive ==
    \A a \in Range(answers), s \in Range(sent) :
        a.tok = s.tok /\ made[a.tok].num # "DIAL" => a.err = s.err

\* A handler finds the data the framework sent in the request it is called with,
\* through serializing, the queue of reused records and parsing; all but the
\* user-user information, which ReqDial loses, and as long as the collector frees
\* no Buffer (UsesFreed, Process).
DataArrives ==
    \A item \in Range(arrived) :
        LET d == made[item.tok].data IN
        d # None => /\ (d.arg = 0) = (item.data.arg = 0)
                    /\ item.num \in Numbers => d.arg = item.data.arg

\* The values of an answer are those the handler sent: the calls and the card
\* status but for the index of the CDMA application, which RspGetSimStatus does
\* not set, are those of the message, and a list of strings has a null pointer
\* for each stand-in and is the same otherwise.  The signal strength is never
\* the handler's (unmarshallRilSignalStrength).
AnswerAsSent ==
    \A a \in Range(answers), s \in Range(sent) :
        a.tok = s.tok /\ a.err = "SUCCESS" =>
            /\ s.msg.kind = "calls" => a.data.val = s.msg.val
            /\ s.msg.kind = "card" => a.data.val[1] = s.msg.val[1]
            /\ s.msg.kind = "strings" /\ a.data.kind = "strings" =>
                  /\ DOMAIN a.data.val = DOMAIN s.msg.val
                  /\ \A i \in DOMAIN a.data.val :
                        IF s.msg.val[i] = "*magic-null*" THEN a.data.val[i] = "null"
                        ELSE a.data.val[i] = s.msg.val[i]

\* A successful answer with data is laid out the way libril's response function for
\* that request reads it.
LibrilReads ==
    \A a \in Range(answers) :
        a.err = "SUCCESS" /\ a.data # None => a.data.kind = librilReads[made[a.tok].num]

\* Requests of one component keep their order: once none waits, the screen state is
\* the one of the last SCREEN_STATE.
LastScreenWins ==
    LET Screens == {t \in DOMAIN made : made[t].num = "SCREEN_STATE" /\ ~made[t].data.short}
        waiting == \E t \in Screens : Occurrences(arrived, t) = 0
    IN  ~waiting /\ Screens # {} =>
            LET last == CHOOSE t \in Screens : \A u \in Screens : u <= t IN
            (screenState = 0) = (made[last].data.arg = 0)
=============================================================================
