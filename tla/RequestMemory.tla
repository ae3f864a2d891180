--------------------------- MODULE RequestMemory ---------------------------
(***************************************************************************)
(* The data of a request on its way from the phone process to a handler.   *)
(*                                                                         *)
(* libril's event thread reads the fields of a parcel (one dispatch        *)
(* function per shape of request), calls the RIL and, when the call is     *)
(* back, frees the strings it read.  samsung-ril's ril_on_request copies   *)
(* the data, the strings it points to included, and its request loop,      *)
(* another thread, hands the copy to the handler some time later.  The     *)
(* handler, or the callback that goes on with the request, frees the       *)
(* copied strings.  The model is about these strings: every one is a       *)
(* block of the heap, owned by libril or by the RIL.                       *)
(*                                                                         *)
(* RIL_LOCK is held by ril_on_request, by a handler and by a callback, so  *)
(* each of them is one step.                                               *)
(***************************************************************************)
EXTENDS Integers, Sequences, FiniteSets, TLC, Scenario

\* The instances.
NULL == None
\* the RequestInfo's of libril, one per request
Tokens == InRun([safety |-> {"t1", "t2"}, further |-> {"t1"}])
\* the requests of a run, by name
Codes == InRun([
     safety |-> {"SIM_IO", "SET_FACILITY_LOCK", "DELETE_SMS_ON_SIM"},
     further |-> {"GET_SIM_STATUS", "ENTER_SIM_PIN", "ENTER_SIM_PUK", "ENTER_SIM_PIN2",
        "ENTER_SIM_PUK2", "CHANGE_SIM_PIN", "CHANGE_SIM_PIN2", "DIAL", "GET_IMSI",
        "RADIO_POWER", "DTMF", "SEND_SMS", "SETUP_DATA_CALL", "SIM_IO", "SET_CALL_FORWARD",
        "SMS_ACKNOWLEDGE", "DEACTIVATE_DATA_CALL", "QUERY_FACILITY_LOCK", "SET_FACILITY_LOCK",
        "SET_NETWORK_SELECTION_MANUAL", "DTMF_START", "SET_MUTE", "OEM_HOOK_RAW",
        "SCREEN_STATE", "WRITE_SMS_TO_SIM", "DELETE_SMS_ON_SIM", "SET_PREFERRED_NETWORK_TYPE",
        "CDMA_SEND_SMS", "CDMA_SMS_ACKNOWLEDGE", "GSM_SET_BROADCAST_SMS_CONFIG",
        "CDMA_SET_BROADCAST_SMS_CONFIG", "CDMA_WRITE_SMS_TO_RUIM",
        "SIM_TRANSMIT_APDU_CHANNEL", "IMS_SEND_SMS_3GPP", "IMS_SEND_SMS_3GPP2",
        "SET_INITIAL_ATTACH_APN", "NV_READ_ITEM", "NV_WRITE_ITEM", "SET_UICC_SUBSCRIPTION",
        "SIM_AUTHENTICATION", "SET_DATA_PROFILE"}])
Word == 4  \* sizeof (char *): 4 or 8; the devices are of 32 bits
Version == 6  \* s_callbacks.version, the RIL_VERSION samsung-ril is built for
\* the integers a request may carry
Values == InRun([safety |-> {1, 64}, further |-> {0, 1, 64, 16448}])

VARIABLES
    libril,     \* the dispatch function that runs: NULL, or its token, data and stage
    pending,    \* s_pendingRequests
    requests,   \* samsung-ril's list of requests: per token NULL or the entry
    heap,       \* the strings that are allocated
    faults,     \* wrong uses of the heap so far, and the use of a null pointer that ends the daemon
    seen,       \* the tokens used so far
    abandoned,  \* the requests that left samsung-ril before a handler took their data
    refused     \* the requests a handler refused because of the size of their data, and the data

vars == <<libril, pending, requests, heap, faults, seen, abandoned, refused>>

-----------------------------------------------------------------------------
(***************************************************************************)
(* libril: the shape of a request is the sequence of reads its dispatch    *)
(* function makes, the number of the last read whose status it tests, the  *)
(* strings it insists on, the strings it frees after the call and the size *)
(* it announces.                                                           *)
(***************************************************************************)
Shape(reads, checked, required, frees, size) ==
    [reads |-> reads, checked |-> checked, required |-> required, frees |-> frees, size |-> size]

Repeat(kind, n) == [i \in 1 .. n |-> kind]

dispatchVoid == Shape(<< >>, 0, {}, {}, 0)

\* The data is the string itself; the size announced is that of a pointer.
dispatchString == Shape(<<"text">>, 0, {}, {}, Word)

\* The number of strings comes first.
dispatchStrings(n) == Shape(<<"int">> \o Repeat("str", n), 1, {}, 2 .. n + 1, n * Word)

dispatchInts(n) == Shape(Repeat("int", n + 1), n + 1, {}, {}, n * 4)

dispatchSmsWrite == Shape(<<"int", "str", "str">>, 1, {2}, {2}, 3 * Word)

\* A dial string, clir and whether user-to-user information follows.
dispatchDial == Shape(<<"str", "int", "int">>, 3, {1}, {1}, 3 * Word)

SizeOfSimIO(version) == CASE version < 6 /\ Word = 4 -> 32 [] version < 6 /\ Word = 8 -> 48
                          [] version >= 6 /\ Word = 4 -> 36 [] OTHER -> 56

\* A version 5 RIL does not look at the last field.
dispatchSIM_IO ==
    Shape(<<"int", "int", "str", "int", "int", "int", "str", "str", "str">>, 6, {}, {3, 7, 8, 9},
          SizeOfSimIO(Version))

dispatchCallForward == Shape(<<"int", "int", "int", "int", "str", "int">>, 6, {}, {5},
                             IF Word = 4 THEN 24 ELSE 32)

\* Bytes in the parcel itself, four of them here: the header of an OEM hook, whose first byte, the
\* tag, is 1.
dispatchRaw == Shape(<<"int", "raw">>, 1, {}, {}, 4)

\* Fourteen fixed fields and one byte of bearer data; status is that of the last read.
dispatchCdmaSms == Shape(Repeat("int", 15), 15, {}, {}, 372)

dispatchCdmaSmsAck == Shape(<<"int", "int">>, 2, {}, {}, 8)

\* One entry of a broadcast configuration; the data is an array of pointers.
dispatchGsmBrSmsCnf == Shape(Repeat("int", 6), 6, {}, {}, Word)

dispatchCdmaBrSmsCnf == Shape(Repeat("int", 4), 4, {}, {}, Word)

\* The same with the status of the message in front.
dispatchRilCdmaSmsWriteArgs == Shape(Repeat("int", 16), 16, {}, {}, 376)

\* Six numbers and the command; the status of the last number is tested.
dispatchSIM_APDU == Shape(Repeat("int", 6) \o <<"str">>, 6, {}, {7}, 24 + Word)

\* The format, the retry and the reference of a message over IMS come first.  (A request of an
\* unknown format is dropped like one that ends behind them.)
ImsHeader == Repeat("int", 3)

dispatchImsGsmSms ==
    Shape(ImsHeader \o dispatchStrings(2).reads, 4, {}, {5, 6}, 9 + dispatchStrings(2).size)

dispatchImsCdmaSms ==
    Shape(ImsHeader \o dispatchCdmaSms.reads, 18, {}, {}, 9 + dispatchCdmaSms.size)

\* Two strings, the kind of authentication and two strings.
dispatchSetInitialAttachApn ==
    Shape(<<"str", "str", "int", "str", "str">>, 3, {}, {1, 2, 4, 5}, 5 * Word)

dispatchNVReadItem == Shape(<<"int">>, 1, {}, {}, 4)

dispatchNVWriteItem == Shape(<<"int", "str">>, 1, {2}, {2}, 2 * Word)

dispatchUiccSubscripton == Shape(Repeat("int", 4), 4, {}, {}, 16)

dispatchSimAuthentication == Shape(<<"int", "str", "str">>, 1, {}, {2, 3}, 3 * Word)

\* One profile, whose strings are not freed; the data is an array of pointers.
dispatchDataProfile ==
    Shape(<<"int", "int", "str", "str", "int", "str", "str">> \o Repeat("int", 5), 12, {}, {}, Word)

\* A RIL of version 4 or later gets all the parameters there are: seven.
dispatchDataCall == dispatchStrings(7)

\* The rows of the command table for the requests that carry data, and one that carries none; a
\* message over IMS has a row for each of its formats.
s_commands ==
    [GET_SIM_STATUS |-> dispatchVoid, ENTER_SIM_PIN |-> dispatchStrings(2),
     ENTER_SIM_PUK |-> dispatchStrings(3), ENTER_SIM_PIN2 |-> dispatchStrings(2),
     ENTER_SIM_PUK2 |-> dispatchStrings(3), CHANGE_SIM_PIN |-> dispatchStrings(3),
     CHANGE_SIM_PIN2 |-> dispatchStrings(3), DIAL |-> dispatchDial,
     GET_IMSI |-> dispatchStrings(1), RADIO_POWER |-> dispatchInts(1), DTMF |-> dispatchString,
     SEND_SMS |-> dispatchStrings(2), SETUP_DATA_CALL |-> dispatchDataCall,
     SIM_IO |-> dispatchSIM_IO, SET_CALL_FORWARD |-> dispatchCallForward,
     SMS_ACKNOWLEDGE |-> dispatchInts(2), DEACTIVATE_DATA_CALL |-> dispatchStrings(2),
     QUERY_FACILITY_LOCK |-> dispatchStrings(4), SET_FACILITY_LOCK |-> dispatchStrings(5),
     SET_NETWORK_SELECTION_MANUAL |-> dispatchString, DTMF_START |-> dispatchString,
     SET_MUTE |-> dispatchInts(1), OEM_HOOK_RAW |-> dispatchRaw, SCREEN_STATE |-> dispatchInts(1),
     WRITE_SMS_TO_SIM |-> dispatchSmsWrite, DELETE_SMS_ON_SIM |-> dispatchInts(1),
     SET_PREFERRED_NETWORK_TYPE |-> dispatchInts(1), CDMA_SEND_SMS |-> dispatchCdmaSms,
     CDMA_SMS_ACKNOWLEDGE |-> dispatchCdmaSmsAck,
     GSM_SET_BROADCAST_SMS_CONFIG |-> dispatchGsmBrSmsCnf,
     CDMA_SET_BROADCAST_SMS_CONFIG |-> dispatchCdmaBrSmsCnf,
     CDMA_WRITE_SMS_TO_RUIM |-> dispatchRilCdmaSmsWriteArgs,
     SIM_TRANSMIT_APDU_CHANNEL |-> dispatchSIM_APDU, IMS_SEND_SMS_3GPP |-> dispatchImsGsmSms,
     IMS_SEND_SMS_3GPP2 |-> dispatchImsCdmaSms,
     SET_INITIAL_ATTACH_APN |-> dispatchSetInitialAttachApn,
     NV_READ_ITEM |-> dispatchNVReadItem, NV_WRITE_ITEM |-> dispatchNVWriteItem,
     SET_UICC_SUBSCRIPTION |-> dispatchUiccSubscripton,
     SIM_AUTHENTICATION |-> dispatchSimAuthentication, SET_DATA_PROFILE |-> dispatchDataProfile]

(***************************************************************************)
(* A parcel is what the phone wrote: how many fields are there (a parcel   *)
(* may end early: every later read fails), which of them is a null string  *)
(* (0: none) and, for a request of one integer, the integer.               *)
(***************************************************************************)
TextLength(code) == IF code = "SET_NETWORK_SELECTION_MANUAL" THEN 6 ELSE 1

\* Only the index of a message on the SIM ranges over more than a few small numbers.
Carried(code) == IF code = "DELETE_SMS_ON_SIM" THEN Values ELSE {1}

Parcels(code) ==
    LET shape == s_commands[code]
        all == Len(shape.reads)
        strings == {i \in 1 .. all : shape.reads[i] \in {"str", "text"}}
    IN  [items : {all}, null : {0}, value : Carried(code)]
        \cup [items : {all}, null : strings, value : {1}]
        \cup [items : 0 .. all - 1, null : {0}, value : {1}]

Number == [is |-> "number"]
Unread == [is |-> "unread"]  \* a variable of the dispatch function that was never assigned
Nothing == [is |-> "NULL"]
Bytes(kind) == [is |-> kind]
Block(owner, t, i) == [is |-> "block", owner |-> owner, token |-> t, at |-> i]

\* strdupReadString gives a copy of the string or, when there is none, NULL; and bytes that are not
\* there are NULL.
Field(t, shape, p, i) ==
    CASE shape.reads[i] = "int" -> IF i <= p.items THEN Number ELSE Unread
      [] i > p.items \/ i = p.null -> Nothing
      [] shape.reads[i] = "str" -> Block("libril", t, i)
      [] OTHER -> Bytes(shape.reads[i])

Fields(t, shape, p) == [i \in 1 .. Len(shape.reads) |-> Field(t, shape, p, i)]

Strings(fields, which) == {fields[i] : i \in {j \in which \cap DOMAIN fields : fields[j].is = "block"}}

Readable(shape, p) ==
    /\ p.items >= shape.checked
    /\ \A i \in shape.required : i <= p.items /\ i # p.null

Init ==
    /\ libril = NULL
    /\ pending = {}
    /\ requests = [t \in Tokens |-> NULL]
    /\ heap = {} /\ faults = {} /\ seen = {} /\ abandoned = {} /\ refused = {}

\* processCommandBuffer and the reads of the dispatch function.  A parcel that cannot be read is
\* dropped: the request stays pending, and the strings read so far stay allocated.
Dispatch(t, code, p) ==
    LET shape == s_commands[code]
        fields == Fields(t, shape, p)
    IN  /\ libril = NULL
        /\ t \notin seen
        /\ seen' = seen \cup {t}
        /\ pending' = pending \cup {t}
        /\ heap' = heap \cup Strings(fields, DOMAIN fields)
        /\ libril' = IF Readable(shape, p)
                     THEN [token |-> t, code |-> code, fields |-> fields, value |-> p.value,
                           called |-> FALSE]
                     ELSE NULL
        /\ UNCHANGED <<requests, faults, abandoned, refused>>

\* The call is back: the dispatch function frees its strings (not the service centre address of
\* WRITE_SMS_TO_SIM).
DispatchReturns ==
    /\ libril # NULL
    /\ libril.called
    /\ heap' = heap \ Strings(libril.fields, s_commands[libril.code].frees)
    /\ libril' = NULL
    /\ UNCHANGED <<pending, requests, faults, seen, abandoned, refused>>

-----------------------------------------------------------------------------
(***************************************************************************)
(* samsung-ril: ril_on_request copies the data.                            *)
(***************************************************************************)
StringArrays ==
    {"SEND_SMS", "QUERY_FACILITY_LOCK", "SET_FACILITY_LOCK", "ENTER_SIM_PIN", "ENTER_SIM_PUK",
     "ENTER_SIM_PIN2", "ENTER_SIM_PUK2", "CHANGE_SIM_PIN", "CHANGE_SIM_PIN2", "SETUP_DATA_CALL",
     "DEACTIVATE_DATA_CALL"}

\* The strings that are copied; the others of the data go along as libril's pointers.
Copied(code) ==
    CASE code = "DIAL" -> {1}
      [] code = "WRITE_SMS_TO_SIM" -> {2, 3}
      [] code = "SIM_IO" -> IF Version >= 6 THEN {3, 7, 8, 9} ELSE {3, 7, 8}
      [] code \in StringArrays -> DOMAIN s_commands[code].reads
      [] OTHER -> {}

\* The data is one integer.
Integer(code) == s_commands[code].reads \in {<<"int">>, <<"int", "int">>}

\* Data of the size of a pointer that reads as printable characters and a zero byte is taken for a
\* string.  (The low byte of a little endian integer comes first; the bytes of a pointer may be
\* anything.)
DetectedSizes(code, value) ==
    LET shape == s_commands[code]
        low == value % 256
        high == value \div 256
    IN  CASE shape.size # Word \/ Copied(code) # {} -> {shape.size}
          [] shape.reads[1] = "text" -> {TextLength(code) + 1}
          [] code \in {"GET_IMSI", "GSM_SET_BROADCAST_SMS_CONFIG", "CDMA_SET_BROADCAST_SMS_CONFIG",
                       "SET_DATA_PROFILE"} ->
               {Word} \cup 2 .. Word
          [] Integer(code) ->
               {IF low \notin 32 .. 126 THEN Word
                ELSE IF high = 0 THEN 2
                ELSE IF high \in 32 .. 126 THEN 3 ELSE Word}
          [] OTHER -> {Word}

\* A string or bytes that were not there: the data is NULL, its size is not 0.
DataMissing ==
    \E i \in DOMAIN libril.fields :
      s_commands[libril.code].reads[i] \in {"text", "raw"} /\ libril.fields[i] = Nothing

NullUse(code) == [is |-> "NULL", code |-> code]

\* ril_request_register copies from NULL: the daemon crashes.
OnRequestCrashes ==
    /\ libril # NULL
    /\ ~libril.called
    /\ DataMissing
    /\ faults' = faults \cup {NullUse(libril.code)}
    /\ UNCHANGED <<libril, pending, requests, heap, seen, abandoned, refused>>

OnRequest ==
    /\ libril # NULL
    /\ ~libril.called
    /\ ~DataMissing
    /\ LET t == libril.token
           copy == [i \in DOMAIN libril.fields |->
                      IF libril.fields[i].is = "block" /\ i \in Copied(libril.code)
                      THEN Block("ril", t, i) ELSE libril.fields[i]]
       IN  \E size \in DetectedSizes(libril.code, libril.value) :
             /\ requests' = [requests EXCEPT ![t] =
                               [code |-> libril.code, size |-> size, fields |-> copy,
                                value |-> libril.value, status |-> "PENDING", kept |-> "none"]]
             /\ heap' = heap \cup Strings(copy, Copied(libril.code))
    /\ libril' = [libril EXCEPT !.called = TRUE]
    /\ UNCHANGED <<pending, faults, seen, abandoned, refused>>

-----------------------------------------------------------------------------
(***************************************************************************)
(* The handlers.                                                           *)
(***************************************************************************)
Needed ==
    [GET_SIM_STATUS |-> 0, GET_IMSI |-> 0, RADIO_POWER |-> 4, DIAL |-> 3 * Word, DTMF |-> 1,
     DTMF_START |-> 1, SEND_SMS |-> 2 * Word, WRITE_SMS_TO_SIM |-> 3 * Word,
     DELETE_SMS_ON_SIM |-> 4, SMS_ACKNOWLEDGE |-> 8, QUERY_FACILITY_LOCK |-> 4 * Word,
     SET_FACILITY_LOCK |-> 4 * Word, ENTER_SIM_PIN |-> 2 * Word, ENTER_SIM_PUK |-> 2 * Word,
     ENTER_SIM_PIN2 |-> 2 * Word, ENTER_SIM_PUK2 |-> 2 * Word, CHANGE_SIM_PIN |-> 3 * Word,
     CHANGE_SIM_PIN2 |-> 3 * Word, SIM_IO |-> SizeOfSimIO(Version),
     SET_NETWORK_SELECTION_MANUAL |-> 1, SET_PREFERRED_NETWORK_TYPE |-> 4, SET_MUTE |-> 4,
     SCREEN_STATE |-> 4, OEM_HOOK_RAW |-> 4, SETUP_DATA_CALL |-> 6 * Word,
     DEACTIVATE_DATA_CALL |-> 2 * Word]

\* The request of the same kind, or of a kind that shares its state, that a handler waits for.
WaitsFor(code) ==
    CASE code \in {"SEND_SMS", "SET_FACILITY_LOCK", "ENTER_SIM_PIN", "ENTER_SIM_PUK", "ENTER_SIM_PIN2",
                   "ENTER_SIM_PUK2", "CHANGE_SIM_PIN", "SIM_IO", "SETUP_DATA_CALL",
                   "DEACTIVATE_DATA_CALL", "RADIO_POWER", "OEM_HOOK_RAW"} -> {code}
      [] code = "CHANGE_SIM_PIN2" -> {"CHANGE_SIM_PIN"}
      [] code \in {"DTMF", "DTMF_START"} -> {"DTMF", "DTMF_START"}
      [] OTHER -> {}

\* The handlers that put a request off while the radio is not far enough.
NeedsRadio ==
    {"DIAL", "DTMF", "DTMF_START", "SEND_SMS", "WRITE_SMS_TO_SIM", "SMS_ACKNOWLEDGE",
     "QUERY_FACILITY_LOCK", "SET_FACILITY_LOCK", "ENTER_SIM_PIN", "ENTER_SIM_PUK", "ENTER_SIM_PIN2",
     "ENTER_SIM_PUK2", "CHANGE_SIM_PIN", "CHANGE_SIM_PIN2", "SIM_IO", "SET_NETWORK_SELECTION_MANUAL",
     "SCREEN_STATE", "DEACTIVATE_DATA_CALL"}

\* The strings a handler insists on.
Required(code) ==
    CASE code = "DIAL" -> {1}
      [] code \in {"WRITE_SMS_TO_SIM", "DEACTIVATE_DATA_CALL", "ENTER_SIM_PIN", "QUERY_FACILITY_LOCK"} ->
           {2}
      [] code = "SET_FACILITY_LOCK" -> {2, 3}
      [] code = "SEND_SMS" -> {3}
      [] code = "SETUP_DATA_CALL" -> {4}
      [] OTHER -> {}

\* The strings a handler, or the callback that ends the use of the data, frees: strings_array_free
\* takes their number from the size.
Owned(code) ==
    CASE code = "DIAL" -> {1}
      [] code = "WRITE_SMS_TO_SIM" -> {2, 3}
      [] code = "SIM_IO" -> IF Version >= 6 THEN {3, 7, 8, 9} ELSE {3, 7, 8}
      [] code \in StringArrays -> 2 .. 1 + s_commands[code].size \div Word
      [] OTHER -> {}

\* What is not on the heap any more, or belongs to libril, is neither to be used nor to be freed.
Free(t) ==
    LET strings == Strings(requests[t].fields, Owned(requests[t].code))
    IN  /\ heap' = heap \ strings
        /\ faults' = faults \cup {b \in strings : b \notin heap \/ b.owner # "ril"}

\* ril_request_complete unregisters the request and answers it; libril takes it off its list.
complete(t) ==
    /\ requests' = [requests EXCEPT ![t] = NULL]
    /\ pending' = pending \ {t}

\* The request is the next one of the loop.
Dispatched(t) == requests[t] # NULL /\ requests[t].status = "PENDING"

Supported(t) == requests[t].code \in DOMAIN Needed

Unsupported(t) ==
    /\ Dispatched(t)
    /\ ~Supported(t)
    /\ complete(t)
    /\ UNCHANGED <<libril, heap, faults, seen, abandoned, refused>>

\* The handler finds less data than it needs: it completes the request and frees nothing.
RefuseSize(t) ==
    /\ Dispatched(t)
    /\ Supported(t)
    /\ requests[t].size < Needed[requests[t].code]
    /\ complete(t)
    /\ refused' = refused \cup {[token |-> t, code |-> requests[t].code, value |-> requests[t].value]}
    /\ UNCHANGED <<libril, heap, faults, seen, abandoned>>

Sized(t) == Dispatched(t) /\ Supported(t) /\ requests[t].size >= Needed[requests[t].code]

Busy(t) == \E u \in Tokens : /\ requests[u] # NULL
                             /\ requests[u].status = "HANDLED"
                             /\ requests[u].code \in WaitsFor(requests[t].code)

\* The radio is not ready, or a request it must wait for is under way.
PutOff(t) ==
    /\ Sized(t)
    /\ Busy(t) \/ requests[t].code \in NeedsRadio
    /\ requests' = [requests EXCEPT ![t].status = "UNHANDLED"]
    /\ UNCHANGED <<libril, pending, heap, faults, seen, abandoned, refused>>

\* A data call before the SIM is ready is completed at once, its strings are not freed.
RefuseUnregistered(t) ==
    /\ Sized(t)
    /\ requests[t].code = "SETUP_DATA_CALL"
    /\ complete(t)
    /\ abandoned' = abandoned \cup {t}
    /\ UNCHANGED <<libril, heap, faults, seen, refused>>

\* Mutant: the error path leaves the strings alone.
FailLeaking(t) ==
    /\ Sized(t)
    /\ ~Busy(t)
    /\ complete(t)
    /\ UNCHANGED <<libril, heap, faults, seen, abandoned, refused>>

\* A string that is needed is missing, or the message cannot be built or sent.
Fail(t) ==
    /\ Sized(t)
    /\ ~Busy(t)
    /\ Free(t)
    /\ complete(t)
    /\ UNCHANGED <<libril, seen, abandoned, refused>>

\* The handler of a facility lock reads the new state, its second string, without a test.
HandleCrashes(t) ==
    /\ Sized(t)
    /\ ~Busy(t)
    /\ requests[t].code = "SET_FACILITY_LOCK"
    /\ requests[t].fields[2] # Nothing /\ requests[t].fields[3] = Nothing
    /\ faults' = faults \cup {NullUse(requests[t].code)}
    /\ UNCHANGED <<libril, pending, requests, heap, seen, abandoned, refused>>

\* The message is sent.  The strings are freed, but those of a facility lock are kept for the
\* callback (the facility FD takes two of them: PIN2 first).
Handle(t) ==
    /\ Sized(t)
    /\ ~Busy(t)
    /\ \A i \in Required(requests[t].code) : requests[t].fields[i] # Nothing
    /\ IF requests[t].code = "SET_FACILITY_LOCK"
       THEN /\ \E stage \in {"pin2", "lock"} :
                 requests' = [requests EXCEPT ![t].status = "HANDLED", ![t].kept = stage]
            /\ UNCHANGED <<heap, faults>>
       ELSE /\ requests' = [requests EXCEPT ![t].status = "HANDLED"]
            /\ Free(t)
    /\ UNCHANGED <<libril, pending, seen, abandoned, refused>>

\* The loop makes every request that was put off pending again.
Retry ==
    LET off == {t \in Tokens : requests[t] # NULL /\ requests[t].status = "UNHANDLED"}
    IN  /\ off # {}
        /\ requests' = [t \in Tokens |-> IF t \in off THEN [requests[t] EXCEPT !.status = "PENDING"]
                                         ELSE requests[t]]
        /\ UNCHANGED <<libril, pending, heap, faults, seen, abandoned, refused>>

Keeps(t) == requests[t] # NULL /\ requests[t].kept # "none"

\* ipc_sec_callback: PIN2 is accepted and the lock is asked for with the stored message.
LockNext(t) ==
    /\ Keeps(t)
    /\ requests[t].kept = "pin2"
    /\ requests' = [requests EXCEPT ![t].kept = "lock"]
    /\ UNCHANGED <<libril, pending, heap, faults, seen, abandoned, refused>>

\* ipc_sec_callback: the verdict is in.  The strings are freed and the number of retries is asked
\* for; or a message cannot be sent and the request fails.
LockDone(t) ==
    /\ Keeps(t)
    /\ Free(t)
    /\ \/ /\ requests' = [requests EXCEPT ![t].kept = "none"]
          /\ UNCHANGED pending
       \/ complete(t)
    /\ UNCHANGED <<libril, seen, abandoned, refused>>

\* The answer of the modem completes a request that keeps nothing.
Answer(t) ==
    /\ requests[t] # NULL
    /\ requests[t].status = "HANDLED"
    /\ ~Keeps(t)
    /\ complete(t)
    /\ UNCHANGED <<libril, heap, faults, seen, abandoned, refused>>

\* The requests whose strings no handler has taken yet, or that keep them.
Holding == {t \in Tokens : requests[t] # NULL /\ (requests[t].status # "HANDLED" \/ Keeps(t))}

\* The radio becomes unavailable: every request is completed, and its strings are left.
Outage ==
    /\ \E t \in Tokens : requests[t] # NULL
    /\ requests' = [t \in Tokens |-> NULL]
    /\ pending' = {t \in pending : requests[t] = NULL}
    /\ abandoned' = abandoned \cup Holding
    /\ UNCHANGED <<libril, heap, faults, seen, refused>>

\* The framework cancels a request: it is unregistered, libril keeps waiting.
Cancel(t) ==
    /\ requests[t] # NULL
    /\ requests' = [requests EXCEPT ![t] = NULL]
    /\ abandoned' = abandoned \cup ({t} \cap Holding)
    /\ UNCHANGED <<libril, pending, heap, faults, seen, refused>>

Alive == \A f \in faults : f.is # "NULL"

Next ==
    /\ Alive
    /\ \/ \E t \in Tokens, code \in Codes : \E p \in Parcels(code) : Dispatch(t, code, p)
       \/ DispatchReturns
       \/ OnRequest
       \/ OnRequestCrashes
       \/ \E t \in Tokens : Unsupported(t)
       \/ \E t \in Tokens : RefuseSize(t)
       \/ \E t \in Tokens : PutOff(t)
       \/ \E t \in Tokens : RefuseUnregistered(t)
       \/ \E t \in Tokens : Fail(t)
       \/ \E t \in Tokens : HandleCrashes(t)
       \/ \E t \in Tokens : Handle(t)
       \/ Retry
       \/ \E t \in Tokens : LockNext(t)
       \/ \E t \in Tokens : LockDone(t)
       \/ \E t \in Tokens : Answer(t)
       \/ Outage
       \/ \E t \in Tokens : Cancel(t)

Spec == Init /\ [][Next]_vars

-----------------------------------------------------------------------------
Blocks == [is : {"block"}, owner : {"libril", "ril"}, token : Tokens, at : 1 .. 9]

\* The request libril has in hand and the entries of samsung-ril are well formed, an entry has a
\* size no larger than its structure or string, and only a facility lock keeps its data.
TypeOK ==
    /\ libril # NULL => libril.token \in seen /\ libril.code \in Codes
    /\ pending \subseteq seen
    /\ heap \subseteq Blocks
    /\ \A f \in faults : f \in Blocks \/ f.is = "NULL"
    /\ abandoned \subseteq seen
    /\ \A r \in refused : r.token \in seen
    /\ \A t \in Tokens : requests[t] # NULL =>
         /\ requests[t].status \in {"PENDING", "UNHANDLED", "HANDLED"}
         /\ requests[t].kept # "none" =>
              requests[t].code = "SET_FACILITY_LOCK" /\ requests[t].status = "HANDLED"

\* The requests whose data is read without a test for NULL
Untested(code) ==
    \/ code = "SET_FACILITY_LOCK"
    \/ \E i \in DOMAIN s_commands[code].reads : s_commands[code].reads[i] \in {"text", "raw"}

\* No handler or callback uses or frees a string that libril has freed, or will free, or that was
\* freed before: the copies ril_on_request makes are exactly the strings that the handlers free.  A
\* null pointer is used only for a string or bytes that the parcel lacks, where the request is that
\* string or these bytes, and for the second string of SET_FACILITY_LOCK.
NoStrayUse == \A f \in faults : f.is = "NULL" /\ Untested(f.code)

\* A request never reaches the RIL with a number that was not in its parcel, whichever read of the
\* dispatch function failed.
NoFieldUnread == libril # NULL => \A i \in DOMAIN libril.fields : libril.fields[i] # Unread

\* A copied string stays allocated only while its request is registered and a handler or a callback
\* still has to take it; after that, only the requests that an outage, a cancellation or an early
\* refusal removed leave strings behind.
Released ==
    \A b \in heap : b.owner = "ril" => b.token \in Holding \cup abandoned \cup {r.token : r \in refused}

\* The data of a request that is one string is registered whole: with its last character and the
\* zero byte behind it.
WholeString ==
    \A t \in Tokens : requests[t] # NULL =>
      \A i \in DOMAIN requests[t].fields :
        requests[t].fields[i] = Bytes("text") => requests[t].size = TextLength(requests[t].code) + 1

\* What libril passes on is large enough for the handler: no request is refused for its size, but one
\* of a single integer, of the size of a pointer, whose first byte is that of a printable character.
AcceptedBySize == \A r \in refused : Integer(r.code) /\ r.value % 256 \in 32 .. 126
=============================================================================
