--------------------------- MODULE SamsungAnswers ---------------------------
(***************************************************************************)
(* What the libril for Samsung's RIL of version 4 (libril/ril.cpp) writes  *)
(* to the phone: the answers to requests, and what the RIL reports on its  *)
(* own.                                                                    *)
(*                                                                         *)
(* A response function checks the length of the data the RIL passes, and   *)
(* writes its elements.  The Samsung adaptation translates what its RIL    *)
(* does differently: five strings for a network instead of four, signal    *)
(* strengths in a byte or in another field, a mode of the network that the *)
(* phone does not know, data calls of the older structure, reports with    *)
(* older numbers, and a radio state that says what a newer RIL reports on  *)
(* its own.  Each message is one step: the functions share nothing but the *)
(* variables below, and one thread reports at a time.                      *)
(***************************************************************************)
EXTENDS Integers, Sequences, FiniteSets, Scenario

\* The instances.
Word == 4  \* sizeof (void *): 4 or 8
\* the requests that are answered (from 91 on the RIL is asked for another one: SamsungDispatch)
Requests == InRun([safety |-> 1 .. 90, further |-> {57}])
\* the reports the RIL makes, by number
Reports == InRun([
     safety |-> (1001 .. 1036) \cup {1040, 11001, 11002},
     further |-> 1001 .. 1010])
\* signal strengths and levels a modem may report
Strengths == {0, 31, 32, 99, 255, 287}
Cids == InRun([safety |-> {1}, further |-> {0, 1, 2}])  \* the data calls, by their number
\* the radio states of a run
States == InRun([safety |-> {1, 4, 7, 9, 10}, further |-> {10}])
MaxCount == 3  \* bound: elements of a list

VARIABLES
    meant,         \* the last message as the RIL means it
    written,       \* the messages written for it
    dataCallList,  \* per data call the address of the last report that had one
    given,         \* history: the addresses the RIL gave for each data call
    radio,         \* the radio state of the RIL
    decoded,       \* voiceRadioTech, cdmaSubscriptionSource, simRuimStatus
    told           \* the last of these that reached the phone

vars == <<meant, written, dataCallList, given, radio, decoded, told>>

-----------------------------------------------------------------------------
(***************************************************************************)
(* The data of a message: what its elements are, and these elements.  The  *)
(* length is that of all of them.                                          *)
(***************************************************************************)
SizeOf(form) ==
    CASE form = "int" -> 4
      [] form \in {"byte"} -> 1
      [] form \in {"string", "pointer", "config"} -> Word
      [] form = "sms" -> 4 + 2 * Word
      [] form = "sim_io" -> 8 + Word
      [] form = "call_v4" -> IF Word = 4 THEN 28 ELSE 40
      [] form = "card_v4" -> 276
      [] form = "strength" -> 28
      [] form = "signal_info" -> 4
      [] form = "waiting" -> 24
      [] form = "refresh_v4" -> 8 + Word
      [] form = "records" -> 804
      [] form = "cdma_sms" -> 372
      [] form = "nothing" -> 0

Data(form, items) == [form |-> form, items |-> items]
Nothing == Data("nothing", << >>)
LengthOf(d) == IF d.form = "string" THEN Word ELSE Len(d.items) * SizeOf(d.form)

\* What a function writes: the number it announces (-1: none) and the elements.
Written(is, header, items) == [is |-> is, header |-> header, items |-> items]
Invalid == Written("invalid", -1, << >>)

\* The first n elements; beyond the data is whatever is there.
Take(items, n) == [i \in 1 .. n |-> IF i <= Len(items) THEN items[i] ELSE "garbage"]

ListOf(form, d) ==
    LET n == LengthOf(d) \div SizeOf(form)
    IN  IF LengthOf(d) % SizeOf(form) # 0 THEN Invalid ELSE Written(form, n, Take(d.items, n))

OneOf(form, d) ==
    IF d = Nothing \/ LengthOf(d) # SizeOf(form) THEN Invalid ELSE Written(form, -1, d.items)

\* The length is divided by that of a pointer to an integer.
responseInts(d) ==
    LET n == LengthOf(d) \div Word
    IN  IF LengthOf(d) % 4 # 0 THEN Invalid ELSE Written("int", n, Take(d.items, n))

\* "NETWORK_MODE_GLOBAL => NETWORK_MODE_WCDMA_PREF"
responseIntsGetPreferredNetworkType(d) ==
    LET w == responseInts(d)
    IN  [w EXCEPT !.items = [i \in DOMAIN w.items |-> IF i = 1 /\ w.items[1] = 7 THEN 0 ELSE w.items[i]]]

responseStrings(d) == ListOf("pointer", d)

\* "Samsung is sending 5 elements, upper layer expects 4.  Drop every 5th element here"
responseStringsNetworks(d) ==
    LET n == Len(d.items)
        kept == {i \in 1 .. n : i % 5 # 0}
    IN  IF LengthOf(d) % Word # 0 THEN Invalid
        ELSE Written("network", (n \div 5) * 4,
                     [k \in 1 .. Cardinality(kept) |->
                        d.items[CHOOSE i \in kept : Cardinality({j \in kept : j <= i}) = k]])

responseString(d) == Written("string", -1, d.items)

responseVoid(d) == Written("nothing", -1, << >>)

responseCallList(d) == ListOf("pointer", d)

responseSMS(d) == OneOf("sms", d)

\* A version 4 RIL answers with strings; the version goes first.
responseSetupDataCall(d) == ListOf("pointer", d)

responseRaw(d) == Written("byte", IF d = Nothing THEN -1 ELSE Len(d.items), d.items)

responseSIM_IO(d) == OneOf("sim_io", d)

responseCallForwards(d) == ListOf("pointer", d)

responseCellList(d) == ListOf("pointer", d)

\* A record of an unknown kind, or one that is too long, makes all of them invalid.
responseCdmaInformationRecords(d) ==
    IF d.form = "records" /\ d.items = <<"unknown">> THEN Invalid ELSE OneOf("records", d)

\* Mutant: the other field is taken as it is.
CorrectedRaw(raw, dbm) == IF raw % 256 > 31 /\ raw # 99 THEN dbm ELSE raw % 256

\* "if gsmSignalStrength isn't a valid value, use cdmaDbm as fallback": the low byte of the strength,
\* which is 99 only if all of it is.
Corrected(raw, dbm) ==
    LET gsm == raw % 256
    IN  IF gsm <= 31 \/ raw = 99 THEN gsm
        ELSE IF dbm < 0 THEN 99
        ELSE IF dbm > 31 /\ dbm # 99 THEN 31
        ELSE dbm

responseRilSignalStrength(d) ==
    IF d = Nothing THEN Invalid
    ELSE Written("strength", -1, <<Corrected(d.items[1].raw, d.items[1].dbm)>>)

responseCdmaSignalInfoRecord(d) == OneOf("signal_info", d)

responseCallRing(d) == IF d = Nothing THEN responseVoid(d) ELSE responseCdmaSignalInfoRecord(d)

responseCdmaCallWaiting(d) == Written("waiting", -1, d.items)

responseSimRefresh(d) == Written("refresh_v4", -1, d.items)

responseSimStatus(d) == OneOf("card_v4", d)

responseGsmBrSmsCnf(d) == Written("config", LengthOf(d) \div Word, Take(d.items, LengthOf(d) \div Word))

responseCdmaBrSmsCnf(d) == Written("config", LengthOf(d) \div Word, Take(d.items, LengthOf(d) \div Word))

responseCdmaSms(d) == OneOf("cdma_sms", d)

(***************************************************************************)
(* Data calls are kept in an array by their number.  A call without an     *)
(* address keeps the one that was there; the name of the interface is that *)
(* of call 0, which is never set.                                          *)
(***************************************************************************)
NoAddress == "none"

Kept(list, call) ==
    IF call.address = NoAddress THEN list ELSE [list EXCEPT ![call.cid] = call.address]

\* The array after the first n calls of a report.
AfterCalls(list, calls) ==
    LET after[n \in 0 .. Len(calls)] == IF n = 0 THEN list ELSE Kept(after[n - 1], calls[n])
    IN  after

responseDataCallList(list, d) ==
    IF LengthOf(d) % SizeOf("call_v4") # 0 THEN Invalid
    ELSE Written("call", Len(d.items),
                 [i \in DOMAIN d.items |->
                    [cid |-> d.items[i].cid, ifname |-> "",
                     address |-> AfterCalls(list, d.items)[i][d.items[i].cid]]])

-----------------------------------------------------------------------------
(***************************************************************************)
(* The tables: the response function of a request, and of a row of the     *)
(* table of reports.                                                       *)
(***************************************************************************)
responseFunction(i, d) ==
    CASE i = 1 -> responseSimStatus(d)
      [] i \in (2 .. 8) \cup {18, 31, 35, 42, 43, 45, 54, 55, 56, 63, 66, 79, 81, 83, 95} ->
           responseInts(d)
      [] i \in {9} -> responseCallList(d)
      [] i \in {11, 38, 39, 51, 67, 69, 99} -> responseString(d)
      [] i = 19 -> responseRilSignalStrength(d)
      [] i \in {22, 60, 94, 97} -> responseStrings(d)
      [] i \in {25, 26, 87} -> responseSMS(d)
      [] i = 27 -> responseSetupDataCall(d)
      [] i = 28 -> responseSIM_IO(d)
      [] i = 33 -> responseCallForwards(d)
      [] i = 48 -> responseStringsNetworks(d)
      [] i = 57 -> responseDataCallList(dataCallList, d)
      [] i = 59 -> responseRaw(d)
      [] i = 74 -> responseIntsGetPreferredNetworkType(d)
      [] i = 75 -> responseCellList(d)
      [] i = 89 -> responseGsmBrSmsCnf(d)
      [] i = 91 -> responseCdmaBrSmsCnf(d)
      [] OTHER -> responseVoid(d)

UnsolRow(i, d) ==
    CASE i \in {3, 4, 8, 12, 13} -> responseString(d)
      [] i \in {5, 14, 22, 25, 28, 32, 33} -> responseInts(d)
      [] i = 6 -> responseStrings(d)
      [] i = 9 -> responseRilSignalStrength(d)
      [] i = 10 -> responseDataCallList(dataCallList, d)
      [] i = 16 -> responseSimRefresh(d)
      [] i = 17 -> responseCallRing(d)
      [] i = 19 -> responseCdmaSms(d)
      [] i \in {20, 27} -> responseRaw(d)
      [] i = 24 -> responseCdmaCallWaiting(d)
      [] i = 26 -> responseCdmaInformationRecords(d)
      [] OTHER -> responseVoid(d)

LastUnsolRow == 34

\* The number in a row: 1011 is missing.
UnsolNumber(i) ==
    CASE i \in 0 .. 10 -> 1000 + i
      [] i \in 11 .. 29 -> 1001 + i
      [] i = 30 -> 1033
      [] i = 31 -> 11001
      [] i = 32 -> 11002
      [] i = 33 -> 1034
      [] i = 34 -> 1002

\* "Hack to include Samsung responses": MAX_RIL_UNSOL is the number of NETWORK_STATE_CHANGED.
UnsolIndex(number) == IF number > 11000 THEN number - 11000 + 1002 - 1000 ELSE number - 1000

\* unsolResponse_conv, from a number of version 4 to one of today; 0: unsupported
Converted(number) ==
    CASE number = 1040 -> 1034
      [] number = 1034 -> 1035
      [] number \in {1036, 1037} -> 0
      [] OTHER -> number

\* One report: what is written for it, nothing if the number has no row or the data is not valid.
onUnsolicited(number, d) ==
    LET i == UnsolIndex(Converted(number))
        w == UnsolRow(i, d)
    IN  IF Converted(number) = 0 \/ i \notin 0 .. LastUnsolRow \/ w.is = "invalid" THEN << >>
        ELSE <<[number |-> Converted(number), w |-> w]>>

-----------------------------------------------------------------------------
(***************************************************************************)
(* The radio state: of an old RIL it tells the technology for voice, the   *)
(* source of a CDMA subscription and the state of the SIM.                 *)
(***************************************************************************)
OFF == 0
UNAVAILABLE == 1
ON == 10
Unknown == -1

decodeVoiceRadioTechnology(s) ==
    CASE s \in 2 .. 4 -> "UMTS" [] s \in 5 .. 9 -> "1xRTT" [] OTHER -> "unknown"

decodeCdmaSubscriptionSource(s) ==
    CASE s \in 2 .. 7 -> "RUIM" [] s \in {8, 9} -> "NV" [] OTHER -> "unknown"

decodeSimStatus(s) == IF s \in {3, 4, 6, 7} THEN s ELSE Unknown

is3gpp2(tech) == tech = "1xRTT"

\* What the radio state is decoded to, and the reports of what changed.
Decode(s) ==
    [tech |-> decodeVoiceRadioTechnology(s),
     source |-> IF is3gpp2(decodeVoiceRadioTechnology(s)) THEN decodeCdmaSubscriptionSource(s)
                ELSE decoded.source,
     sim |-> decodeSimStatus(s)]

If(changed, report) == IF changed THEN report ELSE << >>

processRadioState(s) ==
    IF s \notin UNAVAILABLE + 1 .. ON - 1 THEN << >>
    ELSE If(Decode(s).tech # decoded.tech, onUnsolicited(1034, Data("int", <<Decode(s).tech>>)))
         \o If(Decode(s).source # decoded.source, onUnsolicited(1031, Data("int", <<Decode(s).source>>)))
         \o If(Decode(s).sim # decoded.sim, onUnsolicited(1019, Nothing))

ReportedRadio(s) == IF s \in UNAVAILABLE + 1 .. ON - 1 THEN ON ELSE s

-----------------------------------------------------------------------------
NoMessage == [to |-> 0, d |-> Nothing]

Init ==
    /\ meant = NoMessage /\ written = << >>
    /\ dataCallList = [c \in Cids |-> ""] /\ given = [c \in Cids |-> {""}]
    /\ radio = UNAVAILABLE
    /\ decoded = [tech |-> "unknown", source |-> "unknown", sim |-> Unknown]
    /\ told = [tech |-> "unknown", sim |-> Unknown, radio |-> UNAVAILABLE]

\* What the RIL passes for a request or a report, as telephony/ril.h documents it.
Lists(form) == {Data(form, [i \in 1 .. n |-> i]) : n \in 0 .. MaxCount}
Ones(form) == {Data(form, <<"it">>)}
CallLists ==
    {Data("call_v4", s) : s \in UNION {[1 .. n -> [cid : Cids, address : {NoAddress, "a", "b"}]]
                                       : n \in 0 .. 2}}
StrengthData == {Data("strength", <<[raw |-> r, dbm |-> m]>>) : r \in Strengths \cup {-1}, m \in Strengths \cup {-1}}
NetworkData == {Data("pointer", [i \in 1 .. 5 * n |-> i]) : n \in 0 .. MaxCount}

AnswerOf(request) ==
    CASE request = 1 -> Ones("card_v4")
      [] request \in (2 .. 8) \cup {18, 31, 35, 42, 43, 45, 54, 55, 56, 63, 66, 79, 81, 83, 95, 96} ->
           {Data("int", <<1>>)}
      [] request = 74 -> {Data("int", <<v>>) : v \in {0, 1, 7}}
      [] request \in {9, 20, 21, 22, 27, 33, 60, 75, 95, 98} -> Lists("pointer")
      [] request \in {11, 38, 39, 51, 67, 69, 100} -> Ones("string")
      [] request = 19 -> StrengthData
      [] request \in {25, 26, 87} -> Ones("sms")
      [] request = 28 -> Ones("sim_io")
      [] request = 48 -> NetworkData
      [] request = 57 -> CallLists
      [] request = 59 -> Lists("byte")
      [] request = 89 -> Lists("config")
      [] OTHER -> {Nothing}

ReportOf(number) ==
    CASE number \in {1003, 1004, 1008, 1013, 1014} -> Ones("string")
      [] number \in {1005, 1015, 1023, 1026, 1029, 1031, 1034, 1035, 1040, 11002} -> {Data("int", <<1>>)}
      [] number = 1006 -> Lists("pointer")
      [] number = 1009 -> StrengthData
      [] number = 1010 -> CallLists
      [] number = 1017 -> Ones("refresh_v4")
      [] number = 1018 -> {Nothing} \cup Ones("signal_info")
      [] number = 1020 -> Ones("cdma_sms")
      [] number \in {1021, 1028} -> Lists("byte")
      [] number = 1025 -> Ones("waiting")
      [] number = 1027 -> Ones("records") \cup {Data("records", <<"unknown">>)}
      [] OTHER -> {Nothing}

Remember(number, d) ==
    IF number \notin {57, 1010} THEN UNCHANGED <<dataCallList, given>>
    ELSE /\ dataCallList' = AfterCalls(dataCallList, d.items)[Len(d.items)]
         /\ given' = [c \in Cids |-> given[c] \cup ({d.items[i].address :
                        i \in {j \in DOMAIN d.items : d.items[j].cid = c}} \ {NoAddress})]

\* RIL_onRequestComplete with data; the error is overwritten when the data is invalid.
RIL_onRequestComplete ==
    \E request \in Requests : \E d \in AnswerOf(request) :
      /\ meant = NoMessage /\ meant' = [to |-> request, d |-> d]
      /\ written' = <<[number |-> request,
                       w |-> IF d = Nothing THEN responseVoid(d) ELSE responseFunction(request, d)]>>
      /\ Remember(request, d)
      /\ UNCHANGED <<radio, decoded, told>>

\* RIL_onUnsolicitedResponse for all but the radio state
RIL_onUnsolicitedResponse ==
    \E number \in Reports : \E d \in ReportOf(number) :
      /\ meant = NoMessage /\ meant' = [to |-> number, d |-> d]
      /\ written' = onUnsolicited(number, d)
      /\ Remember(number, d)
      /\ UNCHANGED <<radio, decoded, told>>

Has(msgs, number) == \E i \in DOMAIN msgs : msgs[i].number = number

\* The RIL's radio state changes and it says so: what it tells besides goes first.
RadioStateChanged ==
    \E s \in States :
      LET msgs == processRadioState(s)
      IN  /\ meant = NoMessage /\ radio # s /\ radio' = s
          /\ meant' = [to |-> 1000, d |-> Nothing]
          /\ decoded' = IF s \in UNAVAILABLE + 1 .. ON - 1 THEN Decode(s) ELSE decoded
          /\ written' = Append(msgs, [number |-> 1000,
                                      w |-> Written("state", -1, <<ReportedRadio(s)>>)])
          /\ told' = [tech |-> IF Has(msgs, 1035) THEN Decode(s).tech ELSE told.tech,
                      sim |-> IF Has(msgs, 1019) THEN Decode(s).sim ELSE told.sim,
                      radio |-> ReportedRadio(s)]
          /\ UNCHANGED <<dataCallList, given>>

\* The message is on its way.
Sent ==
    /\ meant # NoMessage
    /\ meant' = NoMessage /\ written' = << >>
    /\ UNCHANGED <<dataCallList, given, radio, decoded, told>>

Next == Sent \/ RIL_onRequestComplete \/ RIL_onUnsolicitedResponse \/ RadioStateChanged

Spec == Init /\ [][Next]_vars

-----------------------------------------------------------------------------
TypeOK ==
    /\ dataCallList \in [Cids -> {"", "a", "b"}]
    /\ radio \in 0 .. 10 /\ told.radio \in 0 .. 10
    /\ Len(written) <= 4

\* A list that is written has as many elements as it announces, so that what follows it in the parcel
\* is read as what it is.
HeaderMatches ==
    \A i \in DOMAIN written :
      written[i].w.header >= 0 => written[i].w.header = Len(written[i].w.items)

\* The phone never gets a signal strength other than 0 to 31, or 99 for unknown, whatever the modem
\* reports in either field; a strength that is one of these is left as it is.
SignalInRange ==
    \A i \in DOMAIN written :
      written[i].w.is = "strength" =>
        /\ written[i].w.items[1] \in (0 .. 31) \cup {99}
        /\ meant.d.items[1].raw \in (0 .. 31) \cup {99} => written[i].w.items[1] = meant.d.items[1].raw

\* The address written for a data call is one the RIL has given for this call, never another's.
AddressIsOwn ==
    \A i \in DOMAIN written :
      written[i].w.is = "call" =>
        \A k \in DOMAIN written[i].w.items :
          written[i].w.items[k].address \in given[written[i].w.items[k].cid]

\* The networks that were found are all there, each with its first four strings in order.
NetworksKept ==
    \A i \in DOMAIN written :
      written[i].w.is = "network" =>
        \A k \in DOMAIN written[i].w.items :
          written[i].w.items[k] = ((k - 1) \div 4) * 5 + ((k - 1) % 4) + 1

\* "((int *)response)[0] is ..." (telephony/ril.h): the integers of an answer are written.
IntsWritten ==
    meant.to \in Requests /\ meant.d.form = "int" => \A i \in DOMAIN written :
                              Len(written[i].w.items) = Len(meant.d.items)

\* The answer to a request carries what the RIL answered, as telephony/ril.h documents it.  Those to the
\* two queries of the registration state carry nothing: the function of their rows is responseVoid,
\* where "response" is an array of strings.
RegistrationStates == {20, 21}

AnswersCarryData ==
    meant.to \in Requests \ RegistrationStates /\ meant.d.items # << >> =>
      \A i \in DOMAIN written : written[i].w.items # << >>

\* A report is written, with the elements of its data (self-check of RIL_register: the row of a report
\* is the one with its number).
ReportsArrive ==
    meant.to \in Reports =>
      /\ written # << >>
      /\ Len(written[1].w.items) = Len(meant.d.items)
=============================================================================
