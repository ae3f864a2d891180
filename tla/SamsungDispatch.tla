-------------------------- MODULE SamsungDispatch --------------------------
(***************************************************************************)
(* The requests of the phone in the libril that was adapted to Samsung's   *)
(* own, closed RIL of version 4 (libril/ril.cpp).                          *)
(*                                                                         *)
(* The event thread looks a request up in a table by its number, and the   *)
(* dispatch function of the row it finds reads the parcel, which may end   *)
(* early, and calls the RIL.  The adaptation puts the identifier of the    *)
(* application in front of the others for the requests about PINs and      *)
(* locks, and answers one query itself: whether the SIM asks for its PIN,  *)
(* from the last status of the SIM that it wrote into an answer.           *)
(*                                                                         *)
(* A field of a parcel is its name; only the facility of a lock and the    *)
(* state that it is to have are told apart.  The RIL, a closed library, is *)
(* external: it completes a request when it wants to.                      *)
(***************************************************************************)
EXTENDS Integers, Sequences, FiniteSets, Scenario

\* The instances.
Token == InRun([safety |-> {"t1"}, progress |-> {"t1", "t2"}])  \* the requests of a behaviour
\* the numbers the phone uses: those of ril.h, and the first and the last of Samsung's own
Requests == InRun([safety |-> (1 .. 108) \cup {10001, 10023}, progress |-> {1, 42, 43}])
Apps == 1  \* the applications on the SIM; the first is the one with the lock in question

VARIABLES
    asked,     \* the parcel of each request
    pending,   \* s_pendingRequests
    call,      \* what each request asked of the RIL
    answer,    \* what each request was answered
    pinState,  \* the static variable of this name
    lock,      \* the SIM asks for the PIN of the first application
    told,      \* history: the lock in the last status of the SIM that the phone was answered
    dead       \* the daemon crashed

vars == <<asked, pending, call, answer, pinState, lock, told, dead>>

NotAsked == [request |-> 0, items |-> 0, facility |-> "none", to |-> FALSE]
NotCalled == [number |-> 0, data |-> << >>]
NotAnswered == [is |-> "none", value |-> FALSE]

-----------------------------------------------------------------------------
(***************************************************************************)
(* The table of commands, by row.                                          *)
(***************************************************************************)
LastRow == 123

Empty == {0, 103, 104, 115}

\* The number in a row: that of the row up to 90; no row is there for 91, and Samsung's own requests
\* follow that of 101.
RowNumber(i) ==
    CASE i \in Empty -> 0
      [] i \in 1 .. 90 -> i
      [] i \in 91 .. 100 -> i + 1
      [] i \in (101 .. LastRow) \ Empty -> i + 9900

RowDispatch(i) ==
    CASE i \in Empty \/ i > LastRow -> "NULL"
      [] i \in {2, 4} -> "EnterSimPin"
      [] i \in {3, 5} -> "EnterSimPuk"
      [] i \in {6, 7} -> "ChangeSimPin"
      [] i = 8 -> "Depersonalization"
      [] i \in {10, 116} -> "Dial"
      [] i \in {11, 25, 26, 41, 44, 60, 85} -> "Strings"
      [] i = 27 -> "DataCall"
      [] i \in {24, 29, 47, 49, 68, 69, 70, 84, 86, 100} -> "String"
      [] i \in {12, 23, 32, 35, 36, 37, 52, 53, 61, 62, 64, 65, 71, 73, 76, 77, 78, 80, 82, 93, 96} ->
           "Ints"
      [] i = 28 -> "SIM_IO"
      [] i \in {33, 34} -> "CallForward"
      [] i = 42 -> "QueryFacilityLock"
      [] i = 43 -> "SetFacilityLock"
      [] i = 59 -> "Raw"
      [] i = 63 -> "SmsWrite"
      [] i = 87 -> "CdmaSms"
      [] i = 88 -> "CdmaSmsAck"
      [] i = 90 -> "GsmBrSmsCnf"
      [] i = 92 -> "CdmaBrSmsCnf"
      [] i = 95 -> "RilCdmaSmsWriteArgs"
      [] OTHER -> "Void"

MAX_RIL_SOL == 10023

\* "Hack to include Samsung requests"
Index(request) == IF request > 10000 THEN request - 10000 + MAX_RIL_SOL ELSE request

-----------------------------------------------------------------------------
(***************************************************************************)
(* What the phone writes for each kind of dispatch function, the numbers   *)
(* of strings or of integers that come first included.                     *)
(***************************************************************************)
Fields(kind) ==
    CASE kind = "EnterSimPin" -> <<"count", "pin", "aid">>
      [] kind = "EnterSimPuk" -> <<"count", "puk", "newPin", "aid">>
      [] kind = "ChangeSimPin" -> <<"count", "oldPin", "newPin", "aid">>
      [] kind = "Depersonalization" -> <<"count", "type", "netpin">>
      [] kind = "Dial" -> <<"address", "clir", "uusPresent">>
      [] kind \in {"Strings", "DataCall"} -> <<"count", "first", "second">>
      [] kind = "String" -> <<"string">>
      [] kind = "Ints" -> <<"count", "integer">>
      [] kind = "SIM_IO" -> <<"command", "fileid", "path", "p1", "p2", "p3", "data", "pin2", "aid">>
      [] kind = "CallForward" -> <<"status", "reason", "class", "toa", "number", "time">>
      [] kind = "QueryFacilityLock" -> <<"count", "facility", "password", "class", "aid">>
      [] kind = "SetFacilityLock" -> <<"count", "facility", "lock", "password", "class", "aid">>
      [] kind = "Raw" -> <<"count", "bytes">>
      [] kind = "SmsWrite" -> <<"status", "pdu", "smsc">>
      [] kind \in {"CdmaSms", "RilCdmaSmsWriteArgs"} -> <<"service", "address", "subaddress", "bearer">>
      [] kind = "CdmaSmsAck" -> <<"class", "cause">>
      [] kind \in {"GsmBrSmsCnf", "CdmaBrSmsCnf"} -> <<"count", "config">>
      [] OTHER -> << >>

\* A field of a parcel that has the first n fields: a string that is not there is read as NULL.
Got(kind, n, name) ==
    IF \E i \in 1 .. n : Fields(kind)[i] = name THEN name ELSE "NULL"

InOrder(kind, n, names) == [i \in 1 .. Len(names) |-> Got(kind, n, names[i])]

\* What a dispatch function comes to: it gives up (invalid), it crashes, or it calls the RIL.
Invalid == [does |-> "invalid", data |-> << >>]
Crash == [does |-> "crash", data |-> << >>]
Call(data) == [does |-> "call", data |-> data]

dispatchVoid(n) == Call(<< >>)

dispatchString(n) == Call(InOrder("String", n, <<"string">>))

\* Only the read of the count is checked.
dispatchStrings(n) ==
    IF n < 1 THEN Invalid ELSE Call(InOrder("Strings", n, <<"first", "second">>))

\* The RIL is of version 4, so no parameter is removed.
dispatchDataCall(n) == dispatchStrings(n)

dispatchInts(n) == IF n < 2 THEN Invalid ELSE Call(<<"integer">>)

dispatchSmsWrite(n) ==
    IF n < 2 THEN Invalid ELSE Call(InOrder("SmsWrite", n, <<"status", "pdu", "smsc">>))

\* The other parcel: the count that was read, and the strings in another order.  A count that is
\* missing is 0, and dispatchStrings reads it and nothing after it.
Rebuilt(kind, n, names) == IF n < 1 THEN Call(<< >>) ELSE Call(InOrder(kind, n, names))

dispatchEnterSimPin(n) == Rebuilt("EnterSimPin", n, <<"aid", "pin">>)

dispatchEnterSimPuk(n) == Rebuilt("EnterSimPuk", n, <<"aid", "puk", "newPin">>)

dispatchChangeSimPin(n) == Rebuilt("ChangeSimPin", n, <<"aid", "oldPin", "newPin">>)

\* The type is NULL (n < 2), or the code is copied to where d.depersonalizationCode points: nowhere.
dispatchDepersonalization(n) == Crash

\* The user-to-user information is there also when the phone sent none.
dispatchDial(n) == IF n < 3 THEN Invalid ELSE Call(<<"address", "clir", "uusInfo">>)

\* "note we only check status at the end": that is the last integer.
dispatchSIM_IO(n) == IF n < 6 THEN Invalid ELSE Call(InOrder("SIM_IO", n, Fields("SIM_IO")))

dispatchCallForward(n) ==
    IF n < 6 THEN Invalid ELSE Call(Fields("CallForward"))

dispatchSetFacilityLock(n) ==
    Rebuilt("SetFacilityLock", n, <<"aid", "facility", "lock", "password", "class">>)

dispatchRaw(n) == IF n < 1 THEN Invalid ELSE Call(InOrder("Raw", n, <<"bytes">>))

\* The status that is looked at is that of the last read.
dispatchCdmaSms(n) == IF n < 4 THEN Invalid ELSE Call(Fields("CdmaSms"))

dispatchRilCdmaSmsWriteArgs(n) == IF n < 4 THEN Invalid ELSE Call(Fields("CdmaSms"))

dispatchCdmaSmsAck(n) == IF n < 2 THEN Invalid ELSE Call(Fields("CdmaSmsAck"))

dispatchGsmBrSmsCnf(n) == IF n < 2 THEN Invalid ELSE Call(<<"config">>)

dispatchCdmaBrSmsCnf(n) == IF n < 2 THEN Invalid ELSE Call(<<"config">>)

\* "Work around simlock query bug": the lock of the SIM is not asked of the RIL.  Without a facility,
\* strcmp crashes.
dispatchQueryFacilityLock(n, facility) ==
    CASE n < 2 -> Crash
      [] n >= 2 /\ facility = "SC" -> [does |-> "answer", data |-> << >>]
      [] OTHER -> Rebuilt("QueryFacilityLock", n, <<"aid", "facility", "password", "class">>)

dispatchFunction(kind, n, facility) ==
    CASE kind = "NULL" -> Crash
      [] kind = "Void" -> dispatchVoid(n)
      [] kind = "String" -> dispatchString(n)
      [] kind = "Strings" -> dispatchStrings(n)
      [] kind = "DataCall" -> dispatchDataCall(n)
      [] kind = "Ints" -> dispatchInts(n)
      [] kind = "SmsWrite" -> dispatchSmsWrite(n)
      [] kind = "EnterSimPin" -> dispatchEnterSimPin(n)
      [] kind = "EnterSimPuk" -> dispatchEnterSimPuk(n)
      [] kind = "ChangeSimPin" -> dispatchChangeSimPin(n)
      [] kind = "Depersonalization" -> dispatchDepersonalization(n)
      [] kind = "Dial" -> dispatchDial(n)
      [] kind = "SIM_IO" -> dispatchSIM_IO(n)
      [] kind = "CallForward" -> dispatchCallForward(n)
      [] kind = "QueryFacilityLock" -> dispatchQueryFacilityLock(n, facility)
      [] kind = "SetFacilityLock" -> dispatchSetFacilityLock(n)
      [] kind = "Raw" -> dispatchRaw(n)
      [] kind = "CdmaSms" -> dispatchCdmaSms(n)
      [] kind = "CdmaSmsAck" -> dispatchCdmaSmsAck(n)
      [] kind = "GsmBrSmsCnf" -> dispatchGsmBrSmsCnf(n)
      [] kind = "CdmaBrSmsCnf" -> dispatchCdmaBrSmsCnf(n)
      [] kind = "RilCdmaSmsWriteArgs" -> dispatchRilCdmaSmsWriteArgs(n)

-----------------------------------------------------------------------------
Init ==
    /\ asked = [t \in Token |-> NotAsked] /\ pending = {}
    /\ call = [t \in Token |-> NotCalled] /\ answer = [t \in Token |-> NotAnswered]
    /\ pinState = "unknown" /\ lock \in BOOLEAN /\ told = "nothing" /\ dead = FALSE

\* The phone writes a request the way its number says.
Facilities(request) == IF request \in {42, 43} THEN {"SC", "FD"} ELSE {"none"}
States(request) == IF request = 43 THEN BOOLEAN ELSE {FALSE}

\* The kind of the phone's parcel: that of the row which has the number.
KindOf(request) ==
    IF \E i \in 0 .. LastRow : RowNumber(i) = request
    THEN RowDispatch(CHOOSE i \in 0 .. LastRow : RowNumber(i) = request)
    ELSE "Void"

Locked(state) == state \notin {"disabled", "unknown"}

\* processCommandBuffer, on the event thread, up to the return of the RIL.  Every number from 1 to
\* 10023 is accepted.
processCommandBuffer(t) ==
    /\ ~dead /\ asked[t] = NotAsked
    /\ \E request \in Requests :
         \E n \in 0 .. Len(Fields(KindOf(request))), f \in Facilities(request), to \in States(request) :
           LET kind == RowDispatch(Index(request))
               r == dispatchFunction(kind, n, f)
           IN  /\ asked' = [asked EXCEPT ![t] = [request |-> request, items |-> n, facility |-> f,
                                                 to |-> to]]
               /\ dead' = (r.does = "crash")
               /\ pending' = IF r.does = "answer" THEN pending ELSE pending \cup {t}
               /\ call' = IF r.does = "call"
                          THEN [call EXCEPT ![t] = [number |-> RowNumber(Index(request)),
                                                    data |-> r.data]]
                          ELSE call
               /\ answer' = IF r.does = "answer"
                            THEN [answer EXCEPT ![t] = [is |-> "lock", value |-> Locked(pinState)]]
                            ELSE answer
    /\ UNCHANGED <<pinState, lock, told>>

\* The state of the PIN of the first application, and any for the others.
PinStates == {"unknown", "disabled", "enabled"}
Statuses == {s \in [1 .. Apps -> PinStates] : s[1] = IF lock THEN "enabled" ELSE "disabled"}

\* Mutant: the state is not kept.
sendSimStatusAppInfoForgets(status) == pinState

\* Every application overwrites the state.
sendSimStatusAppInfo(status) == status[Apps]

\* RIL_onRequestComplete for the status of the SIM, a lock that was set, or any other request.
CompleteStatus(t) ==
    /\ ~dead /\ t \in pending /\ call[t].number = 1
    /\ \E s \in Statuses : pinState' = sendSimStatusAppInfo(s)
    /\ answer' = [answer EXCEPT ![t] = [is |-> "status", value |-> lock]]
    /\ told' = IF lock THEN "locked" ELSE "open"
    /\ pending' = pending \ {t}
    /\ UNCHANGED <<asked, call, lock, dead>>

CompleteLock(t) ==
    /\ ~dead /\ t \in pending /\ call[t].number = 43
    /\ \/ lock' = IF asked[t].facility = "SC" /\ asked[t].items = 6 THEN asked[t].to ELSE lock
       \/ UNCHANGED lock
    /\ answer' = [answer EXCEPT ![t] = [is |-> "done", value |-> FALSE]]
    /\ pending' = pending \ {t}
    /\ UNCHANGED <<asked, call, pinState, told, dead>>

CompleteOther(t) ==
    /\ ~dead /\ t \in pending /\ call[t].number \notin {0, 1, 43}
    /\ answer' = [answer EXCEPT ![t] = [is |-> "done", value |-> FALSE]]
    /\ pending' = pending \ {t}
    /\ UNCHANGED <<asked, call, pinState, lock, told, dead>>

\* RIL_onRequestComplete
Complete(t) == CompleteStatus(t) \/ CompleteLock(t) \/ CompleteOther(t)

Next == \E t \in Token : processCommandBuffer(t) \/ Complete(t)

Spec == Init /\ [][Next]_vars

-----------------------------------------------------------------------------
TypeOK ==
    /\ pending \subseteq Token /\ pinState \in PinStates /\ lock \in BOOLEAN /\ dead \in BOOLEAN
    /\ \A t \in Token : /\ asked[t].request \in Requests \cup {0}
                        /\ call[t].number \in 0 .. 10023
                        /\ answer[t].is \in {"none", "lock", "status", "done"}

\* "Little self-check" of RIL_register (i == s_commands[i].requestNumber, an assertion): up to request
\* 90 the RIL is asked for what the phone asked for, never for the request of another row.  Row 91 is
\* missing, so that from 91 on the RIL is asked for another request.
OwnNumber ==
    \A t \in Token : call[t] # NotCalled /\ asked[t].request <= 90 => call[t].number = asked[t].request

\* The requests that end the daemon whatever the phone sends with them: 8, which copies a code to
\* nowhere, those whose row is empty, and Samsung's own, whose index lies behind the table.
Deadly == {8, 103, 104} \cup 10001 .. 10023

\* A parcel, whole or cut, reaches the RIL, is answered, or is dropped: no request makes the daemon
\* crash, but those above and a query of a lock without its facility.
WholeIsSafe ==
    dead => \E t \in Token : asked[t].request \in Deadly
                            \/ (asked[t].request = 42 /\ asked[t].items < 2)

\* The PIN and lock requests reach the RIL in the order of the structures that telephony/ril.h documents
\* (RIL_SimPin, RIL_SimPuk, RIL_SimPinSet, SET_FACILITY_LOCK), with every string the phone sent.
DocumentedData(request) ==
    CASE request \in {2, 4} -> <<"aid", "pin">>
      [] request \in {3, 5} -> <<"aid", "puk", "newPin">>
      [] request \in {6, 7} -> <<"aid", "oldPin", "newPin">>
      [] request = 42 -> <<"aid", "facility", "password", "class">>
      [] request = 43 -> <<"aid", "facility", "lock", "password", "class">>
      [] OTHER -> << >>

AsDocumented ==
    \A t \in Token :
      /\ asked[t].request \in (2 .. 7) \cup {42, 43} /\ call[t] # NotCalled
      /\ asked[t].items = Len(Fields(KindOf(asked[t].request)))
      => call[t].data = DocumentedData(asked[t].request)

\* The lock of the SIM is answered as the phone last saw it in a status of the SIM (with one
\* application on it), and as open before that, whatever is asked and completed in between.
LockAsReported ==
    \A t \in Token : answer'[t].is = "lock" /\ answer[t].is = "none" =>
        answer'[t].value = (told = "locked")

\* A parcel that held all its fields was read, and what it asked for is answered.
Asked(t) == asked[t].request # 0 /\ asked[t].items = Len(Fields(KindOf(asked[t].request)))
Answered(t) == answer[t] # NotAnswered \/ dead
=============================================================================
