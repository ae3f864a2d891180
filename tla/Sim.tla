--------------------------------- MODULE Sim ---------------------------------
(***************************************************************************)
(* The SIM requests of Samsung-RIL (sim.c): card status with the stored    *)
(* PIN, PIN and PUK entry, PIN changes, facility locks and SIM files.      *)
(*                                                                         *)
(* Most of them take several messages.  A PIN entry is answered by a       *)
(* generic response; the handler stores it under the kind of the request   *)
(* and asks for the tries left, whose answer completes the request.  A     *)
(* facility lock or file that needs PIN2 stores its own command until the  *)
(* PIN2 is accepted.  A PIN entered once is kept and entered again by the  *)
(* library itself when a card reports that it waits for its PIN.           *)
(***************************************************************************)
EXTENDS QueueView

CONSTANTS
    Kind,       \* the kinds of request libril issues
    Pin,        \* the PINs a user may enter or choose
    MaxTries,   \* tries a card gives for its PIN
    MaxReports, \* bound: unsolicited reports of the card status
    MaxQueries  \* bound: requests

Kinds == {"STATUS", "PIN", "PUK", "PIN2", "PUK2", "CHANGE", "CHANGE2", "LOCK",
          "IO"}

\* What a generic response says: the codes with 0x10 and 0x0c, and others
Verdict == {"SUCCESS", "WRONG", "BLOCKED", "FAILED"}

SimAssumption ==
    /\ Kind \subseteq Kinds /\ None \notin Pin \cup Verdict \cup {"command"}
    /\ Pin # {}
    /\ MaxTries \in Nat \ {0} /\ MaxReports \in Nat /\ MaxQueries \in Nat

VARIABLES
    simPin,    \* ril_data->sim_pin
    data,      \* the request data of each kind
    card,      \* the card: its state, its PIN and the tries left
    verdict,   \* history: what the modem said of the PIN of each request
    ignored,   \* history: requests whose answer was dropped, refused, or used
               \* to enter the stored PIN
    reports    \* history: unsolicited reports so far

simVars == <<simPin, data, card, verdict, ignored, reports>>
vars == <<queueVars, simVars>>

CardStates == {"pin", "ready", "puk"}

Request == [token : Token, kind : Kind, pin : Pin \cup {None},
            first : BOOLEAN, seq : Nat]
Command == [cmd : {"PIN_STATUS", "PHONE_LOCK", "CHANGE_LOCKING_PW",
                   "LOCK_INFORMATION", "RSIM_ACCESS"},
            type : {"GET", "SET"}, seq : Nat, pin : Pin \cup {None},
            old : BOOLEAN]

Com(c, t, s, p) == [cmd |-> c, type |-> t, seq |-> s, pin |-> p, old |-> FALSE]

Init ==
    /\ QueueInit
    /\ simPin = None
    /\ data = [k \in Kinds |-> None]
    /\ card \in [state : {"pin", "ready"}, pin : Pin, tries : {MaxTries}]
    /\ verdict = [t \in Token |-> None]
    /\ ignored = {} /\ reports = 0

\* The PIN of a request, where its value matters, and whether it has a PIN2
\* to be entered first: for a file, or for the facility lock FD
PinOf(k) == IF k = "PIN" THEN Pin ELSE {None}
Firsts(k) == IF k \in {"LOCK", "IO"} THEN BOOLEAN ELSE {FALSE}

OnRequest(t, k, p, f) ==
    /\ Cardinality({u \in Token : asked[u] # "none"}) < MaxQueries
    /\ Issue(t, [token |-> t, kind |-> k, pin |-> p, first |-> f, seq |-> 0])
    /\ UNCHANGED simVars

-----------------------------------------------------------------------------
(* The request handlers.                                                   *)

\* What each checks first: the radio state, and that no request of its kind,
\* or for CHANGE_SIM_PIN2 of the kind CHANGE_SIM_PIN, is handled.
CanRun(r) ==
    /\ radio \in IF r.kind \in {"STATUS", "PIN", "PUK", "PIN2", "PUK2"}
                 THEN {"sim", "ready"} ELSE {"ready"}
    /\ ~Busy(IF r.kind = "CHANGE2" THEN "CHANGE" ELSE r.kind)

Ready == {i \in 1 .. Len(requests) : CanRun(requests[i])}
Runs(i, k) == Dispatched(i, Ready) /\ requests[i].kind = k

\* ... and the end of each: the command goes out, with a callback expected ...
SendExpecting(i, c) == Send(i, c, Expecting(c, "callback"))

\* ... or the data is malformed or the command cannot be sent.  What the
\* handler stored for it is freed; the PIN stays.
RequestFails(i) ==
    /\ Dispatched(i, Ready)
    /\ requests[i].kind # "STATUS" \/ data["STATUS"] = None
    /\ CompleteNow(i, "GENERIC_FAILURE")
    /\ simPin' \in {simPin} \cup
          IF requests[i].kind = "PIN" THEN {requests[i].pin} ELSE {}
    /\ data' = IF requests[i].first /\ requests[i].kind \in {"LOCK", "IO"}
               THEN [data EXCEPT ![requests[i].kind] = None] ELSE data
    /\ UNCHANGED <<card, verdict, ignored, reports>>

\* A stored status is taken as the answer, otherwise the modem is asked.
GetSimStatus(i) ==
    /\ Runs(i, "STATUS")
    /\ \/ /\ data["STATUS"] # None
          /\ CompleteNow(i, "SUCCESS")
          /\ data' = [data EXCEPT !["STATUS"] = None]
       \/ /\ data["STATUS"] = None
          /\ Send(i, Com("PIN_STATUS", "GET", seq + 1, None), <<>>)
          /\ UNCHANGED data
    /\ UNCHANGED <<simPin, card, verdict, ignored, reports>>

EnterSimPin(i) ==
    /\ Runs(i, "PIN")
    /\ simPin' = requests[i].pin
    /\ SendExpecting(i, Com("PIN_STATUS", "SET", seq + 1, requests[i].pin))
    /\ UNCHANGED <<data, card, verdict, ignored, reports>>

Entering(i, k, cmd) ==
    /\ Runs(i, k)
    /\ SendExpecting(i, Com(cmd, "SET", seq + 1, None))
    /\ UNCHANGED simVars

EnterSimPuk(i) == Entering(i, "PUK", "PIN_STATUS")
EnterSimPin2(i) == Entering(i, "PIN2", "PIN_STATUS")
EnterSimPuk2(i) == Entering(i, "PUK2", "PIN_STATUS")
ChangeSimPin(i) == Entering(i, "CHANGE", "CHANGE_LOCKING_PW")
ChangeSimPin2(i) == Entering(i, "CHANGE2", "CHANGE_LOCKING_PW")

\* A command of kind k that needs PIN2: it is stored, and the PIN2 sent.
Pin2First(i, k) ==
    /\ requests[i].first
    /\ data' = [data EXCEPT ![k] = "command"]
    /\ SendExpecting(i, Com("PIN_STATUS", "SET", seq + 1, None))

SetFacilityLock(i) ==
    /\ Runs(i, "LOCK")
    /\ \/ Pin2First(i, "LOCK")
       \/ /\ ~requests[i].first
          /\ SendExpecting(i, Com("PHONE_LOCK", "SET", seq + 1, None))
          /\ UNCHANGED data
    /\ UNCHANGED <<simPin, card, verdict, ignored, reports>>

SimIo(i) ==
    /\ Runs(i, "IO")
    /\ \/ Pin2First(i, "IO")
       \/ /\ ~requests[i].first
          /\ Send(i, Com("RSIM_ACCESS", "GET", seq + 1, None), <<>>)
          /\ UNCHANGED data
    /\ UNCHANGED <<simPin, card, verdict, ignored, reports>>

-----------------------------------------------------------------------------
(* The card: what it makes of a command, and the card afterwards.          *)

\* A PIN that is entered
Tried(p) ==
    IF card.state = "puk" THEN {<<"FAILED", card>>}
    ELSE IF p = card.pin
    THEN {<<"SUCCESS", [card EXCEPT !.state = "ready", !.tries = MaxTries]>>}
    ELSE IF card.tries > 1
    THEN {<<"WRONG", [card EXCEPT !.tries = @ - 1]>>}
    ELSE {<<"BLOCKED", [card EXCEPT !.state = "puk", !.tries = 0]>>}

\* A PUK or a change gives the card a new PIN.
Outcomes(c, k) ==
    IF c.pin # None THEN Tried(c.pin)
    ELSE {<<v, card>> : v \in Verdict} \cup
         IF k \notin {"PUK", "CHANGE"} THEN {}
         ELSE {<<"SUCCESS", [state |-> "ready", pin |-> p, tries |-> MaxTries]>> :
                 p \in Pin}

-----------------------------------------------------------------------------
(* Reports of the card status.                                             *)

\* ipc2ril_sec_pin_status_response: the radio state for a card state
RadioFor(s) == IF s = "ready" THEN "ready" ELSE "sim"

\* ipc_sec_pin_status for command c, or for a report (seq 0): a card that
\* waits for its PIN gets the stored one, under the number of the message ...
AutoEnter(c) ==
    /\ radio \in {"sim", "ready"}
    /\ card.state = "pin" /\ simPin # None
    /\ LET p == Com("PIN_STATUS", "SET", c.seq, simPin)
       IN  \/ /\ Receive(c, {p}) /\ expects' = expects \o Expecting(p, "auto")
              /\ data' = [data EXCEPT !["STATUS"] = card.state]
           \/ /\ Receive(c, {})
              /\ expects' \in {expects, expects \o Expecting(p, "auto")}
              /\ data' = [data EXCEPT !["STATUS"] = None]
    /\ ignored' = ignored \cup IF c.seq = 0 THEN {} ELSE {FindToken(c.seq)}
    /\ UNCHANGED <<requests, answer>>

\* ... and otherwise sets the radio state and answers the request, or leaves
\* the status for the next one.
StatusReported(c) ==
    /\ radio \in {"sim", "ready"}
    /\ card.state # "pin" \/ simPin = None
    /\ ReceiveState(c, {}, RadioFor(card.state))
    /\ \/ /\ c.seq # 0
          /\ CompleteToken(FindToken(c.seq), "SUCCESS")
          /\ UNCHANGED data
       \/ /\ c.seq = 0
          /\ data' = [data EXCEPT !["STATUS"] = card.state]
          /\ UNCHANGED <<requests, answer>>
    /\ UNCHANGED <<expects, ignored>>

\* A message that its handler drops because of the radio state, or a refusal
\* that nothing expects
Dropped(c) ==
    /\ Receive(c, {})
    /\ ignored' = ignored \cup {FindToken(c.seq)}
    /\ UNCHANGED <<requests, answer, expects, data>>

PinStatus(c) ==
    /\ c.cmd = "PIN_STATUS" /\ c.type = "GET"
    /\ AutoEnter(c) \/ StatusReported(c) \/ (radio = "off" /\ Dropped(c))
    /\ UNCHANGED <<simPin, card, verdict, reports>>

\* The same as a notification
PinStatusReport ==
    /\ radio # "off" /\ reports < MaxReports
    /\ reports' = reports + 1
    /\ LET c == Com("PIN_STATUS", "GET", 0, None)
       IN  AutoEnter(c) \/ StatusReported(c)
    /\ UNCHANGED <<simPin, card, verdict>>

\* ipc_sec_pin_status_callback: the stored status is reported when the stored
\* PIN was refused, and forgotten when it was accepted.
PinStatusCallback(c) ==
    /\ c.cmd = "PIN_STATUS" /\ c.type = "SET" /\ Mode(c) = "auto"
    /\ Receive(c, {}) /\ Unexpect(c, <<>>)
    /\ \E o \in Outcomes(c, "PIN") :
          /\ card' = o[2]
          /\ data' = IF o[1] = "SUCCESS" THEN [data EXCEPT !["STATUS"] = None]
                     ELSE data
    /\ UNCHANGED <<requests, answer, simPin, verdict, ignored, reports>>

-----------------------------------------------------------------------------
(* Answers to PINs and passwords.                                          *)

\* The error a verdict is passed on as
Errno(v) == CASE v = "SUCCESS" -> "SUCCESS"
              [] v \in {"WRONG", "BLOCKED"} -> "PASSWORD_INCORRECT"
              [] OTHER -> "GENERIC_FAILURE"

\* The request ends with error e.
Ends(c, e) ==
    /\ Receive(c, {}) /\ Unexpect(c, <<>>)
    /\ CompleteToken(FindToken(c.seq), e)

\* The verdict is stored and the modem asked for the tries left; if that
\* fails, the request ends.
AskTries(c, k, v) ==
    \/ /\ data' = [data EXCEPT ![k] = v]
       /\ Receive(c, {Com("LOCK_INFORMATION", "GET", c.seq, None)})
       /\ Unexpect(c, <<>>)
       /\ UNCHANGED <<requests, answer>>
    \/ /\ data' = [data EXCEPT ![k] = None]
       /\ Ends(c, "GENERIC_FAILURE")

\* A facility lock: the stored command goes out once the PIN2 is accepted.
LockCallback(c, v) ==
    IF data["LOCK"] # None /\ v = "SUCCESS"
    THEN /\ data' = [data EXCEPT !["LOCK"] = None]
         /\ LET l == Com("PHONE_LOCK", "SET", c.seq, None)
            IN  \/ /\ Receive(c, {l}) /\ Unexpect(c, Expecting(l, "callback"))
                   /\ UNCHANGED <<requests, answer>>
                \/ /\ CompleteToken(FindToken(c.seq), "GENERIC_FAILURE")
                   /\ Receive(c, {})
                   /\ \E E \in {<<>>, Expecting(l, "callback")} : Unexpect(c, E)
    ELSE AskTries(c, "LOCK", v)

\* Mutant of IoCallback: the file is accessed whatever the card says of PIN2.
IoCallbackUnchecked(c, v) ==
    /\ data' = [data EXCEPT !["IO"] = None]
    /\ Receive(c, {Com("RSIM_ACCESS", "GET", c.seq, None)})
    /\ Unexpect(c, <<>>)
    /\ UNCHANGED <<requests, answer>>

\* A file: likewise
IoCallback(c, v) ==
    /\ data' = [data EXCEPT !["IO"] = None]
    /\ \/ v # "SUCCESS" /\ Ends(c, "SIM_PIN2")
       \/ /\ v = "SUCCESS" /\ data["IO"] # None
          /\ Receive(c, {Com("RSIM_ACCESS", "GET", c.seq, None)})
          /\ Unexpect(c, <<>>)
          /\ UNCHANGED <<requests, answer>>
       \/ v = "SUCCESS" /\ Ends(c, "GENERIC_FAILURE")

\* ipc_sec_callback, by the kind of the request that has the number; nothing
\* happens if none has.
SecCallback(c) ==
    /\ c.type = "SET" /\ Mode(c) = "callback"
    /\ \/ /\ FindToken(c.seq) = None
          /\ Receive(c, {}) /\ Unexpect(c, <<>>)
          /\ \E o \in Outcomes(c, "none") : card' = o[2]
          /\ UNCHANGED <<requests, answer, data, verdict>>
       \/ /\ FindToken(c.seq) # None
          /\ LET r == requests[First(requests, c.seq)]
             IN  \E o \in Outcomes(c, r.kind) :
                    /\ card' = o[2]
                    /\ verdict' = [verdict EXCEPT ![r.token] = o[1]]
                    /\ CASE r.kind \in {"PIN", "CHANGE", "PIN2", "CHANGE2"} ->
                              AskTries(c, r.kind, o[1])
                         [] r.kind = "LOCK" -> LockCallback(c, o[1])
                         [] r.kind = "IO" -> IoCallback(c, o[1])
                         [] OTHER -> Ends(c, Errno(o[1])) /\ UNCHANGED data
    /\ UNCHANGED <<simPin, ignored, reports>>

\* The order in which ipc_sec_lock_infomation looks for a stored verdict
TriesOrder == <<"PIN", "CHANGE", "PIN2", "CHANGE2", "LOCK">>

\* ipc_sec_lock_infomation: the request with the number gets the first stored
\* verdict, of whichever kind; the bytes of a stored lock command read as any.
LockInformation(c) ==
    /\ c.cmd = "LOCK_INFORMATION" /\ radio # "off"
    /\ LET found == {n \in 1 .. Len(TriesOrder) : data[TriesOrder[n]] # None}
           k == TriesOrder[CHOOSE n \in found : \A j \in found : n <= j]
       IN  \/ /\ found = {}
              /\ UNCHANGED <<requests, answer, data>>
           \/ /\ found # {}
              /\ \E v \in IF data[k] = "command" THEN Verdict ELSE {data[k]} :
                    CompleteToken(FindToken(c.seq), Errno(v))
              /\ data' = [data EXCEPT ![k] = None]
    /\ Receive(c, {})
    /\ UNCHANGED <<expects, simPin, card, verdict, ignored, reports>>

\* ipc_sec_rsim_access
RsimAccess(c) ==
    /\ c.cmd = "RSIM_ACCESS"
    /\ Receive(c, {})
    /\ CompleteToken(FindToken(c.seq), "SUCCESS")
    /\ UNCHANGED <<expects, simVars>>

\* The radio state drops the tries left, or the modem refuses a command for
\* which no generic response is expected.
Unanswered(c) ==
    /\ \/ c.cmd = "LOCK_INFORMATION" /\ radio = "off"
       \/ c.type = "GET" /\ Mode(c) = "ignore"
    /\ Dropped(c)
    /\ UNCHANGED <<simPin, card, verdict, reports>>

\* An outage flushes the request data; the card keeps its PIN lock only if it
\* is powered, and asks for the PIN again otherwise.
Outage ==
    /\ QueueOutage
    /\ data' = [k \in Kinds |-> None]
    /\ card' \in {card} \cup
          IF card.state = "ready" THEN {[card EXCEPT !.state = "pin"]} ELSE {}
    /\ UNCHANGED <<simPin, verdict, ignored, reports>>

\* The modem reports its power state.
RadioChange(s) ==
    /\ s = "off" \/ (s = "sim" /\ radio # "ready")
    /\ RadioState(s) /\ UNCHANGED simVars

Next ==
    \/ \E t \in Token, k \in Kind :
          \E p \in PinOf(k), f \in Firsts(k) : OnRequest(t, k, p, f)
    \/ \E i \in 1 .. Len(requests) :
          \/ RequestFails(i) \/ GetSimStatus(i) \/ EnterSimPin(i)
          \/ EnterSimPuk(i) \/ EnterSimPin2(i) \/ EnterSimPuk2(i)
          \/ ChangeSimPin(i) \/ ChangeSimPin2(i)
          \/ SetFacilityLock(i) \/ SimIo(i)
    \/ \E c \in wire :
          \/ PinStatus(c) \/ PinStatusCallback(c) \/ SecCallback(c)
          \/ LockInformation(c) \/ RsimAccess(c) \/ Unanswered(c)
    \/ PinStatusReport
    \/ Outage
    \/ \E s \in {"off", "sim"} : RadioChange(s)

Spec == Init /\ [][Next]_vars
-----------------------------------------------------------------------------
(* Properties.                                                             *)

TypeOK ==
    /\ radio \in RadioStates
    /\ requests \in Seq(Request)
    /\ wire \subseteq Command
    /\ simPin \in Pin \cup {None}
    /\ \A k \in Kinds : data[k] \in {None, "command"} \cup Verdict \cup CardStates
    /\ card \in [state : CardStates, pin : Pin, tries : 0 .. MaxTries]
    /\ (card.tries = 0) = (card.state = "puk")

\* The second command of a request that needs PIN2 first
Second(c, r) ==
    /\ r.first /\ r.seq = c.seq /\ ~c.old
    /\ \/ r.kind = "IO" /\ c.cmd = "RSIM_ACCESS"
       \/ r.kind = "LOCK" /\ c.cmd = "PHONE_LOCK"

\* The lock is set and the file accessed only after the card has accepted the
\* PIN2 of that very request, although the command waits in a slot that all
\* requests of the kind share (as long as no answer from before an outage is
\* taken for one from after it).
Pin2Accepted ==
    ~stale => \A c \in wire, i \in 1 .. Len(requests) :
        Second(c, requests[i]) => verdict[requests[i].token] = "SUCCESS"

\* The requests nobody will answer any more: they are handled, block their
\* kind, and no command is on its way for them.
Stuck == {r \in {requests[i] : i \in 1 .. Len(requests)} :
            Handled(r) /\ \A c \in wire : c.old \/ c.seq # r.seq}

\* A SIM request gets stuck in these ways only, until an answer from before an
\* outage comes in: its own answer came and was dropped below SIM_NOT_READY,
\* was a refusal that nothing expects, or was a status on which the library
\* entered the stored PIN instead (sim.c:226-248); or it asked for the tries
\* left while another request did, and its stored verdict went to that one
\* (sim.c looks for it by kind of request, in a fixed order).
HandledWaits ==
    stale \/ \A r \in Stuck :
        \/ r.token \in ignored
        \/ /\ r.kind \in {TriesOrder[n] : n \in 1 .. Len(TriesOrder)}
           /\ verdict[r.token] # None
           /\ \E u \in Token \ {r.token} : verdict[u] # None
-----------------------------------------------------------------------------
(* Proofs, for any number of requests, PINs, tries, reports and outages.   *)

\* The generic responses expected: only the PIN entered by the library itself
\* is expected under the number 0 of a report.
Expect ==
    {e \in [seq : Nat, cmd : {"PIN_STATUS", "PHONE_LOCK", "CHANGE_LOCKING_PW"},
            mode : {"callback", "auto"}] : e.seq = 0 => e.mode = "auto"}

Slot == {None, "command"} \cup Verdict \cup CardStates

\* What a card can be
CardType(d) ==
    /\ d \in [state : CardStates, pin : Pin, tries : 0 .. MaxTries]
    /\ d.tries = 0 <=> d.state = "puk"

TypeInv ==
    /\ TypeOK /\ QueueInv
    /\ expects \in Seq(Expect)
    /\ data \in [Kinds -> Slot]
    /\ verdict \in [Token -> Verdict \cup {None}]

\* Requests, commands and expects are what the lemmas about the queue need.
LEMMA Shapes ==
    /\ Numberable(Request) /\ Ageable(Command)
    /\ \A cmd \in {"PIN_STATUS", "PHONE_LOCK", "CHANGE_LOCKING_PW", "LOCK_INFORMATION",
                   "RSIM_ACCESS"}, type \in {"GET", "SET"}, n \in Nat, p \in Pin \cup {None} :
          /\ Com(cmd, type, n, p) \in Command /\ Com(cmd, type, n, p).cmd = cmd
          /\ Com(cmd, type, n, p).type = type /\ Com(cmd, type, n, p).seq = n
          /\ Com(cmd, type, n, p).pin = p /\ ~Com(cmd, type, n, p).old
<1>1. Numberable(Request)
  BY DEF Numberable, Request
<1>2. Ageable(Command)
  BY DEF Ageable, Command
<1> QED
  BY <1>1, <1>2 DEF Com, Command

\* What a handler expects for a command
LEMMA ExpectShapes ==
    ASSUME NEW c \in Command, c.cmd \in {"PIN_STATUS", "PHONE_LOCK", "CHANGE_LOCKING_PW"},
           NEW mode \in {"callback", "auto"}, c.seq = 0 => mode = "auto"
    PROVE  /\ Expecting(c, mode) \in Seq(Expect)
           /\ Len(Expecting(c, mode)) = 1
           /\ Expecting(c, mode)[1].seq = c.seq /\ Expecting(c, mode)[1].mode = mode
<1>1. [seq |-> c.seq, cmd |-> c.cmd, mode |-> mode] \in Expect
  BY DEF Expect, Command
<1> QED
  BY <1>1 DEF Expecting

LEMMA NothingExpected == <<>> \in Seq(Expect) /\ Len(<<>>) = 0
OBVIOUS

\* A generic response that a callback waits for is not one to a report.
LEMMA ModeFacts ==
    ASSUME expects \in Seq(Expect), NEW c, Mode(c) \in {"callback", "auto"}
    PROVE  \E n \in 1 .. Len(expects) :
              /\ expects[n].seq = c.seq /\ expects[n].mode = Mode(c)
              /\ expects[n] \in Expect
              /\ Mode(c) = "callback" => c.seq # 0
<1>1. Numbered(expects, c.seq) # {}
  BY DEF Mode
<1>2. PICK n : n = First(expects, c.seq)
  OBVIOUS
<1>3. n \in 1 .. Len(expects) /\ expects[n].seq = c.seq
  BY <1>1, <1>2, FirstNumbered
<1>4. expects[n].mode = Mode(c)
  BY <1>1, <1>2 DEF Mode
<1>5. expects[n] \in Expect
  BY <1>3
<1>6. expects[n].seq = 0 => expects[n].mode = "auto"
  BY <1>5 DEF Expect
<1> QED
  BY <1>3, <1>4, <1>5, <1>6

\* What is expected afterwards was, or is registered.
LEMMA UnexpectFrom ==
    ASSUME expects \in Seq(Expect), NEW c, Mode(c) # "ignore",
           NEW E \in Seq(Expect), Unexpect(c, E)
    PROVE  /\ expects' \in Seq(Expect)
           /\ \A n \in 1 .. Len(expects') :
                 \/ \E m \in 1 .. Len(expects) : expects'[n] = expects[m]
                 \/ \E m \in 1 .. Len(E) : expects'[n] = E[m]
<1>1. Numbered(expects, c.seq) # {}
  BY DEF Mode
<1>2. PICK i : i = First(expects, c.seq)
  OBVIOUS
<1>3. i \in 1 .. Len(expects)
  BY <1>1, <1>2, FirstNumbered
<1>4. PICK q : q = Delete(expects, i)
  OBVIOUS
<1>5. q \in Seq(Expect) /\ expects' = q \o E
  BY <1>2, <1>3, <1>4, DeleteType DEF Unexpect
<1>6. \A n \in 1 .. Len(q) : \E m \in 1 .. Len(expects) : q[n] = expects[m]
  <2> SUFFICES ASSUME NEW n \in 1 .. Len(q)
               PROVE  \E m \in 1 .. Len(expects) : q[n] = expects[m]
    OBVIOUS
  <2>1. n \in 1 .. Len(Delete(expects, i))
    BY <1>4
  <2>2. \E k, m \in 1 .. Len(expects) : Delete(expects, i)[n] = expects[k]
    BY <1>3, <2>1, DeletePairs
  <2> QED
    BY <1>4, <2>2
<1>7. \A n \in 1 .. Len(expects') :
         (n \in 1 .. Len(q) /\ expects'[n] = q[n])
         \/ (n - Len(q) \in 1 .. Len(E) /\ expects'[n] = E[n - Len(q)])
  BY <1>5
<1>8. expects' \in Seq(Expect)
  BY <1>5
<1> QED
  BY <1>6, <1>7, <1>8

\* What the card makes of a command
LEMMA OutcomeTypes ==
    ASSUME SimAssumption, CardType(card), NEW c \in Command, NEW k,
           NEW o \in Outcomes(c, k)
    PROVE  o[1] \in Verdict /\ CardType(o[2])
<1>0. MaxTries \in Nat \ {0}
  BY DEF SimAssumption
<1>1. /\ card \in [state : CardStates, pin : Pin, tries : 0 .. MaxTries]
      /\ card.tries = 0 <=> card.state = "puk"
  BY DEF CardType
<1>2. /\ card.pin \in Pin /\ card.state \in CardStates /\ card.tries \in 0 .. MaxTries
      /\ card = [state |-> card.state, pin |-> card.pin, tries |-> card.tries]
  BY <1>1
<1>3. ASSUME NEW s \in CardStates, NEW p \in Pin, NEW n \in 0 .. MaxTries,
             n = 0 <=> s = "puk"
      PROVE  CardType([state |-> s, pin |-> p, tries |-> n])
  BY <1>3 DEF CardType
<1>4. ASSUME NEW p, o \in Tried(p)
      PROVE  o[1] \in Verdict /\ CardType(o[2])
  <2>1. CASE card.state = "puk"
    BY <1>4, <2>1 DEF Tried, Verdict
  <2>2. CASE card.state # "puk" /\ p = card.pin
    <3>1. o = <<"SUCCESS", [card EXCEPT !.state = "ready", !.tries = MaxTries]>>
      BY <1>4, <2>2 DEF Tried
    <3>2. o[2] = [state |-> "ready", pin |-> card.pin, tries |-> MaxTries]
      BY <1>2, <3>1
    <3>3. CardType([state |-> "ready", pin |-> card.pin, tries |-> MaxTries])
      BY <1>0, <1>2, <1>3 DEF CardStates
    <3> QED
      BY <3>1, <3>2, <3>3 DEF Verdict
  <2>3. CASE card.state # "puk" /\ p # card.pin /\ card.tries > 1
    <3>1. o = <<"WRONG", [card EXCEPT !.tries = card.tries - 1]>>
      BY <1>4, <2>3 DEF Tried
    <3>2. o[2] = [state |-> card.state, pin |-> card.pin, tries |-> card.tries - 1]
      BY <1>2, <3>1
    <3>3. card.tries - 1 \in 0 .. MaxTries /\ card.tries - 1 # 0
      BY <1>0, <1>2, <2>3
    <3>4. CardType([state |-> card.state, pin |-> card.pin, tries |-> card.tries - 1])
      BY <1>2, <1>3, <2>3, <3>3
    <3> QED
      BY <3>1, <3>2, <3>4 DEF Verdict
  <2>4. CASE card.state # "puk" /\ p # card.pin /\ ~(card.tries > 1)
    <3>1. o = <<"BLOCKED", [card EXCEPT !.state = "puk", !.tries = 0]>>
      BY <1>4, <2>4 DEF Tried
    <3>2. o[2] = [state |-> "puk", pin |-> card.pin, tries |-> 0]
      BY <1>2, <3>1
    <3>3. CardType([state |-> "puk", pin |-> card.pin, tries |-> 0])
      BY <1>0, <1>2, <1>3 DEF CardStates
    <3> QED
      BY <3>1, <3>2, <3>3 DEF Verdict
  <2> QED
    BY <2>1, <2>2, <2>3, <2>4
<1>5. CASE c.pin # None
  BY <1>4, <1>5 DEF Outcomes
<1>6. CASE c.pin = None
  <2>1. \/ \E v \in Verdict : o = <<v, card>>
        \/ \E p \in Pin : o = <<"SUCCESS", [state |-> "ready", pin |-> p, tries |-> MaxTries]>>
    BY <1>6 DEF Outcomes
  <2>2. \A p \in Pin : CardType([state |-> "ready", pin |-> p, tries |-> MaxTries])
    BY <1>0, <1>3 DEF CardStates
  <2> QED
    BY <2>1, <2>2 DEF Verdict
<1> QED
  BY <1>5, <1>6

LEMMA TypeFacts ==
    ASSUME TypeInv
    PROVE  /\ requests \in Seq(Request) /\ QueueInv /\ seq \in Nat
           /\ wire \subseteq Command /\ expects \in Seq(Expect)
           /\ data \in [Kinds -> Slot] /\ verdict \in [Token -> Verdict \cup {None}]
           /\ radio \in RadioStates /\ simPin \in Pin \cup {None} /\ CardType(card)
BY DEF TypeInv, TypeOK, QueueInv, CardType

LEMMA TypesFrom ==
    ASSUME requests \in Seq(Request), QueueInv, wire \subseteq Command,
           expects \in Seq(Expect), data \in [Kinds -> Slot],
           verdict \in [Token -> Verdict \cup {None}], radio \in RadioStates,
           simPin \in Pin \cup {None}, CardType(card)
    PROVE  TypeInv
<1>1. (card.tries = 0) = (card.state = "puk")
  BY DEF CardType
<1>2. card \in [state : CardStates, pin : Pin, tries : 0 .. MaxTries]
  BY DEF CardType
<1>3. \A k \in Kinds : data[k] \in {None, "command"} \cup Verdict \cup CardStates
  BY DEF Slot
<1> QED
  BY <1>1, <1>2, <1>3 DEF TypeInv, TypeOK

LEMMA TypeInit == ASSUME SimAssumption, Init PROVE TypeInv
<1>1. QueueInv
  BY QueueInitInv DEF Init
<1>2. /\ requests = <<>> /\ wire = {} /\ expects = <<>> /\ radio = "out"
  BY DEF Init, QueueInit
<1>3. PICK d \in [state : {"pin", "ready"}, pin : Pin, tries : {MaxTries}] : card = d
  BY DEF Init
<1>4. CardType(card)
  BY <1>3 DEF CardType, CardStates, SimAssumption
<1>5. /\ data \in [Kinds -> Slot] /\ verdict \in [Token -> Verdict \cup {None}]
      /\ simPin \in Pin \cup {None}
  BY DEF Init, Slot
<1> QED
  BY <1>1, <1>2, <1>4, <1>5, TypesFrom DEF RadioStates

\* A handler sends a command.
LEMMA SendTypes ==
    ASSUME TypeInv, NEW i \in 1 .. Len(requests), NEW c \in Command,
           NEW E \in Seq(Expect), Send(i, c, E)
    PROVE  /\ QueueInv' /\ requests' \in Seq(Request) /\ wire' \subseteq Command
           /\ expects' \in Seq(Expect) /\ radio' = radio
<1>1. QueueInv' /\ requests' \in Seq(Request)
  <2>1. QueueInv /\ Numberable(Request) /\ requests \in Seq(Request)
    BY TypeFacts, Shapes
  <2> QED
    BY <2>1, SendKeeps
<1>2. wire' \subseteq Command /\ radio' = radio /\ expects' = expects \o E
  BY TypeFacts DEF Send
<1> QED
  BY <1>1, <1>2, TypeFacts

\* What a handler does with the queue: it sends a command with a callback
\* expected or nothing, or answers its request at once.
LEMMA HandlerCases ==
    ASSUME TypeInv, NEW i \in 1 .. Len(requests),
           \/ RequestFails(i) \/ GetSimStatus(i) \/ EnterSimPin(i)
           \/ EnterSimPuk(i) \/ EnterSimPin2(i) \/ EnterSimPuk2(i)
           \/ ChangeSimPin(i) \/ ChangeSimPin2(i)
           \/ SetFacilityLock(i) \/ SimIo(i)
    PROVE  /\ Dispatched(i, Ready) /\ UNCHANGED <<card, verdict, ignored, reports>>
           /\ simPin' \in {simPin, requests[i].pin}
           /\ \/ /\ \E e : CompleteNow(i, e)
                 /\ \/ data' = data
                    \/ data' = [data EXCEPT !["STATUS"] = None]
                    \/ /\ requests[i].kind \in {"LOCK", "IO"}
                       /\ data' = [data EXCEPT ![requests[i].kind] = None]
              \/ /\ data' = data \/ data' = [data EXCEPT ![requests[i].kind] = "command"]
                 /\ \/ requests[i].kind = "STATUS"
                       /\ Send(i, Com("PIN_STATUS", "GET", seq + 1, None), <<>>)
                    \/ requests[i].kind = "IO" /\ ~requests[i].first
                       /\ Send(i, Com("RSIM_ACCESS", "GET", seq + 1, None), <<>>)
                    \/ \E p \in {None, requests[i].pin} :
                          SendExpecting(i, Com("PIN_STATUS", "SET", seq + 1, p))
                    \/ SendExpecting(i, Com("CHANGE_LOCKING_PW", "SET", seq + 1, None))
                    \/ ~requests[i].first
                       /\ SendExpecting(i, Com("PHONE_LOCK", "SET", seq + 1, None))
<1>1. CASE RequestFails(i)
  <2>1. CASE simPin' = simPin
    BY <1>1, <2>1 DEF RequestFails
  <2>2. CASE simPin' # simPin
    BY <1>1, <2>2 DEF RequestFails
  <2> QED
    BY <2>1, <2>2
<1>2. CASE GetSimStatus(i)
  BY <1>2 DEF GetSimStatus, Runs
<1>3. CASE EnterSimPin(i)
  BY <1>3 DEF EnterSimPin, Runs
<1>4. CASE EnterSimPuk(i) \/ EnterSimPin2(i) \/ EnterSimPuk2(i)
  BY <1>4 DEF EnterSimPuk, EnterSimPin2, EnterSimPuk2, Entering, Runs, simVars
<1>5. CASE ChangeSimPin(i) \/ ChangeSimPin2(i)
  BY <1>5 DEF ChangeSimPin, ChangeSimPin2, Entering, Runs, simVars
<1>6. CASE SetFacilityLock(i)
  BY <1>6 DEF SetFacilityLock, Pin2First, Runs
<1>7. CASE SimIo(i)
  BY <1>7 DEF SimIo, Pin2First, Runs
<1> QED
  BY <1>1, <1>2, <1>3, <1>4, <1>5, <1>6, <1>7

\* ... and so to the command that is sent
LEMMA SendCases ==
    ASSUME TypeInv, NEW i \in 1 .. Len(requests),
           \/ requests[i].kind = "STATUS"
              /\ Send(i, Com("PIN_STATUS", "GET", seq + 1, None), <<>>)
           \/ requests[i].kind = "IO" /\ ~requests[i].first
              /\ Send(i, Com("RSIM_ACCESS", "GET", seq + 1, None), <<>>)
           \/ \E p \in {None, requests[i].pin} :
                 SendExpecting(i, Com("PIN_STATUS", "SET", seq + 1, p))
           \/ SendExpecting(i, Com("CHANGE_LOCKING_PW", "SET", seq + 1, None))
           \/ ~requests[i].first
              /\ SendExpecting(i, Com("PHONE_LOCK", "SET", seq + 1, None))
    PROVE  \E c \in Command, E \in Seq(Expect) :
              /\ Send(i, c, E)
              /\ c.seq = seq + 1 /\ ~c.old /\ c.cmd # "LOCK_INFORMATION"
              /\ c.cmd \in {"RSIM_ACCESS", "PHONE_LOCK"} => ~requests[i].first
              /\ c.cmd = "PIN_STATUS" /\ c.type = "GET" => requests[i].kind = "STATUS"
              /\ \A n \in 1 .. Len(E) : E[n].seq = seq + 1 /\ E[n].mode # "auto"
<1>1. /\ seq + 1 \in Nat /\ seq + 1 # 0 /\ requests[i] \in Request
  BY TypeFacts
<1>e. PICK N : N = <<>>
  OBVIOUS
<1>f. N \in Seq(Expect) /\ Len(N) = 0
  BY <1>e
<1>2. None \in Pin \cup {None} /\ requests[i].pin \in Pin \cup {None}
  BY <1>1 DEF Request
<1>3. ASSUME NEW c \in Command, c.seq = seq + 1, SendExpecting(i, c),
             c.cmd \in {"PIN_STATUS", "PHONE_LOCK", "CHANGE_LOCKING_PW"}
      PROVE  \E E \in Seq(Expect) :
                /\ Send(i, c, E)
                /\ \A n \in 1 .. Len(E) : E[n].seq = seq + 1 /\ E[n].mode # "auto"
  <2>1. PICK E : E = Expecting(c, "callback")
    OBVIOUS
  <2>2. E \in Seq(Expect) /\ Len(E) = 1 /\ E[1].seq = seq + 1 /\ E[1].mode = "callback"
    BY <1>1, <1>3, <2>1, ExpectShapes
  <2>3. Send(i, c, E)
    BY <1>3, <2>1 DEF SendExpecting
  <2> QED
    BY <2>2, <2>3
<1>4. CASE requests[i].kind = "STATUS"
           /\ Send(i, Com("PIN_STATUS", "GET", seq + 1, None), <<>>)
  <2>1. PICK c : c = Com("PIN_STATUS", "GET", seq + 1, None)
    OBVIOUS
  <2>2. /\ c \in Command /\ c.cmd = "PIN_STATUS" /\ c.seq = seq + 1 /\ ~c.old
    BY <1>1, <1>2, <2>1, Shapes
  <2>3. Send(i, c, N)
    BY <1>4, <1>e, <2>1
  <2>4. \A n \in 1 .. Len(N) : N[n].seq = seq + 1 /\ N[n].mode # "auto"
    BY <1>f
  <2> QED
    BY <1>4, <1>f, <2>2, <2>3, <2>4
<1>5. CASE requests[i].kind = "IO" /\ ~requests[i].first
           /\ Send(i, Com("RSIM_ACCESS", "GET", seq + 1, None), <<>>)
  <2>1. PICK c : c = Com("RSIM_ACCESS", "GET", seq + 1, None)
    OBVIOUS
  <2>2. /\ c \in Command /\ c.cmd = "RSIM_ACCESS" /\ c.seq = seq + 1 /\ ~c.old
    BY <1>1, <1>2, <2>1, Shapes
  <2>3. Send(i, c, N)
    BY <1>5, <1>e, <2>1
  <2>4. \A n \in 1 .. Len(N) : N[n].seq = seq + 1 /\ N[n].mode # "auto"
    BY <1>f
  <2> QED
    BY <1>5, <1>f, <2>2, <2>3, <2>4
<1>6. ASSUME NEW p \in {None, requests[i].pin},
             SendExpecting(i, Com("PIN_STATUS", "SET", seq + 1, p))
      PROVE  \E c \in Command : /\ c.seq = seq + 1 /\ ~c.old /\ SendExpecting(i, c)
                                /\ c.cmd = "PIN_STATUS" /\ c.type = "SET"
  <2>1. p \in Pin \cup {None}
    BY <1>2
  <2>2. PICK c : c = Com("PIN_STATUS", "SET", seq + 1, p)
    OBVIOUS
  <2>3. /\ c \in Command /\ c.cmd = "PIN_STATUS" /\ c.type = "SET"
        /\ c.seq = seq + 1 /\ ~c.old
    BY <1>1, <2>1, <2>2, Shapes
  <2> QED
    BY <1>6, <2>2, <2>3
<1>7. ASSUME NEW cmd \in {"CHANGE_LOCKING_PW", "PHONE_LOCK"},
             SendExpecting(i, Com(cmd, "SET", seq + 1, None))
      PROVE  \E c \in Command : /\ c.seq = seq + 1 /\ ~c.old /\ SendExpecting(i, c)
                                /\ c.cmd = cmd
  <2>1. PICK c : c = Com(cmd, "SET", seq + 1, None)
    OBVIOUS
  <2>2. c \in Command /\ c.cmd = cmd /\ c.seq = seq + 1 /\ ~c.old
    BY <1>1, <1>2, <2>1, Shapes
  <2> QED
    BY <1>7, <2>1, <2>2
<1>8. CASE \E p \in {None, requests[i].pin} :
              SendExpecting(i, Com("PIN_STATUS", "SET", seq + 1, p))
  <2>1. PICK c \in Command : /\ c.seq = seq + 1 /\ ~c.old /\ SendExpecting(i, c)
                             /\ c.cmd = "PIN_STATUS" /\ c.type = "SET"
    BY <1>6, <1>8
  <2> QED
    BY <1>3, <2>1
<1>9. CASE SendExpecting(i, Com("CHANGE_LOCKING_PW", "SET", seq + 1, None))
  <2>1. PICK c \in Command : /\ c.seq = seq + 1 /\ ~c.old /\ SendExpecting(i, c)
                             /\ c.cmd = "CHANGE_LOCKING_PW"
    BY <1>7, <1>9
  <2> QED
    BY <1>3, <2>1
<1>10. CASE ~requests[i].first
            /\ SendExpecting(i, Com("PHONE_LOCK", "SET", seq + 1, None))
  <2>1. PICK c \in Command : /\ c.seq = seq + 1 /\ ~c.old /\ SendExpecting(i, c)
                             /\ c.cmd = "PHONE_LOCK"
    BY <1>7, <1>10
  <2> QED
    BY <1>3, <1>10, <2>1
<1> QED
  BY <1>4, <1>5, <1>8, <1>9, <1>10

\* An expect registered by the handler of the answer to command c
Registered(e, c) ==
    e.seq = c.seq /\ (e.mode = "auto" => c.cmd = "PIN_STATUS" /\ c.type = "GET")

Expected(c) ==
    /\ expects' \in Seq(Expect)
    /\ \A n \in 1 .. Len(expects') :
          \/ \E m \in 1 .. Len(expects) : expects'[n] = expects[m]
          \/ Registered(expects'[n], c)

\* The answer to command c is received: its handler sends at most one command,
\* under the same number, or answers the request with that number.
Answering(c, C) ==
    /\ wire' = (wire \ {c}) \cup C /\ stale' = (stale \/ c.old)
    /\ UNCHANGED <<seq, asked>>
    /\ \A d \in C : /\ d \in Command /\ d.seq = c.seq /\ ~d.old
                    /\ d.cmd = "PIN_STATUS" => d.type = "SET"
                    /\ c.seq = 0 => d.cmd = "PIN_STATUS"
    /\ \A d, e \in C : d = e
    /\ \/ UNCHANGED <<requests, answer>>
       \/ /\ C = {} /\ (c.seq # 0 \/ c.cmd # "PIN_STATUS")
          /\ \E e : CompleteToken(FindToken(c.seq), e)
    /\ Expected(c)

\* The handler sends nothing ...
LEMMA AnsweringNothing ==
    ASSUME NEW c, NEW s, ReceiveState(c, {}, s), Expected(c),
           \/ UNCHANGED <<requests, answer>>
           \/ /\ c.seq # 0 \/ c.cmd # "PIN_STATUS"
              /\ \E e : CompleteToken(FindToken(c.seq), e)
    PROVE  Answering(c, {}) /\ radio' = s
<1>1. PICK C : C = {}
  OBVIOUS
<1>2. Answering(c, C)
  BY <1>1 DEF Answering, ReceiveState
<1> QED
  BY <1>1, <1>2 DEF ReceiveState

\* ... or command d.
LEMMA AnsweringOne ==
    ASSUME NEW c, NEW d \in Command, Receive(c, {d}), Expected(c),
           d.seq = c.seq, ~d.old, d.cmd = "PIN_STATUS" => d.type = "SET",
           c.seq = 0 => d.cmd = "PIN_STATUS", UNCHANGED <<requests, answer>>
    PROVE  Answering(c, {d}) /\ radio' = radio
BY DEF Answering, Receive, ReceiveState

\* What is expected does not change, or something is registered.
LEMMA ExpectedSame ==
    ASSUME expects \in Seq(Expect), NEW c, expects' = expects
    PROVE  Expected(c)
BY DEF Expected

LEMMA ExpectedMore ==
    ASSUME expects \in Seq(Expect), NEW c, NEW E \in Seq(Expect), expects' = expects \o E,
           \A n \in 1 .. Len(E) : Registered(E[n], c)
    PROVE  Expected(c)
<1>1. expects' \in Seq(Expect)
  OBVIOUS
<1>2. \A n \in 1 .. Len(expects') :
         (n \in 1 .. Len(expects) /\ expects'[n] = expects[n])
         \/ (n - Len(expects) \in 1 .. Len(E) /\ expects'[n] = E[n - Len(expects)])
  OBVIOUS
<1> QED
  BY <1>1, <1>2 DEF Expected

LEMMA ExpectedLess ==
    ASSUME expects \in Seq(Expect), NEW c, Mode(c) # "ignore", NEW E \in Seq(Expect),
           Unexpect(c, E), \A n \in 1 .. Len(E) : Registered(E[n], c)
    PROVE  Expected(c)
BY UnexpectFrom DEF Expected

LEMMA ExpectedNone ==
    ASSUME expects \in Seq(Expect), NEW c, Mode(c) # "ignore", Unexpect(c, <<>>)
    PROVE  Expected(c)
<1>1. PICK E : E = <<>>
  OBVIOUS
<1>2. E \in Seq(Expect) /\ Len(E) = 0
  BY <1>1
<1>3. Unexpect(c, E) /\ \A n \in 1 .. Len(E) : Registered(E[n], c)
  BY <1>1, <1>2
<1> QED
  BY <1>2, <1>3, ExpectedLess

\* Only the status kept for the next query changes.
StatusOnly ==
    /\ data' \in [Kinds -> Slot] /\ verdict' = verdict
    /\ \A k \in Kinds \ {"STATUS"} : data'[k] = data[k]

\* What becomes of the request whose status query is answered
Spent(c) ==
    \/ ignored' = ignored \cup {FindToken(c.seq)}
    \/ ignored' = ignored /\ (c.seq = 0 \/ \E e : CompleteToken(FindToken(c.seq), e))

\* A report of the card status, or the answer to a query
LEMMA StatusCases ==
    ASSUME TypeInv, NEW c \in Command, c.cmd = "PIN_STATUS", c.type = "GET",
           AutoEnter(c) \/ StatusReported(c), verdict' = verdict
    PROVE  \E C : /\ Answering(c, C) /\ radio' \in RadioStates /\ StatusOnly
                  /\ Spent(c) /\ \A d \in C : d.cmd = "PIN_STATUS"
<1>0. /\ expects \in Seq(Expect) /\ data \in [Kinds -> Slot] /\ radio \in RadioStates
      /\ simPin \in Pin \cup {None} /\ card.state \in CardStates /\ c.seq \in Nat
  BY TypeFacts DEF CardType, Command
<1>s. ASSUME NEW s \in CardStates \cup {None}, data' = [data EXCEPT !["STATUS"] = s]
      PROVE  StatusOnly
  BY <1>0, <1>s DEF StatusOnly, Slot
<1>t. ASSUME data' = data PROVE StatusOnly
  BY <1>0, <1>t DEF StatusOnly
<1>1. CASE AutoEnter(c)
  <2>1. PICK p : p = Com("PIN_STATUS", "SET", c.seq, simPin)
    OBVIOUS
  <2>2. /\ p \in Command /\ p.cmd = "PIN_STATUS" /\ p.type = "SET"
        /\ p.seq = c.seq /\ ~p.old
    BY <1>0, <2>1, Shapes
  <2>3. PICK E : E = Expecting(p, "auto")
    OBVIOUS
  <2>4. E \in Seq(Expect) /\ Len(E) = 1 /\ E[1].seq = c.seq /\ E[1].mode = "auto"
    BY <2>2, <2>3, ExpectShapes
  <2>5. \A n \in 1 .. Len(E) : Registered(E[n], c)
    BY <2>4 DEF Registered
  <2>6. UNCHANGED <<requests, answer>> /\ Spent(c)
    BY <1>1 DEF AutoEnter, Spent
  <2>7. CASE Receive(c, {p}) /\ expects' = expects \o E
             /\ data' = [data EXCEPT !["STATUS"] = card.state]
    <3>1. Expected(c)
      BY <1>0, <2>4, <2>5, <2>7, ExpectedMore
    <3>2. Answering(c, {p}) /\ radio' = radio
      BY <2>2, <2>6, <2>7, <3>1, AnsweringOne
    <3>3. StatusOnly
      BY <1>0, <1>s, <2>7
    <3> QED
      BY <1>0, <2>2, <2>6, <3>2, <3>3
  <2>8. CASE Receive(c, {}) /\ expects' \in {expects, expects \o E}
             /\ data' = [data EXCEPT !["STATUS"] = None]
    <3>1. Expected(c)
      BY <1>0, <2>4, <2>5, <2>8, ExpectedMore, ExpectedSame
    <3>2. Answering(c, {}) /\ radio' = radio
      BY <2>6, <2>8, <3>1, AnsweringNothing DEF Receive
    <3>3. StatusOnly
      BY <1>s, <2>8
    <3> QED
      BY <1>0, <2>6, <3>2, <3>3
  <2> QED
    BY <1>1, <2>1, <2>3, <2>7, <2>8 DEF AutoEnter
<1>2. CASE StatusReported(c)
  <2>1. PICK s : s = RadioFor(card.state)
    OBVIOUS
  <2>2. s \in RadioStates
    BY <2>1 DEF RadioFor, RadioStates
  <2>3. ReceiveState(c, {}, s) /\ UNCHANGED <<expects, ignored>>
    BY <1>2, <2>1 DEF StatusReported
  <2>4. Expected(c)
    BY <1>0, <2>3, ExpectedSame
  <2>5. \/ UNCHANGED <<requests, answer>>
        \/ /\ c.seq # 0 \/ c.cmd # "PIN_STATUS"
           /\ \E e : CompleteToken(FindToken(c.seq), e)
    BY <1>2 DEF StatusReported
  <2>6. Answering(c, {}) /\ radio' = s
    BY <2>3, <2>4, <2>5, AnsweringNothing
  <2>7. StatusOnly
    <3>1. data' = data \/ data' = [data EXCEPT !["STATUS"] = card.state]
      BY <1>2 DEF StatusReported
    <3> QED
      BY <1>0, <1>s, <1>t, <3>1
  <2>8. Spent(c)
    BY <1>2, <2>3 DEF StatusReported, Spent
  <2> QED
    BY <2>2, <2>6, <2>7, <2>8
<1> QED
  BY <1>1, <1>2

\* The answers about the card status, and to the PIN the library entered
LEMMA PinStatusCases ==
    ASSUME TypeInv, NEW c \in wire, PinStatus(c)
    PROVE  /\ UNCHANGED <<simPin, card>>
           /\ c.cmd = "PIN_STATUS" /\ c.type = "GET"
           /\ \E C : /\ Answering(c, C) /\ radio' \in RadioStates /\ StatusOnly
                     /\ Spent(c) /\ \A d \in C : d.cmd = "PIN_STATUS"
<1>0. /\ c \in Command /\ expects \in Seq(Expect) /\ data \in [Kinds -> Slot]
      /\ radio \in RadioStates
  BY TypeFacts
<1>1. /\ c.cmd = "PIN_STATUS" /\ c.type = "GET" /\ UNCHANGED <<simPin, card, verdict>>
  BY DEF PinStatus
<1>2. CASE AutoEnter(c) \/ StatusReported(c)
  BY <1>0, <1>1, <1>2, StatusCases
<1>3. CASE Dropped(c)
  <2>1. Receive(c, {}) /\ UNCHANGED <<requests, answer, expects, data>>
        /\ ignored' = ignored \cup {FindToken(c.seq)}
    BY <1>3 DEF Dropped
  <2>2. Expected(c)
    BY <1>0, <2>1, ExpectedSame
  <2>3. Answering(c, {}) /\ radio' = radio
    BY <2>1, <2>2, AnsweringNothing DEF Receive
  <2>4. StatusOnly /\ Spent(c)
    BY <1>0, <1>1, <2>1 DEF StatusOnly, Spent
  <2> QED
    BY <1>0, <1>1, <2>3, <2>4
<1> QED
  BY <1>1, <1>2, <1>3 DEF PinStatus

LEMMA AutoCases ==
    ASSUME SimAssumption, TypeInv, NEW c \in wire, PinStatusCallback(c)
    PROVE  /\ Answering(c, {}) /\ Mode(c) = "auto" /\ StatusOnly /\ CardType(card')
           /\ UNCHANGED <<radio, requests, simPin, ignored>>
<1>0. /\ c \in Command /\ expects \in Seq(Expect) /\ data \in [Kinds -> Slot]
      /\ CardType(card)
  BY TypeFacts
<1>1. /\ Receive(c, {}) /\ Unexpect(c, <<>>) /\ Mode(c) = "auto"
      /\ UNCHANGED <<requests, answer, simPin, verdict, ignored>>
  BY DEF PinStatusCallback
<1>2. Expected(c)
  BY <1>0, <1>1, ExpectedNone
<1>3. Answering(c, {}) /\ radio' = radio
  BY <1>1, <1>2, AnsweringNothing DEF Receive
<1>4. PICK o \in Outcomes(c, "PIN") :
         /\ card' = o[2]
         /\ data' = data \/ data' = [data EXCEPT !["STATUS"] = None]
  BY DEF PinStatusCallback
<1>5. CardType(card')
  BY <1>0, <1>4, OutcomeTypes
<1>6. StatusOnly
  BY <1>0, <1>1, <1>4 DEF StatusOnly, Slot
<1> QED
  BY <1>1, <1>3, <1>5, <1>6

Tries == {TriesOrder[n] : n \in 1 .. Len(TriesOrder)}

LEMMA TriesKinds == Tries = {"PIN", "CHANGE", "PIN2", "CHANGE2", "LOCK"}
<1>1. Len(TriesOrder) = 5 /\ 1 .. 5 = {1, 2, 3, 4, 5}
  BY DEF TriesOrder
<1>2. Tries = {TriesOrder[1], TriesOrder[2], TriesOrder[3], TriesOrder[4], TriesOrder[5]}
  BY <1>1 DEF Tries
<1> QED
  BY <1>2 DEF TriesOrder

\* What a callback does after the modem's verdict v: the request is answered,
\* the tries left are asked for, or the command that waited for the PIN2 goes
\* out because it was accepted.
Judged(c, k, v, C) ==
    /\ Answering(c, C) /\ radio' = radio /\ data' \in [Kinds -> Slot]
    /\ C # {} \/ \E e : CompleteToken(FindToken(c.seq), e)
    /\ \A d \in C :
          \/ d.cmd = "LOCK_INFORMATION" /\ k \in Tries /\ data'[k] = v
          \/ d.cmd \in {"RSIM_ACCESS", "PHONE_LOCK"} /\ v = "SUCCESS"

LEMMA EndsCases ==
    ASSUME TypeInv, NEW c \in wire, Mode(c) = "callback", NEW e, Ends(c, e),
           NEW k, NEW v, data' \in [Kinds -> Slot]
    PROVE  Judged(c, k, v, {})
<1>0. /\ c \in Command /\ expects \in Seq(Expect)
  BY TypeFacts
<1>1. Receive(c, {}) /\ Unexpect(c, <<>>) /\ CompleteToken(FindToken(c.seq), e)
  BY DEF Ends
<1>2. Expected(c) /\ c.seq # 0
  BY <1>0, <1>1, ExpectedNone, ModeFacts
<1>3. Answering(c, {}) /\ radio' = radio
  BY <1>1, <1>2, AnsweringNothing DEF Receive
<1> QED
  BY <1>1, <1>3 DEF Judged

LEMMA SentCases ==
    ASSUME TypeInv, NEW c \in wire, Mode(c) = "callback", NEW d \in Command,
           Receive(c, {d}), d.seq = c.seq, ~d.old, d.cmd # "PIN_STATUS", Expected(c),
           UNCHANGED <<requests, answer>>, NEW k, NEW v, data' \in [Kinds -> Slot],
           \/ d.cmd = "LOCK_INFORMATION" /\ k \in Tries /\ data'[k] = v
           \/ d.cmd \in {"RSIM_ACCESS", "PHONE_LOCK"} /\ v = "SUCCESS"
    PROVE  Judged(c, k, v, {d})
<1>1. c.seq # 0
  BY TypeFacts, ModeFacts
<1>2. Answering(c, {d}) /\ radio' = radio
  BY <1>1, AnsweringOne
<1> QED
  BY <1>2 DEF Judged

LEMMA SlotTypes ==
    ASSUME TypeInv, NEW k \in Kinds, NEW v \in Slot, data' = [data EXCEPT ![k] = v]
    PROVE  data' \in [Kinds -> Slot] /\ data'[k] = v
BY TypeFacts

LEMMA AskTriesCases ==
    ASSUME TypeInv, NEW c \in wire, Mode(c) = "callback", NEW k \in Tries,
           NEW v \in Verdict, AskTries(c, k, v)
    PROVE  \E C : Judged(c, k, v, C)
<1>0. /\ c \in Command /\ expects \in Seq(Expect) /\ c.seq \in Nat /\ k \in Kinds
      /\ v \in Slot /\ None \in Slot
  BY TypeFacts, TriesKinds DEF Command, Kinds, Slot
<1>1. CASE /\ data' = [data EXCEPT ![k] = v]
           /\ Receive(c, {Com("LOCK_INFORMATION", "GET", c.seq, None)})
           /\ Unexpect(c, <<>>)
           /\ UNCHANGED <<requests, answer>>
  <2>1. PICK d : d = Com("LOCK_INFORMATION", "GET", c.seq, None)
    OBVIOUS
  <2>2. d \in Command /\ d.cmd = "LOCK_INFORMATION" /\ d.seq = c.seq /\ ~d.old
    BY <1>0, <2>1, Shapes
  <2>3. Expected(c)
    BY <1>0, <1>1, ExpectedNone
  <2>4. data' \in [Kinds -> Slot] /\ data'[k] = v
    BY <1>0, <1>1, SlotTypes
  <2>5. Receive(c, {d})
    BY <1>1, <2>1
  <2>6. Judged(c, k, v, {d})
    BY <1>1, <2>2, <2>3, <2>4, <2>5, SentCases
  <2> QED
    BY <2>6
<1>2. CASE /\ data' = [data EXCEPT ![k] = None]
           /\ Ends(c, "GENERIC_FAILURE")
  <2>1. data' \in [Kinds -> Slot]
    BY <1>0, <1>2, SlotTypes
  <2>2. Judged(c, k, v, {})
    BY <1>2, <2>1, EndsCases
  <2> QED
    BY <2>2
<1> QED
  BY <1>1, <1>2 DEF AskTries

LEMMA LockCases ==
    ASSUME TypeInv, NEW c \in wire, Mode(c) = "callback",
           NEW v \in Verdict, LockCallback(c, v)
    PROVE  \E C : Judged(c, "LOCK", v, C)
<1>0. /\ c \in Command /\ expects \in Seq(Expect) /\ c.seq \in Nat /\ "LOCK" \in Kinds
      /\ None \in Slot /\ "LOCK" \in Tries /\ c.seq # 0
  BY TypeFacts, TriesKinds, ModeFacts DEF Command, Kinds, Slot
<1>1. CASE ~(data["LOCK"] # None /\ v = "SUCCESS")
  BY <1>0, <1>1, AskTriesCases DEF LockCallback
<1>2. CASE data["LOCK"] # None /\ v = "SUCCESS"
  <2>1. PICK l : l = Com("PHONE_LOCK", "SET", c.seq, None)
    OBVIOUS
  <2>2. l \in Command /\ l.cmd = "PHONE_LOCK" /\ l.seq = c.seq /\ ~l.old
    BY <1>0, <2>1, Shapes
  <2>3. PICK E : E = Expecting(l, "callback")
    OBVIOUS
  <2>4. E \in Seq(Expect) /\ Len(E) = 1 /\ E[1].seq = c.seq /\ E[1].mode = "callback"
    BY <1>0, <2>2, <2>3, ExpectShapes
  <2>5. \A n \in 1 .. Len(E) : Registered(E[n], c)
    BY <2>4 DEF Registered
  <2>6. ASSUME Unexpect(c, E) PROVE Expected(c)
    BY <1>0, <2>4, <2>5, <2>6, ExpectedLess
  <2>7. data' \in [Kinds -> Slot]
    BY <1>0, <1>2, SlotTypes DEF LockCallback
  <2>8. CASE /\ Receive(c, {l}) /\ Unexpect(c, E) /\ UNCHANGED <<requests, answer>>
    <3>1. Judged(c, "LOCK", v, {l})
      BY <1>2, <2>2, <2>6, <2>7, <2>8, SentCases
    <3> QED
      BY <3>1
  <2>9. CASE /\ CompleteToken(FindToken(c.seq), "GENERIC_FAILURE") /\ Receive(c, {})
             /\ \E F \in {<<>>, E} : Unexpect(c, F)
    <3>1. Expected(c)
      BY <1>0, <2>6, <2>9, ExpectedNone
    <3>2. Answering(c, {}) /\ radio' = radio
      BY <1>0, <2>9, <3>1, AnsweringNothing DEF Receive
    <3>3. Judged(c, "LOCK", v, {})
      BY <2>7, <2>9, <3>2 DEF Judged
    <3> QED
      BY <3>3
  <2> QED
    BY <1>2, <2>1, <2>3, <2>8, <2>9 DEF LockCallback
<1> QED
  BY <1>1, <1>2

LEMMA IoCases ==
    ASSUME TypeInv, NEW c \in wire, Mode(c) = "callback",
           NEW v \in Verdict, IoCallback(c, v)
    PROVE  \E C : Judged(c, "IO", v, C)
<1>0. /\ c \in Command /\ expects \in Seq(Expect) /\ c.seq \in Nat /\ "IO" \in Kinds
      /\ None \in Slot
  BY TypeFacts DEF Command, Kinds, Slot
<1>1. data' \in [Kinds -> Slot]
  BY <1>0, SlotTypes DEF IoCallback
<1>2. ASSUME NEW e, Ends(c, e)
      PROVE  \E C : Judged(c, "IO", v, C)
  <2>1. Judged(c, "IO", v, {})
    BY <1>1, <1>2, EndsCases
  <2> QED
    BY <2>1
<1>3. CASE /\ v = "SUCCESS"
           /\ Receive(c, {Com("RSIM_ACCESS", "GET", c.seq, None)})
           /\ Unexpect(c, <<>>)
           /\ UNCHANGED <<requests, answer>>
  <2>1. PICK d : d = Com("RSIM_ACCESS", "GET", c.seq, None)
    OBVIOUS
  <2>2. d \in Command /\ d.cmd = "RSIM_ACCESS" /\ d.seq = c.seq /\ ~d.old
    BY <1>0, <2>1, Shapes
  <2>3. Expected(c)
    BY <1>0, <1>3, ExpectedNone
  <2>4. Receive(c, {d})
    BY <1>3, <2>1
  <2>5. Judged(c, "IO", v, {d})
    BY <1>1, <1>3, <2>2, <2>3, <2>4, SentCases
  <2> QED
    BY <2>5
<1> QED
  BY <1>2, <1>3 DEF IoCallback

\* ipc_sec_callback: no request has the number, or the verdict is on one.
LEMMA SecCases ==
    ASSUME SimAssumption, TypeInv, NEW c \in wire, SecCallback(c)
    PROVE  /\ UNCHANGED <<radio, simPin, ignored>> /\ CardType(card') /\ c.seq # 0
           /\ \/ /\ \A i \in 1 .. Len(requests) : requests[i].seq # c.seq
                 /\ Answering(c, {}) /\ UNCHANGED <<requests, data, verdict>>
              \/ \E i \in 1 .. Len(requests), v \in Verdict : \E C :
                    /\ requests[i].seq = c.seq
                    /\ verdict' = [verdict EXCEPT ![requests[i].token] = v]
                    /\ Judged(c, requests[i].kind, v, C)
<1>0. /\ c \in Command /\ expects \in Seq(Expect) /\ CardType(card)
      /\ requests \in Seq(Request) /\ Mode(c) = "callback" /\ c.seq # 0
      /\ data \in [Kinds -> Slot]
  <2>1. Mode(c) = "callback"
    BY DEF SecCallback
  <2> QED
    BY <2>1, TypeFacts, ModeFacts
<1>1. UNCHANGED <<simPin, ignored>>
  BY DEF SecCallback
<1>2. CASE /\ FindToken(c.seq) = None
           /\ Receive(c, {}) /\ Unexpect(c, <<>>)
           /\ \E o \in Outcomes(c, "none") : card' = o[2]
           /\ UNCHANGED <<requests, answer, data, verdict>>
  <2>1. Expected(c)
    BY <1>0, <1>2, ExpectedNone
  <2>2. Answering(c, {}) /\ radio' = radio
    BY <1>2, <2>1, AnsweringNothing DEF Receive
  <2>3. CardType(card')
    BY <1>0, <1>2, OutcomeTypes
  <2>4. \A i \in 1 .. Len(requests) : requests[i].seq # c.seq
    <3>1. ASSUME NEW i \in 1 .. Len(requests) PROVE requests[i].token # None
      <4>1. requests[i].token \in Token
        BY TypeFacts DEF QueueInv, Queued
      <4> QED
        BY <4>1, QueueAssumption
    <3> QED
      BY <1>0, <1>2, <3>1, FindTokenCases
  <2> QED
    BY <1>0, <1>1, <1>2, <2>2, <2>3, <2>4
<1>3. CASE FindToken(c.seq) # None
  <2>1. PICK i : i = First(requests, c.seq)
    OBVIOUS
  <2>2. i \in 1 .. Len(requests) /\ requests[i].seq = c.seq
    <3>1. Numbered(requests, c.seq) # {}
      BY <1>3 DEF FindToken
    <3> QED
      BY <1>0, <2>1, <3>1, FirstNumbered
  <2>3. PICK r : r = requests[i]
    OBVIOUS
  <2>4. r \in Request
    BY <1>0, <2>2, <2>3
  <2>5. PICK o \in Outcomes(c, r.kind) :
           /\ card' = o[2]
           /\ verdict' = [verdict EXCEPT ![r.token] = o[1]]
           /\ CASE r.kind \in {"PIN", "CHANGE", "PIN2", "CHANGE2"} ->
                     AskTries(c, r.kind, o[1])
                [] r.kind = "LOCK" -> LockCallback(c, o[1])
                [] r.kind = "IO" -> IoCallback(c, o[1])
                [] OTHER -> Ends(c, Errno(o[1])) /\ UNCHANGED data
    BY <1>3, <2>1, <2>3 DEF SecCallback
  <2>6. PICK v : v = o[1]
    OBVIOUS
  <2>7. v \in Verdict /\ CardType(card')
    BY <1>0, <2>5, <2>6, OutcomeTypes
  <2>8. \/ r.kind \in {"PIN", "CHANGE", "PIN2", "CHANGE2"} /\ AskTries(c, r.kind, v)
        \/ r.kind = "LOCK" /\ LockCallback(c, v)
        \/ r.kind = "IO" /\ IoCallback(c, v)
        \/ Ends(c, Errno(v)) /\ UNCHANGED data
    BY <2>5, <2>6
  <2>9. \E C : Judged(c, r.kind, v, C)
    <3>1. CASE r.kind \in {"PIN", "CHANGE", "PIN2", "CHANGE2"} /\ AskTries(c, r.kind, v)
      BY <1>0, <2>7, <3>1, AskTriesCases, TriesKinds
    <3>2. CASE r.kind = "LOCK" /\ LockCallback(c, v)
      BY <1>0, <2>7, <3>2, LockCases
    <3>3. CASE r.kind = "IO" /\ IoCallback(c, v)
      BY <1>0, <2>7, <3>3, IoCases
    <3>4. CASE Ends(c, Errno(v)) /\ UNCHANGED data
      <4>1. data' \in [Kinds -> Slot]
        BY <1>0, <3>4
      <4>2. Judged(c, r.kind, v, {})
        BY <1>0, <3>4, <4>1, EndsCases
      <4> QED
        BY <4>2
    <3> QED
      BY <2>8, <3>1, <3>2, <3>3, <3>4
  <2>10. PICK C : Judged(c, r.kind, v, C)
    BY <2>9
  <2>11. UNCHANGED radio
    BY <2>10 DEF Judged
  <2>12. verdict' = [verdict EXCEPT ![requests[i].token] = v]
    BY <2>3, <2>5, <2>6
  <2> QED
    BY <1>0, <1>1, <2>2, <2>3, <2>7, <2>10, <2>11, <2>12
<1> QED
  BY <1>2, <1>3 DEF SecCallback

\* The answers after which the modem has nothing left of the request: the
\* request is answered, or its answer is dropped, or no verdict is stored.
LEMMA LastCases ==
    ASSUME TypeInv, NEW c \in wire, LockInformation(c) \/ RsimAccess(c) \/ Unanswered(c)
    PROVE  /\ Answering(c, {}) /\ UNCHANGED <<radio, simPin, card, verdict>>
           /\ data' \in [Kinds -> Slot]
           /\ data' = data \/ c.cmd = "LOCK_INFORMATION"
           /\ \/ /\ ignored' = ignored
                 /\ c.cmd # "PIN_STATUS"
                 /\ \E e : CompleteToken(FindToken(c.seq), e)
              \/ /\ ignored' = ignored /\ UNCHANGED <<requests, data>>
                 /\ c.cmd = "LOCK_INFORMATION"
                 /\ \A k \in Tries : data[k] = None
              \/ ignored' = ignored \cup {FindToken(c.seq)} /\ requests' = requests
<1>0. c \in Command /\ expects \in Seq(Expect) /\ data \in [Kinds -> Slot]
  BY TypeFacts
<1>1. /\ Receive(c, {}) /\ UNCHANGED <<expects, simPin, card, verdict>>
  BY DEF LockInformation, RsimAccess, Unanswered, Dropped, simVars
<1>2. Expected(c)
  BY <1>0, <1>1, ExpectedSame
<1>3. ASSUME \/ UNCHANGED <<requests, answer>>
             \/ /\ c.cmd # "PIN_STATUS"
                /\ \E e : CompleteToken(FindToken(c.seq), e)
      PROVE  Answering(c, {}) /\ radio' = radio
  BY <1>1, <1>2, <1>3, AnsweringNothing DEF Receive
<1>4. CASE LockInformation(c)
  <2>1. c.cmd = "LOCK_INFORMATION" /\ ignored' = ignored
    BY <1>4 DEF LockInformation
  <2>2. PICK found : found = {n \in 1 .. Len(TriesOrder) : data[TriesOrder[n]] # None}
    OBVIOUS
  <2>3. CASE found = {} /\ UNCHANGED <<requests, answer, data>>
    <3>1. \A k \in Tries : data[k] = None
      BY <2>2, <2>3 DEF Tries
    <3> QED
      BY <1>0, <1>1, <1>3, <2>1, <2>3, <3>1
  <2>4. CASE LET k == TriesOrder[CHOOSE n \in found : \A j \in found : n <= j]
             IN  /\ \E v \in IF data[k] = "command" THEN Verdict ELSE {data[k]} :
                       CompleteToken(FindToken(c.seq), Errno(v))
                 /\ data' = [data EXCEPT ![k] = None]
    <3>1. \E e : CompleteToken(FindToken(c.seq), e)
      BY <2>4
    <3>2. None \in Slot
      BY DEF Slot
    <3>3. data' \in [Kinds -> Slot]
      BY <1>0, <2>4, <3>2
    <3> QED
      BY <1>1, <1>3, <2>1, <3>1, <3>3
  <2> QED
    BY <1>4, <2>2, <2>3, <2>4 DEF LockInformation
<1>5. CASE RsimAccess(c)
  <2>1. c.cmd = "RSIM_ACCESS" /\ UNCHANGED <<data, ignored>>
        /\ CompleteToken(FindToken(c.seq), "SUCCESS")
    BY <1>5 DEF RsimAccess, simVars
  <2> QED
    BY <1>0, <1>1, <1>3, <2>1
<1>6. CASE Unanswered(c)
  <2>1. UNCHANGED <<requests, answer, data>> /\ ignored' = ignored \cup {FindToken(c.seq)}
    BY <1>6 DEF Unanswered, Dropped
  <2> QED
    BY <1>0, <1>1, <1>3, <2>1
<1> QED
  BY <1>4, <1>5, <1>6

\* An answer keeps the types, and the requests but the one with its number.
LEMMA AnsweringKeeps ==
    ASSUME None \notin Token, TypeInv, NEW c, NEW C, Answering(c, C)
    PROVE  /\ QueueInv' /\ requests' \in Seq(Request) /\ wire' \subseteq Command
           /\ expects' \in Seq(Expect)
           /\ \A j \in 1 .. Len(requests') :
                 \E k \in 1 .. Len(requests) : requests'[j] = requests[k]
           /\ \A k \in 1 .. Len(requests) : requests[k].seq # c.seq =>
                 \E j \in 1 .. Len(requests') : requests'[j] = requests[k]
           /\ \/ UNCHANGED requests
              \/ /\ C = {} /\ (c.seq # 0 \/ c.cmd # "PIN_STATUS")
                 /\ \A j \in 1 .. Len(requests') : requests'[j].token # FindToken(c.seq)
<1>0. /\ requests \in Seq(Request) /\ QueueInv /\ wire \subseteq Command
  BY TypeFacts
<1>1. wire' \subseteq Command /\ expects' \in Seq(Expect) /\ UNCHANGED <<seq, asked>>
  BY <1>0 DEF Answering, Expected
<1>2. CASE UNCHANGED <<requests, answer>>
  <2>1. QueueInv'
    BY <1>0, <1>1, <1>2, RadioKeeps
  <2> QED
    BY <1>0, <1>1, <1>2, <2>1
<1>3. CASE /\ C = {} /\ (c.seq # 0 \/ c.cmd # "PIN_STATUS")
           /\ \E e : CompleteToken(FindToken(c.seq), e)
  <2>1. PICK e : CompleteToken(FindToken(c.seq), e)
    BY <1>3
  <2>2. /\ QueueInv' /\ requests' \in Seq(Request)
        /\ \A j \in 1 .. Len(requests') :
              \E k \in 1 .. Len(requests) : requests'[j] = requests[k]
        /\ \A j \in 1 .. Len(requests') : requests'[j].token # FindToken(c.seq)
        /\ \A k \in 1 .. Len(requests) : requests[k].token # FindToken(c.seq) =>
              \E j \in 1 .. Len(requests') : requests'[j] = requests[k]
    BY <1>0, <1>1, <2>1, CompleteFoundKeeps
  <2>3. ASSUME NEW k \in 1 .. Len(requests), requests[k].token = FindToken(c.seq)
        PROVE  requests[k].seq = c.seq
    <3>1. requests[k].token \in Token
      BY <1>0 DEF QueueInv, Queued
    <3>2. PICK i \in 1 .. Len(requests) :
             requests[i].seq = c.seq /\ FindToken(c.seq) = requests[i].token
      BY <1>0, <2>3, <3>1, FindTokenCases
    <3> QED
      BY <1>0, <2>3, <3>2 DEF QueueInv, DistinctTokens
  <2> QED
    BY <1>1, <1>3, <2>2, <2>3
<1> QED
  BY <1>2, <1>3 DEF Answering

LEMMA TypeStep ==
    ASSUME SimAssumption, None \notin Token, TypeInv, [Next]_vars
    PROVE  TypeInv'
<1>0. /\ requests \in Seq(Request) /\ QueueInv /\ seq \in Nat /\ wire \subseteq Command
      /\ expects \in Seq(Expect) /\ data \in [Kinds -> Slot]
      /\ verdict \in [Token -> Verdict \cup {None}] /\ radio \in RadioStates
      /\ simPin \in Pin \cup {None} /\ CardType(card)
  BY TypeFacts
<1>t. ASSUME requests' \in Seq(Request), QueueInv', wire' \subseteq Command,
             expects' \in Seq(Expect), data' \in [Kinds -> Slot],
             verdict' \in [Token -> Verdict \cup {None}], radio' \in RadioStates,
             simPin' \in Pin \cup {None}, CardType(card)'
      PROVE  TypeInv'
  <2>1. ((card.tries = 0) = (card.state = "puk"))'
    BY <1>t DEF CardType
  <2>2. (card \in [state : CardStates, pin : Pin, tries : 0 .. MaxTries])'
    BY <1>t DEF CardType
  <2>3. \A k \in Kinds : data'[k] \in {None, "command"} \cup Verdict \cup CardStates
    BY <1>t DEF Slot
  <2> QED
    BY <1>t, <2>1, <2>2, <2>3 DEF TypeInv, TypeOK
<1>1. ASSUME NEW t \in Token, NEW k \in Kind, NEW p \in PinOf(k), NEW f \in Firsts(k),
             OnRequest(t, k, p, f)
      PROVE  TypeInv'
  <2>1. PICK r : r = [token |-> t, kind |-> k, pin |-> p, first |-> f, seq |-> 0]
    OBVIOUS
  <2>2. r \in Request /\ r.token = t /\ r.kind # "none" /\ r.seq = 0
    <3>1. k \in Kinds /\ k # "none"
      BY DEF SimAssumption, Kinds
    <3>2. p \in Pin \cup {None} /\ f \in BOOLEAN
      BY DEF PinOf, Firsts
    <3>3. k \in Kind
      OBVIOUS
    <3> QED
      BY <2>1, <3>1, <3>2, <3>3 DEF Request
  <2>3. Issue(t, r) /\ UNCHANGED simVars
    BY <1>1, <2>1 DEF OnRequest
  <2>4. QueueInv' /\ requests' \in Seq(Request)
    BY <1>0, <2>2, <2>3, IssueKeeps
  <2>5. UNCHANGED <<wire, expects, radio>>
    BY <2>3 DEF Issue
  <2>6. UNCHANGED <<data, verdict, simPin, card>>
    BY <2>3 DEF simVars
  <2>7. CardType(card)'
    BY <1>0, <2>6 DEF CardType
  <2> QED
    BY <1>0, <1>t, <2>4, <2>5, <2>6, <2>7
<1>2. ASSUME NEW i \in 1 .. Len(requests),
             \/ RequestFails(i) \/ GetSimStatus(i) \/ EnterSimPin(i)
             \/ EnterSimPuk(i) \/ EnterSimPin2(i) \/ EnterSimPuk2(i)
             \/ ChangeSimPin(i) \/ ChangeSimPin2(i)
             \/ SetFacilityLock(i) \/ SimIo(i)
      PROVE  TypeInv'
  <2>1. requests[i] \in Request
    BY <1>0
  <2>2. requests[i].pin \in Pin \cup {None} /\ requests[i].kind \in Kind
    BY <2>1 DEF Request
  <2>3. /\ UNCHANGED <<card, verdict>> /\ simPin' \in {simPin, requests[i].pin}
    BY <1>2, HandlerCases
  <2>4. data' \in [Kinds -> Slot]
    <3>1. \/ data' = data \/ data' = [data EXCEPT !["STATUS"] = None]
          \/ data' = [data EXCEPT ![requests[i].kind] = None]
          \/ data' = [data EXCEPT ![requests[i].kind] = "command"]
      BY <1>2, HandlerCases
    <3>2. None \in Slot /\ "command" \in Slot
      BY DEF Slot
    <3> QED
      BY <1>0, <3>1, <3>2
  <2>5. CardType(card)'
    BY <1>0, <2>3 DEF CardType
  <2>6. CASE \E e : CompleteNow(i, e)
    <3>1. PICK e : CompleteNow(i, e)
      BY <2>6
    <3>2. QueueInv' /\ requests' \in Seq(Request)
      BY <1>0, <3>1, CompleteNowKeeps
    <3>3. UNCHANGED <<wire, expects, radio>>
      BY <3>1 DEF CompleteNow
    <3> QED
      BY <1>0, <1>t, <2>2, <2>3, <2>4, <2>5, <3>2, <3>3
  <2>7. CASE \E c \in Command, E \in Seq(Expect) : Send(i, c, E)
    <3>1. /\ QueueInv' /\ requests' \in Seq(Request) /\ wire' \subseteq Command
          /\ expects' \in Seq(Expect) /\ radio' = radio
      BY <2>7, SendTypes
    <3> QED
      BY <1>0, <1>t, <2>2, <2>3, <2>4, <2>5, <3>1
  <2>8. \/ \E e : CompleteNow(i, e)
        \/ \E c \in Command, E \in Seq(Expect) : Send(i, c, E)
    <3>1. CASE \E e : CompleteNow(i, e)
      BY <3>1
    <3>2. CASE ~\E e : CompleteNow(i, e)
      <4>1. \E c \in Command, E \in Seq(Expect) :
               /\ Send(i, c, E)
               /\ c.seq = seq + 1 /\ ~c.old /\ c.cmd # "LOCK_INFORMATION"
               /\ c.cmd \in {"RSIM_ACCESS", "PHONE_LOCK"} => ~requests[i].first
               /\ c.cmd = "PIN_STATUS" /\ c.type = "GET" => requests[i].kind = "STATUS"
               /\ \A n \in 1 .. Len(E) : E[n].seq = seq + 1 /\ E[n].mode # "auto"
        BY <1>2, <3>2, HandlerCases, SendCases
      <4> QED
        BY <4>1
    <3> QED
      BY <3>1, <3>2
  <2> QED
    BY <2>6, <2>7, <2>8
<1>3. ASSUME NEW c, NEW C, Answering(c, C), radio' \in RadioStates,
             data' \in [Kinds -> Slot], verdict' \in [Token -> Verdict \cup {None}],
             UNCHANGED simPin, CardType(card')
      PROVE  TypeInv'
  <2>1. CardType(card)'
    BY <1>3 DEF CardType
  <2> QED
    BY <1>0, <1>3, <1>t, <2>1, AnsweringKeeps
<1>4. ASSUME NEW c \in wire, PinStatus(c)
      PROVE  TypeInv'
  <2>1. PICK C : Answering(c, C) /\ radio' \in RadioStates /\ StatusOnly
    BY <1>4, PinStatusCases
  <2>2. UNCHANGED <<simPin, card>>
    BY <1>4, PinStatusCases
  <2> QED
    BY <1>0, <1>3, <2>1, <2>2 DEF StatusOnly
<1>5. CASE PinStatusReport
  <2>1. PICK c : c = Com("PIN_STATUS", "GET", 0, None)
    OBVIOUS
  <2>2. c \in Command /\ c.cmd = "PIN_STATUS" /\ c.type = "GET"
    BY <2>1, Shapes
  <2>3. (AutoEnter(c) \/ StatusReported(c)) /\ UNCHANGED <<simPin, card, verdict>>
    BY <1>5, <2>1 DEF PinStatusReport
  <2>4. PICK C : Answering(c, C) /\ radio' \in RadioStates /\ StatusOnly
    BY <2>2, <2>3, StatusCases
  <2> QED
    BY <1>0, <1>3, <2>3, <2>4 DEF StatusOnly
<1>6. ASSUME NEW c \in wire, PinStatusCallback(c)
      PROVE  TypeInv'
  <2>1. /\ Answering(c, {}) /\ StatusOnly /\ CardType(card') /\ UNCHANGED <<radio, simPin>>
    BY <1>6, AutoCases
  <2> QED
    BY <1>0, <1>3, <2>1 DEF StatusOnly
<1>7. ASSUME NEW c \in wire, SecCallback(c)
      PROVE  TypeInv'
  <2>1. UNCHANGED <<radio, simPin>> /\ CardType(card')
    BY <1>7, SecCases
  <2>2. CASE Answering(c, {}) /\ UNCHANGED <<requests, data, verdict>>
    BY <1>0, <1>3, <2>1, <2>2
  <2>3. CASE \E i \in 1 .. Len(requests), v \in Verdict : \E C :
                /\ requests[i].seq = c.seq
                /\ verdict' = [verdict EXCEPT ![requests[i].token] = v]
                /\ Judged(c, requests[i].kind, v, C)
    <3>1. PICK i \in 1 .. Len(requests), v \in Verdict :
             \E C : /\ verdict' = [verdict EXCEPT ![requests[i].token] = v]
                    /\ Judged(c, requests[i].kind, v, C)
      BY <2>3
    <3>2. PICK C : Judged(c, requests[i].kind, v, C)
      BY <3>1
    <3>3. verdict' \in [Token -> Verdict \cup {None}]
      BY <1>0, <3>1
    <3>4. Answering(c, C) /\ data' \in [Kinds -> Slot]
      BY <3>2 DEF Judged
    <3> QED
      BY <1>0, <1>3, <2>1, <3>3, <3>4
  <2> QED
    BY <1>7, <2>2, <2>3, SecCases
<1>8. ASSUME NEW c \in wire, LockInformation(c) \/ RsimAccess(c) \/ Unanswered(c)
      PROVE  TypeInv'
  <2>1. /\ Answering(c, {}) /\ UNCHANGED <<radio, simPin, card, verdict>>
        /\ data' \in [Kinds -> Slot]
    BY <1>8, LastCases
  <2> QED
    BY <1>0, <1>3, <2>1
<1>9. CASE Outage
  <2>1. QueueOutage
    BY <1>9 DEF Outage
  <2>2. /\ QueueInv' /\ requests' = <<>> /\ expects' = <<>> /\ wire' \subseteq Command
    BY <1>0, <2>1, OutageKeeps, Shapes
  <2>3. requests' \in Seq(Request) /\ expects' \in Seq(Expect)
    BY <2>2
  <2>4. radio' \in RadioStates
    BY <2>1 DEF QueueOutage, RadioStates
  <2>5. data' \in [Kinds -> Slot] /\ UNCHANGED <<simPin, verdict>>
    BY <1>9 DEF Outage, Slot
  <2>6. CardType(card')
    <3>1. card' = card \/ (card.state = "ready" /\ card' = [card EXCEPT !.state = "pin"])
      BY <1>9 DEF Outage
    <3> QED
      BY <1>0, <3>1 DEF CardType, CardStates
  <2>7. CardType(card)'
    BY <2>6 DEF CardType
  <2> QED
    BY <1>0, <1>t, <2>2, <2>3, <2>4, <2>5, <2>7
<1>10. ASSUME NEW s \in {"off", "sim"}, RadioChange(s)
       PROVE  TypeInv'
  <2>1. /\ radio' = s /\ UNCHANGED <<requests, seq, expects, wire, asked, answer>>
        /\ UNCHANGED <<data, verdict, simPin, card>>
    BY <1>10 DEF RadioChange, RadioState, simVars
  <2>2. QueueInv'
    BY <1>0, <2>1, RadioKeeps
  <2>3. CardType(card)'
    BY <1>0, <2>1 DEF CardType
  <2> QED
    BY <1>0, <1>t, <2>1, <2>2, <2>3 DEF RadioStates
<1>11. CASE UNCHANGED vars
  <2>1. /\ UNCHANGED <<requests, seq, expects, wire, asked, answer, radio>>
        /\ UNCHANGED <<data, verdict, simPin, card>>
    BY <1>11 DEF vars, queueVars, simVars
  <2>2. QueueInv'
    BY <1>0, <2>1, RadioKeeps
  <2>3. CardType(card)'
    BY <1>0, <2>1 DEF CardType
  <2> QED
    BY <1>0, <1>t, <2>1, <2>2, <2>3
<1> QED
  BY <1>1, <1>2, <1>4, <1>5, <1>6, <1>7, <1>8, <1>9, <1>10, <1>11 DEF Next

\* Another request has a verdict, so that it may take one that is stored.
Others(t) == \E u \in Token \ {t} : verdict[u] # None
Lost(r) == r.kind \in Tries /\ verdict[r.token] # None /\ Others(r.token)
Owed(r) ==
    /\ r.kind \in Tries /\ verdict[r.token] # None
    /\ data[r.kind] # None \/ Others(r.token)

\* No number is given twice.
Numbers ==
    \A i, j \in 1 .. Len(requests) :
        Handled(requests[i]) /\ requests[i].seq = requests[j].seq
        => requests[i].token = requests[j].token

\* What command c tells of a request that has its number
Fits(c, r) ==
    r.seq = c.seq =>
        /\ c.cmd = "LOCK_INFORMATION" => Owed(r)
        /\ Second(c, r) => verdict[r.token] = "SUCCESS"

\* Only a PIN is sent under the number 0, that of a report.
Sent(c) ==
    ~c.old =>
        /\ c.seq <= seq
        /\ c.seq = 0 => c.cmd = "PIN_STATUS"
        /\ c.cmd = "LOCK_INFORMATION" =>
              \E i \in 1 .. Len(requests) : requests[i].seq = c.seq
        /\ \A i \in 1 .. Len(requests) : Fits(c, requests[i])

\* The modem has one command with a number at a time.
Alone ==
    \A c, d \in wire :
        ~c.old /\ ~d.old /\ c.seq = d.seq /\ c.seq # 0 => c = d

\* The library enters the PIN itself under the number of a status query, whose
\* answer it has.
Autos ==
    \A n \in 1 .. Len(expects) :
        /\ expects[n].seq <= seq
        /\ expects[n].mode = "auto" /\ expects[n].seq # 0 =>
              \A i \in 1 .. Len(requests) :
                  requests[i].seq = expects[n].seq => requests[i].token \in ignored

Waits(r) ==
    Handled(r) =>
        \/ r.token \in ignored
        \/ \E c \in wire : ~c.old /\ c.seq = r.seq
        \/ Lost(r)

Asked ==
    /\ Numbers /\ Alone /\ Autos
    /\ \A c \in wire : Sent(c)
    /\ \A i \in 1 .. Len(requests) : Waits(requests[i])

AskedInv == ~stale => Asked

LEMMA NumberTypes ==
    ASSUME TypeInv
    PROVE  /\ \A i \in 1 .. Len(requests) :
                 /\ requests[i].seq \in Nat /\ requests[i].seq <= seq
                 /\ requests[i].token \in Token /\ requests[i].kind \in Kind
           /\ \A c \in wire : c \in Command /\ c.seq \in Nat /\ c.old \in BOOLEAN
           /\ \A n \in 1 .. Len(expects) : expects[n].seq \in Nat
           /\ seq \in Nat
<1>0. /\ requests \in Seq(Request) /\ wire \subseteq Command /\ expects \in Seq(Expect)
      /\ QueueInv /\ seq \in Nat
  BY TypeFacts
<1>1. ASSUME NEW i \in 1 .. Len(requests)
      PROVE  /\ requests[i].seq \in Nat /\ requests[i].seq <= seq
             /\ requests[i].token \in Token /\ requests[i].kind \in Kind
  <2>1. requests[i] \in Request
    BY <1>0
  <2> QED
    BY <1>0, <2>1 DEF Request, QueueInv, Queued
<1>2. ASSUME NEW n \in 1 .. Len(expects) PROVE expects[n].seq \in Nat
  <2>1. expects[n] \in Expect
    BY <1>0
  <2> QED
    BY <2>1 DEF Expect
<1>3. \A c \in wire : c \in Command /\ c.seq \in Nat /\ c.old \in BOOLEAN
  BY <1>0 DEF Command
<1> QED
  BY <1>0, <1>1, <1>2, <1>3

\* A number finds the request that has it.
LEMMA FindsOwn ==
    ASSUME TypeInv, Numbers, NEW i \in 1 .. Len(requests), Handled(requests[i])
    PROVE  /\ FindToken(requests[i].seq) = requests[i].token
           /\ \A j \in 1 .. Len(requests) : requests[j].seq = requests[i].seq => j = i
           /\ \A j \in 1 .. Len(requests) : requests[j].token = requests[i].token => j = i
<1>1. DistinctTokens(requests) /\ requests \in Seq(Request)
  BY TypeFacts DEF QueueInv
<1>2. PICK k \in 1 .. Len(requests) :
         /\ requests[k].seq = requests[i].seq
         /\ FindToken(requests[i].seq) = requests[k].token
  BY <1>1, FindTokenCases
<1> QED
  BY <1>1, <1>2 DEF Numbers, DistinctTokens

\* Nothing but requests without a number disappears.
LEMMA AskedKeeps ==
    ASSUME TypeInv, Asked, UNCHANGED <<seq, expects, wire, verdict, ignored>>,
           \A j \in 1 .. Len(requests') :
              \E k \in 1 .. Len(requests) : requests'[j] = requests[k],
           \A k \in 1 .. Len(requests) : Handled(requests[k]) =>
              \E j \in 1 .. Len(requests') : requests'[j] = requests[k],
           \A k \in 1 .. Len(requests) :
              Handled(requests[k]) /\ requests[k].kind \in Tries =>
                 data'[requests[k].kind] = data[requests[k].kind]
    PROVE  Asked'
<1>1. Numbers'
  <2> SUFFICES ASSUME NEW i \in 1 .. Len(requests'), NEW j \in 1 .. Len(requests'),
                      requests'[i].seq # 0, requests'[i].seq = requests'[j].seq
               PROVE  requests'[i].token = requests'[j].token
    BY DEF Numbers, Handled
  <2>1. PICK k \in 1 .. Len(requests) : requests'[i] = requests[k]
    OBVIOUS
  <2>2. PICK m \in 1 .. Len(requests) : requests'[j] = requests[m]
    OBVIOUS
  <2> QED
    BY <2>1, <2>2 DEF Asked, Numbers, Handled
<1>2. Alone'
  BY DEF Asked, Alone
<1>3. Autos'
  BY DEF Asked, Autos
<1>4. ASSUME NEW c \in wire PROVE Sent(c)'
  <2>1. Sent(c) /\ c.seq \in Nat
    BY NumberTypes DEF Asked
  <2> SUFFICES ASSUME ~c.old
               PROVE  /\ c.cmd = "LOCK_INFORMATION" =>
                            \E i \in 1 .. Len(requests') : requests'[i].seq = c.seq
                      /\ \A i \in 1 .. Len(requests') : Fits(c, requests[i])'
    BY <2>1 DEF Sent
  <2>2. c.cmd # "PIN_STATUS" => c.seq # 0
    BY <2>1 DEF Sent
  <2>3. c.cmd = "LOCK_INFORMATION" =>
           \E i \in 1 .. Len(requests') : requests'[i].seq = c.seq
    BY <2>1, <2>2 DEF Sent, Handled
  <2>4. ASSUME NEW i \in 1 .. Len(requests') PROVE Fits(c, requests[i])'
    <3>1. PICK k \in 1 .. Len(requests) : requests'[i] = requests[k]
      OBVIOUS
    <3>2. Fits(c, requests[k])
      BY <2>1 DEF Sent
    <3>3. c.cmd = "LOCK_INFORMATION" /\ requests[k].seq = c.seq => Owed(requests[i])'
      BY <2>2, <3>1, <3>2 DEF Fits, Owed, Others, Handled
    <3> QED
      BY <3>1, <3>2, <3>3 DEF Fits
  <2> QED
    BY <2>3, <2>4
<1>5. ASSUME NEW j \in 1 .. Len(requests') PROVE Waits(requests[j])'
  <2>1. PICK k \in 1 .. Len(requests) : requests'[j] = requests[k]
    OBVIOUS
  <2>2. Waits(requests[k])
    BY DEF Asked
  <2> QED
    BY <2>1, <2>2 DEF Waits, Lost, Others, Handled
<1> QED
  BY <1>1, <1>2, <1>3, <1>4, <1>5 DEF Asked

\* A handler sends a command under a new number; a slot that is in use is not
\* emptied.
LEMMA AskedSend ==
    ASSUME TypeInv, Asked, NEW i \in 1 .. Len(requests), ~Handled(requests[i]),
           NEW c \in Command, NEW E \in Seq(Expect), Send(i, c, E),
           c.seq = seq + 1, ~c.old, c.cmd # "LOCK_INFORMATION",
           c.cmd \in {"RSIM_ACCESS", "PHONE_LOCK"} => ~requests[i].first,
           \A n \in 1 .. Len(E) : E[n].seq = seq + 1 /\ E[n].mode # "auto",
           UNCHANGED <<verdict, ignored>>,
           \A k \in Tries : data[k] # None => data'[k] # None
    PROVE  Asked'
<1>0. /\ requests \in Seq(Request) /\ expects \in Seq(Expect) /\ seq \in Nat
      /\ wire' = wire \cup {c} /\ seq' = seq + 1 /\ expects' = expects \o E
      /\ requests' = [requests EXCEPT ![i].seq = seq + 1]
  BY TypeFacts DEF Send
<1>1. /\ Len(requests') = Len(requests)
      /\ \A j \in 1 .. Len(requests) :
            /\ requests'[j].token = requests[j].token
            /\ requests'[j].kind = requests[j].kind
            /\ requests'[j].seq = IF j = i THEN seq + 1 ELSE requests[j].seq
            /\ j # i => requests'[j] = requests[j]
  <2>1. /\ Len(requests') = Len(requests)
        /\ \A j \in 1 .. Len(requests) :
              /\ requests'[j].token = requests[j].token
              /\ requests'[j].kind = requests[j].kind
              /\ requests'[j].seq = IF j = i THEN seq + 1 ELSE requests[j].seq
    <3>1. QueueInv /\ Numberable(Request)
      BY TypeFacts, Shapes
    <3> QED
      BY <1>0, <3>1, SendKeeps
  <2>2. \A j \in 1 .. Len(requests) : j # i => requests'[j] = requests[j]
    BY <1>0
  <2> QED
    BY <2>1, <2>2
<1>2. requests'[i].first = requests[i].first
  <2>1. requests[i] \in Request
    BY <1>0
  <2> QED
    BY <1>0, <2>1 DEF Request
<1>3. /\ \A j \in 1 .. Len(requests) : requests[j].seq \in Nat /\ requests[j].seq <= seq
      /\ \A d \in wire : d \in Command /\ d.seq \in Nat /\ d.old \in BOOLEAN
      /\ \A n \in 1 .. Len(expects) : expects[n].seq \in Nat
  BY NumberTypes
<1>4. Numbers'
  BY <1>0, <1>1, <1>3 DEF Asked, Numbers, Handled
<1>5. Alone'
  <2>1. \A d \in wire : ~d.old => d.seq # seq + 1
    BY <1>0, <1>3 DEF Asked, Sent
  <2> QED
    BY <1>0, <2>1 DEF Asked, Alone
<1>6. Autos'
  <2> SUFFICES ASSUME NEW n \in 1 .. Len(expects')
               PROVE  /\ expects'[n].seq <= seq + 1
                      /\ expects'[n].mode = "auto" /\ expects'[n].seq # 0 =>
                            \A j \in 1 .. Len(requests') :
                                requests'[j].seq = expects'[n].seq =>
                                    requests'[j].token \in ignored'
    BY <1>0 DEF Autos
  <2>1. (n \in 1 .. Len(expects) /\ expects'[n] = expects[n])
        \/ (n - Len(expects) \in 1 .. Len(E) /\ expects'[n] = E[n - Len(expects)])
    BY <1>0
  <2>2. CASE n \in 1 .. Len(expects) /\ expects'[n] = expects[n]
    <3>1. /\ expects[n].seq <= seq
          /\ expects[n].mode = "auto" /\ expects[n].seq # 0 =>
                \A j \in 1 .. Len(requests) :
                    requests[j].seq = expects[n].seq => requests[j].token \in ignored
      BY <2>2 DEF Asked, Autos
    <3>2. expects[n].seq # seq + 1 /\ expects[n].seq <= seq + 1
      BY <1>0, <1>3, <2>2, <3>1
    <3> QED
      BY <1>1, <2>2, <3>1, <3>2
  <2>3. CASE \E m \in 1 .. Len(E) : expects'[n] = E[m]
    <3>1. expects'[n].seq = seq + 1 /\ expects'[n].mode # "auto"
      BY <2>3
    <3> QED
      BY <1>0, <3>1
  <2> QED
    BY <2>1, <2>2, <2>3
<1>7. ASSUME NEW d \in wire' PROVE Sent(d)'
  <2>1. CASE d = c
    <3>1. \A j \in 1 .. Len(requests') : Fits(c, requests[j])'
      <4> SUFFICES ASSUME NEW j \in 1 .. Len(requests'), requests'[j].seq = c.seq
                   PROVE  ~Second(c, requests'[j])
        BY DEF Fits
      <4>1. j = i
        BY <1>0, <1>1, <1>3
      <4> QED
        BY <1>1, <1>2, <4>1 DEF Second
    <3>2. c.seq <= seq' /\ c.seq # 0
      BY <1>0
    <3> QED
      BY <2>1, <3>1, <3>2 DEF Sent
  <2>2. CASE d \in wire /\ ~d.old
    <3>1. Sent(d) /\ d.seq \in Nat
      BY <1>3, <2>2 DEF Asked
    <3>2. d.seq <= seq /\ (d.seq = 0 => d.cmd = "PIN_STATUS") /\ d.seq # seq + 1
          /\ d.seq <= seq'
      BY <1>0, <2>2, <3>1 DEF Sent
    <3>3. d.cmd = "LOCK_INFORMATION" =>
             \E j \in 1 .. Len(requests') : requests'[j].seq = d.seq
      <4>1. requests[i].seq = 0
        BY DEF Handled
      <4> QED
        BY <1>1, <2>2, <3>1, <3>2, <4>1 DEF Sent
    <3>4. ASSUME NEW j \in 1 .. Len(requests') PROVE Fits(d, requests[j])'
      <4>1. CASE j = i
        BY <1>1, <3>2, <4>1 DEF Fits
      <4>2. CASE j # i
        <5>1. requests'[j] = requests[j] /\ Fits(d, requests[j])
          BY <1>1, <2>2, <3>1, <4>2 DEF Sent
        <5>2. Owed(requests[j]) => Owed(requests[j])'
          BY <5>1 DEF Owed, Others
        <5> QED
          BY <5>1, <5>2 DEF Fits
      <4> QED
        BY <4>1, <4>2
    <3> QED
      BY <3>2, <3>3, <3>4 DEF Sent
  <2> QED
    BY <1>0, <2>1, <2>2 DEF Sent
<1>8. ASSUME NEW j \in 1 .. Len(requests') PROVE Waits(requests[j])'
  <2>1. CASE j = i
    BY <1>0, <1>1, <2>1 DEF Waits
  <2>2. CASE j # i
    <3>1. requests'[j] = requests[j] /\ Waits(requests[j])
      BY <1>1, <2>2 DEF Asked
    <3> QED
      BY <1>0, <3>1 DEF Waits, Lost, Others, Handled
  <2> QED
    BY <2>1, <2>2
<1> QED
  BY <1>4, <1>5, <1>6, <1>7, <1>8 DEF Asked

\* Where the queue goes when an answer is received
LEMMA AnsweredGone ==
    ASSUME None \notin Token, TypeInv, Numbers, NEW c, NEW C, Answering(c, C),
           NEW e, CompleteToken(FindToken(c.seq), e), c.seq # 0
    PROVE  \A j \in 1 .. Len(requests') : requests'[j].seq # c.seq
<1>1. /\ \A j \in 1 .. Len(requests') :
            \E k \in 1 .. Len(requests) : requests'[j] = requests[k]
      /\ \A j \in 1 .. Len(requests') : requests'[j].token # FindToken(c.seq)
  <2>1. asked' = asked /\ seq' = seq
    BY DEF Answering
  <2> QED
    BY <2>1, TypeFacts, CompleteFoundKeeps
<1> SUFFICES ASSUME NEW j \in 1 .. Len(requests'), requests'[j].seq = c.seq PROVE FALSE
  OBVIOUS
<1>2. PICK k \in 1 .. Len(requests) : requests'[j] = requests[k]
  BY <1>1
<1>3. FindToken(c.seq) = requests[k].token
  BY <1>2, FindsOwn DEF Handled
<1> QED
  BY <1>1, <1>2, <1>3

\* The requests with the number of an answer are marked, if there is one.
AllSpent(c) ==
    \A k \in 1 .. Len(requests') :
        requests'[k].seq = c.seq /\ c.seq # 0 => requests'[k].token \in ignored'

LEMMA SpentMarks ==
    ASSUME None \notin Token, TypeInv, Numbers, NEW c, NEW C, Answering(c, C), Spent(c)
    PROVE  AllSpent(c) /\ \A t \in ignored : t \in ignored'
<1> SUFFICES ASSUME NEW j \in 1 .. Len(requests'), requests'[j].seq = c.seq, c.seq # 0
             PROVE  requests'[j].token \in ignored'
  BY DEF AllSpent, Spent
<1>1. PICK k \in 1 .. Len(requests) : requests'[j] = requests[k]
  BY AnsweringKeeps
<1>2. FindToken(c.seq) = requests[k].token
  BY <1>1, FindsOwn DEF Handled
<1>3. CASE \E e : CompleteToken(FindToken(c.seq), e)
  BY <1>3, AnsweredGone
<1> QED
  BY <1>1, <1>2, <1>3 DEF Spent

\* An answer is received: what its handler makes of the request with the
\* number is what the command it sends, or its absence, tells.
LEMMA AskedAnswer ==
    ASSUME None \notin Token, TypeInv, Asked, NEW c \in Command, ~c.old,
           c \in wire \/ (c.seq = 0 /\ c.cmd = "PIN_STATUS"),
           NEW C, Answering(c, C),
           \A t \in Token : verdict[t] # None => verdict'[t] # None,
           \A k \in 1 .. Len(requests) : requests[k].seq # c.seq =>
              verdict'[requests[k].token] = verdict[requests[k].token],
           \A k \in 1 .. Len(requests) :
              Handled(requests[k]) /\ requests[k].seq # c.seq /\ requests[k].kind \in Tries =>
                 \/ data'[requests[k].kind] = data[requests[k].kind]
                 \/ \E u \in Token \ {requests[k].token} : verdict'[u] # None,
           \A d \in C, k \in 1 .. Len(requests') : Fits(d, requests[k])',
           \A d \in C : d.cmd = "LOCK_INFORMATION" =>
              \E k \in 1 .. Len(requests) : requests[k].seq = c.seq,
           \A t \in ignored : t \in ignored',
           c.cmd = "PIN_STATUS" /\ c.type = "GET" => AllSpent(c),
           \A k \in 1 .. Len(requests') :
              requests'[k].seq = c.seq /\ c.seq # 0 => Waits(requests[k])'
    PROVE  Asked'
<1>0. /\ wire' = (wire \ {c}) \cup C /\ seq' = seq
      /\ \A d \in C : d.seq = c.seq /\ ~d.old /\ (c.seq = 0 => d.cmd = "PIN_STATUS")
      /\ \A d, e \in C : d = e
      /\ Expected(c)
  BY DEF Answering
<1>1. /\ \A j \in 1 .. Len(requests') :
            \E k \in 1 .. Len(requests) : requests'[j] = requests[k]
      /\ \A k \in 1 .. Len(requests) : requests[k].seq # c.seq =>
            \E j \in 1 .. Len(requests') : requests'[j] = requests[k]
      /\ requests' = requests \/ C = {}
  BY AnsweringKeeps
<1>2. /\ \A k \in 1 .. Len(requests) :
            /\ requests[k].seq \in Nat /\ requests[k].seq <= seq
            /\ requests[k].token \in Token
      /\ \A d \in wire : d \in Command /\ d.seq \in Nat /\ d.old \in BOOLEAN
      /\ \A n \in 1 .. Len(expects) : expects[n].seq \in Nat
      /\ seq \in Nat /\ c.seq \in Nat
  BY NumberTypes DEF Command
<1>3. c.seq <= seq
  BY <1>2 DEF Asked, Sent
\* Other commands have other numbers.
<1>4. ASSUME NEW d \in wire, d # c, ~d.old, d.seq = c.seq PROVE d.seq = 0
  BY <1>4 DEF Asked, Alone
<1>5. \A t \in Token : Others(t) => Others(t)'
  BY DEF Others
<1>6. Numbers'
  <2> SUFFICES ASSUME NEW i \in 1 .. Len(requests'), NEW j \in 1 .. Len(requests'),
                      requests'[i].seq # 0, requests'[i].seq = requests'[j].seq
               PROVE  requests'[i].token = requests'[j].token
    BY DEF Numbers, Handled
  <2>1. PICK k \in 1 .. Len(requests) : requests'[i] = requests[k]
    BY <1>1
  <2>2. PICK m \in 1 .. Len(requests) : requests'[j] = requests[m]
    BY <1>1
  <2> QED
    BY <2>1, <2>2 DEF Asked, Numbers, Handled
<1>7. Alone'
  <2> SUFFICES ASSUME NEW d \in wire', NEW e \in wire', ~d.old, ~e.old,
                      d.seq = e.seq, d.seq # 0
               PROVE  d = e
    BY DEF Alone
  <2>1. CASE d \in C /\ e \in C
    BY <1>0, <2>1
  <2>2. CASE d \in wire /\ e \in wire
    BY <2>2 DEF Asked, Alone
  <2>3. CASE d \in C /\ e \notin C
    BY <1>0, <1>4, <2>3
  <2>4. CASE d \notin C /\ e \in C
    BY <1>0, <1>4, <2>4
  <2> QED
    BY <1>0, <2>1, <2>2, <2>3, <2>4
<1>8. Autos'
  <2> SUFFICES ASSUME NEW n \in 1 .. Len(expects')
               PROVE  /\ expects'[n].seq <= seq
                      /\ expects'[n].mode = "auto" /\ expects'[n].seq # 0 =>
                            \A j \in 1 .. Len(requests') :
                                requests'[j].seq = expects'[n].seq =>
                                    requests'[j].token \in ignored'
    BY <1>0 DEF Autos
  <2>1. CASE \E m \in 1 .. Len(expects) : expects'[n] = expects[m]
    <3>1. PICK m \in 1 .. Len(expects) : expects'[n] = expects[m]
      BY <2>1
    <3>2. /\ expects[m].seq <= seq
          /\ expects[m].mode = "auto" /\ expects[m].seq # 0 =>
                \A j \in 1 .. Len(requests) :
                    requests[j].seq = expects[m].seq => requests[j].token \in ignored
      BY DEF Asked, Autos
    <3> QED
      BY <1>1, <3>1, <3>2
  <2>2. CASE Registered(expects'[n], c)
    <3>1. /\ expects'[n].seq = c.seq
          /\ expects'[n].mode = "auto" => c.cmd = "PIN_STATUS" /\ c.type = "GET"
      BY <2>2 DEF Registered
    <3> QED
      BY <1>3, <3>1 DEF AllSpent
  <2> QED
    BY <1>0, <2>1, <2>2 DEF Expected
<1>9. ASSUME NEW d \in wire' PROVE Sent(d)'
  <2>1. CASE d \in C
    <3>1. d.cmd = "LOCK_INFORMATION" =>
             \E k \in 1 .. Len(requests') : requests'[k].seq = d.seq
      BY <1>0, <1>1, <2>1
    <3>2. \A k \in 1 .. Len(requests') : Fits(d, requests[k])'
      BY <2>1
    <3>3. d.seq <= seq' /\ (d.seq = 0 => d.cmd = "PIN_STATUS")
      BY <1>0, <1>3, <2>1
    <3> QED
      BY <3>1, <3>2, <3>3 DEF Sent
  <2>2. CASE d \in wire /\ d # c /\ ~d.old
    <3>1. Sent(d)
      BY <2>2 DEF Asked
    <3>2. d.seq <= seq' /\ (d.seq = 0 => d.cmd = "PIN_STATUS")
      BY <1>0, <2>2, <3>1 DEF Sent
    <3>3. d.cmd # "PIN_STATUS" => d.seq # c.seq /\ d.seq # 0
      BY <1>4, <2>2, <3>2
    <3>4. d.cmd = "LOCK_INFORMATION" =>
             \E k \in 1 .. Len(requests') : requests'[k].seq = d.seq
      <4> SUFFICES ASSUME d.cmd = "LOCK_INFORMATION"
                   PROVE  \E k \in 1 .. Len(requests') : requests'[k].seq = d.seq
        OBVIOUS
      <4>1. PICK k \in 1 .. Len(requests) : requests[k].seq = d.seq
        BY <2>2, <3>1 DEF Sent
      <4>2. requests[k].seq # c.seq
        BY <3>3, <4>1
      <4> QED
        BY <1>1, <4>1, <4>2
    <3>5. ASSUME NEW j \in 1 .. Len(requests') PROVE Fits(d, requests[j])'
      <4>1. PICK k \in 1 .. Len(requests) : requests'[j] = requests[k]
        BY <1>1
      <4>2. Fits(d, requests[k]) /\ requests[k].token \in Token
        BY <1>2, <2>2, <3>1 DEF Sent
      <4>3. ASSUME d.cmd = "LOCK_INFORMATION", requests[k].seq = d.seq
            PROVE  Owed(requests[j])'
        <5>1. /\ requests[k].kind \in Tries /\ verdict[requests[k].token] # None
              /\ data[requests[k].kind] # None \/ Others(requests[k].token)
          BY <4>2, <4>3 DEF Fits, Owed
        <5>2. verdict'[requests[k].token] # None
          BY <4>2, <5>1
        <5>3. Handled(requests[k]) /\ requests[k].seq # c.seq
          BY <3>3, <4>3 DEF Handled
        <5>4. \/ data'[requests[k].kind] # None
              \/ \E u \in Token \ {requests[k].token} : verdict'[u] # None
          BY <5>1, <5>3 DEF Others
        <5> QED
          BY <4>1, <5>1, <5>2, <5>4 DEF Owed, Others
      <4>4. ASSUME Second(d, requests[k])
            PROVE  verdict'[requests'[j].token] = "SUCCESS"
        <5>1. d.cmd # "PIN_STATUS" /\ requests[k].seq = d.seq
          BY <4>4 DEF Second
        <5>2. requests[k].seq # c.seq /\ verdict[requests[k].token] = "SUCCESS"
          BY <3>3, <4>2, <4>4, <5>1 DEF Fits
        <5> QED
          BY <4>1, <5>2
      <4> QED
        BY <4>1, <4>2, <4>3, <4>4 DEF Fits
    <3> QED
      BY <3>2, <3>4, <3>5 DEF Sent
  <2> QED
    BY <1>0, <2>1, <2>2 DEF Sent
<1>10. ASSUME NEW j \in 1 .. Len(requests') PROVE Waits(requests[j])'
  <2>1. CASE requests'[j].seq = 0
    BY <2>1 DEF Waits, Handled
  <2>2. CASE requests'[j].seq # 0 /\ requests'[j].seq # c.seq
    <3>1. PICK k \in 1 .. Len(requests) : requests'[j] = requests[k]
      BY <1>1
    <3>2. Waits(requests[k]) /\ requests[k].token \in Token
      BY <1>2 DEF Asked
    <3>3. Lost(requests[k]) => Lost(requests[j])'
      BY <1>5, <3>1, <3>2 DEF Lost, Others
    <3>4. \A d \in wire : d.seq = requests[k].seq => d \in wire'
      BY <1>0, <2>2, <3>1
    <3> QED
      BY <2>2, <3>1, <3>2, <3>3, <3>4 DEF Waits, Handled
  <2> QED
    BY <2>1, <2>2
<1> QED
  BY <1>6, <1>7, <1>8, <1>9, <1>10 DEF Asked

LEMMA AskedInit == ASSUME Init PROVE AskedInv
<1>1. requests = <<>> /\ wire = {} /\ expects = <<>>
  BY DEF Init, QueueInit
<1> QED
  BY <1>1 DEF AskedInv, Asked, Numbers, Alone, Autos

\* What the answers about the card status do
LEMMA AskedStatus ==
    ASSUME SimAssumption, None \notin Token, TypeInv, Asked, NEW c \in Command, ~c.old,
           c \in wire \/ (c.seq = 0 /\ c.cmd = "PIN_STATUS"),
           NEW C, Answering(c, C), StatusOnly, \A d \in C : d.cmd = "PIN_STATUS",
           \A t \in ignored : t \in ignored', AllSpent(c)
    PROVE  Asked'
<1>1. verdict' = verdict /\ \A k \in Tries : data'[k] = data[k]
  BY TriesKinds DEF StatusOnly, Kinds
<1>2. \A d \in C, k \in 1 .. Len(requests') : Fits(d, requests[k])'
  <2>1. \A d \in C : d.cmd = "PIN_STATUS" /\ d.type = "SET"
    BY DEF Answering
  <2> QED
    BY <2>1 DEF Fits, Second
<1>3. \A k \in 1 .. Len(requests') :
         requests'[k].seq = c.seq /\ c.seq # 0 => Waits(requests[k])'
  BY DEF AllSpent, Waits
<1> QED
  BY <1>1, <1>2, <1>3, AskedAnswer

LEMMA AskedSec ==
    ASSUME SimAssumption, None \notin Token, TypeInv, Asked, NEW c \in wire, ~c.old,
           SecCallback(c)
    PROVE  Asked'
<1>0. /\ c \in Command /\ c.seq # 0 /\ c.type = "SET"
      /\ \A t \in ignored : t \in ignored'
  BY NumberTypes, SecCases DEF SecCallback
<1>1. CASE /\ \A i \in 1 .. Len(requests) : requests[i].seq # c.seq
           /\ Answering(c, {}) /\ UNCHANGED <<requests, data, verdict>>
  <2>1. PICK C : C = {}
    OBVIOUS
  <2>2. /\ \A d \in C, k \in 1 .. Len(requests') : Fits(d, requests[k])'
        /\ \A d \in C : d.cmd = "LOCK_INFORMATION" =>
              \E k \in 1 .. Len(requests) : requests[k].seq = c.seq
    BY <2>1
  <2>3. \A k \in 1 .. Len(requests') :
           requests'[k].seq = c.seq /\ c.seq # 0 => Waits(requests[k])'
    BY <1>1
  <2> QED
    BY <1>0, <1>1, <2>1, <2>2, <2>3, AskedAnswer
<1>2. ASSUME NEW i \in 1 .. Len(requests), NEW v \in Verdict, NEW C,
             requests[i].seq = c.seq,
             verdict' = [verdict EXCEPT ![requests[i].token] = v],
             Judged(c, requests[i].kind, v, C)
      PROVE  Asked'
  <2>0. /\ Answering(c, C)
        /\ C # {} \/ \E e : CompleteToken(FindToken(c.seq), e)
        /\ \A d \in C :
              \/ d.cmd = "LOCK_INFORMATION" /\ requests[i].kind \in Tries
                 /\ data'[requests[i].kind] = v
              \/ d.cmd \in {"RSIM_ACCESS", "PHONE_LOCK"} /\ v = "SUCCESS"
    BY <1>2 DEF Judged
  <2>1. /\ requests[i].token \in Token
        /\ FindToken(c.seq) = requests[i].token
        /\ \A j \in 1 .. Len(requests) : requests[j].seq = c.seq => j = i
        /\ \A j \in 1 .. Len(requests) : requests[j].token = requests[i].token => j = i
    BY <1>0, <1>2, NumberTypes, FindsOwn DEF Handled, Asked
  <2>2. v # None
    BY DEF SimAssumption
  <2>3. /\ verdict'[requests[i].token] = v
        /\ \A t \in Token : t # requests[i].token => verdict'[t] = verdict[t]
    BY <1>2, <2>1, TypeFacts
  <2>4. \A t \in Token : verdict[t] # None => verdict'[t] # None
    BY <2>2, <2>3
  <2>5. ASSUME NEW k \in 1 .. Len(requests), requests[k].seq # c.seq
        PROVE  /\ verdict'[requests[k].token] = verdict[requests[k].token]
               /\ \E u \in Token \ {requests[k].token} : verdict'[u] # None
    <3>1. requests[k].token \in Token /\ requests[k].token # requests[i].token
      BY <1>2, <2>1, <2>5, NumberTypes
    <3> QED
      BY <2>1, <2>2, <2>3, <3>1
  <2>6. /\ \A j \in 1 .. Len(requests') :
              \E k \in 1 .. Len(requests) : requests'[j] = requests[k]
    BY <2>0, AnsweringKeeps
  <2>7. ASSUME NEW d \in C, NEW k \in 1 .. Len(requests') PROVE Fits(d, requests[k])'
    <3> SUFFICES ASSUME requests'[k].seq = d.seq PROVE Fits(d, requests[k])'
      BY DEF Fits
    <3>1. d.seq = c.seq
      BY <2>0 DEF Answering
    <3>2. requests'[k] = requests[i]
      BY <2>1, <2>6, <3>1
    <3>3. CASE d.cmd = "LOCK_INFORMATION" /\ requests[i].kind \in Tries
               /\ data'[requests[i].kind] = v
      BY <2>2, <2>3, <3>2, <3>3 DEF Fits, Owed, Second
    <3>4. CASE d.cmd \in {"RSIM_ACCESS", "PHONE_LOCK"} /\ v = "SUCCESS"
      BY <2>3, <3>2, <3>4 DEF Fits
    <3> QED
      BY <2>0, <3>3, <3>4
  <2>8. ASSUME NEW k \in 1 .. Len(requests'), requests'[k].seq = c.seq
        PROVE  Waits(requests[k])'
    <3>1. CASE C # {}
      <4>1. PICK d \in C : d.seq = c.seq /\ ~d.old /\ d \in wire'
        BY <2>0, <3>1 DEF Answering
      <4> QED
        BY <2>8, <4>1 DEF Waits
    <3>2. CASE \E e : CompleteToken(FindToken(c.seq), e)
      BY <1>0, <2>0, <2>8, <3>2, AnsweredGone DEF Asked
    <3> QED
      BY <2>0, <3>1, <3>2
  <2>9. \A d \in C : d.cmd = "LOCK_INFORMATION" =>
           \E k \in 1 .. Len(requests) : requests[k].seq = c.seq
    BY <1>2
  <2> QED
    BY <1>0, <2>0, <2>4, <2>5, <2>7, <2>8, <2>9, AskedAnswer
<1> QED
  BY <1>1, <1>2, SecCases

LEMMA AskedLast ==
    ASSUME SimAssumption, None \notin Token, TypeInv, Asked, NEW c \in wire, ~c.old,
           LockInformation(c) \/ RsimAccess(c) \/ Unanswered(c)
    PROVE  Asked'
<1>0. /\ c \in Command /\ Answering(c, {}) /\ verdict' = verdict
      /\ \A t \in ignored : t \in ignored'
  BY NumberTypes, LastCases
<1>1. ASSUME NEW k \in 1 .. Len(requests), Handled(requests[k]), requests[k].seq # c.seq,
             data'[requests[k].kind] # data[requests[k].kind]
      PROVE  \E u \in Token \ {requests[k].token} : verdict'[u] # None
  <2>1. c.cmd = "LOCK_INFORMATION"
    BY <1>1, LastCases
  <2>2. Sent(c)
    BY DEF Asked
  <2>3. PICK i \in 1 .. Len(requests) : requests[i].seq = c.seq
    BY <2>1, <2>2 DEF Sent
  <2>4. verdict[requests[i].token] # None
    BY <2>1, <2>2, <2>3 DEF Sent, Fits, Owed
  <2>5. requests[i].token # requests[k].token
    BY <1>1, <2>3, FindsOwn DEF Asked
  <2> QED
    BY <1>0, <2>4, <2>5, NumberTypes
<1>2. ASSUME NEW j \in 1 .. Len(requests'), requests'[j].seq = c.seq, c.seq # 0
      PROVE  Waits(requests[j])'
  <2>1. PICK k \in 1 .. Len(requests) : requests'[j] = requests[k]
    BY <1>0, AnsweringKeeps
  <2>2. CASE \E e : CompleteToken(FindToken(c.seq), e)
    BY <1>0, <1>2, <2>2, AnsweredGone DEF Asked
  <2>3. CASE /\ UNCHANGED data /\ c.cmd = "LOCK_INFORMATION"
             /\ \A l \in Tries : data[l] = None
    <3>1. Fits(c, requests[k])
      BY DEF Asked, Sent
    <3>2. Lost(requests[k])
      BY <1>2, <2>1, <2>3, <3>1 DEF Fits, Owed, Lost
    <3>3. Lost(requests[j])'
      BY <1>0, <2>1, <3>2 DEF Lost, Others
    <3> QED
      BY <3>3 DEF Waits
  <2>4. CASE ignored' = ignored \cup {FindToken(c.seq)}
    <3>1. FindToken(c.seq) = requests[k].token
      BY <1>2, <2>1, FindsOwn DEF Handled, Asked
    <3> QED
      BY <2>1, <2>4, <3>1 DEF Waits
  <2> QED
    BY <2>2, <2>3, <2>4, LastCases
<1>3. PICK C : C = {}
  OBVIOUS
<1>4. /\ \A d \in C, k \in 1 .. Len(requests') : Fits(d, requests[k])'
      /\ \A d \in C : d.cmd = "LOCK_INFORMATION" =>
            \E k \in 1 .. Len(requests) : requests[k].seq = c.seq
  BY <1>3
<1>5. ASSUME c.cmd = "PIN_STATUS" PROVE AllSpent(c)
  <2>1. Spent(c)
    BY <1>5, LastCases DEF Spent
  <2> QED
    BY <1>0, <2>1, SpentMarks DEF Asked
<1> QED
  BY <1>0, <1>1, <1>2, <1>3, <1>4, <1>5, AskedAnswer

LEMMA AskedHandler ==
    ASSUME SimAssumption, None \notin Token, TypeInv, Asked, NEW i \in 1 .. Len(requests),
           \/ RequestFails(i) \/ GetSimStatus(i) \/ EnterSimPin(i)
           \/ EnterSimPuk(i) \/ EnterSimPin2(i) \/ EnterSimPuk2(i)
           \/ ChangeSimPin(i) \/ ChangeSimPin2(i)
           \/ SetFacilityLock(i) \/ SimIo(i)
    PROVE  Asked'
<1>0. /\ Dispatched(i, Ready) /\ UNCHANGED <<verdict, ignored>>
      /\ data \in [Kinds -> Slot] /\ requests \in Seq(Request) /\ QueueInv
  BY HandlerCases, TypeFacts
<1>1. ~Handled(requests[i]) /\ CanRun(requests[i])
  BY <1>0 DEF Dispatched, Ready
<1>2. CASE \E e : CompleteNow(i, e)
  <2>1. PICK e : CompleteNow(i, e)
    BY <1>2
  <2>2. UNCHANGED <<seq, expects, wire>>
    BY <2>1 DEF CompleteNow
  <2>3. /\ \A j \in 1 .. Len(requests') :
              \E k \in 1 .. Len(requests) : requests'[j] = requests[k]
        /\ \A k \in 1 .. Len(requests) : requests[k].token # requests[i].token =>
              \E j \in 1 .. Len(requests') : requests'[j] = requests[k]
    BY <1>0, <2>1, CompleteNowKeeps
  <2>4. ASSUME NEW k \in 1 .. Len(requests), Handled(requests[k])
        PROVE  requests[k].token # requests[i].token
    BY <1>0, <1>1, <2>4 DEF QueueInv, DistinctTokens
  <2>5. ASSUME NEW k \in 1 .. Len(requests), Handled(requests[k]), requests[k].kind \in Tries
        PROVE  data'[requests[k].kind] = data[requests[k].kind]
    <3>1. requests[i].kind \in {"LOCK", "IO"} => requests[k].kind # requests[i].kind
      BY <1>1, <2>5 DEF CanRun, Busy
    <3>2. requests[k].kind # "STATUS" /\ requests[k].kind \in Kinds
      BY <2>5, TriesKinds DEF Kinds
    <3>3. \/ data' = data \/ data' = [data EXCEPT !["STATUS"] = None]
          \/ /\ requests[i].kind \in {"LOCK", "IO"}
             /\ data' = [data EXCEPT ![requests[i].kind] = None]
          \/ seq' = seq + 1
      BY HandlerCases DEF SendExpecting, Send
    <3>4. seq' # seq + 1
      BY <2>2, NumberTypes
    <3> QED
      BY <1>0, <3>1, <3>2, <3>3, <3>4
  <2> QED
    BY <1>0, <2>2, <2>3, <2>4, <2>5, AskedKeeps
<1>3. CASE ~\E e : CompleteNow(i, e)
  <2>1. PICK c \in Command, E \in Seq(Expect) :
           /\ Send(i, c, E)
           /\ c.seq = seq + 1 /\ ~c.old /\ c.cmd # "LOCK_INFORMATION"
           /\ c.cmd \in {"RSIM_ACCESS", "PHONE_LOCK"} => ~requests[i].first
           /\ c.cmd = "PIN_STATUS" /\ c.type = "GET" => requests[i].kind = "STATUS"
           /\ \A n \in 1 .. Len(E) : E[n].seq = seq + 1 /\ E[n].mode # "auto"
    BY <1>3, HandlerCases, SendCases
  <2>2. data' = data \/ data' = [data EXCEPT ![requests[i].kind] = "command"]
    BY <1>3, HandlerCases
  <2>3. \A k \in Tries : data[k] # None => data'[k] # None
    <3>1. "command" # None /\ \A k \in Tries : k \in Kinds
      BY TriesKinds DEF SimAssumption, Kinds
    <3> QED
      BY <1>0, <2>2, <3>1
  <2> QED
    BY <1>0, <1>1, <2>1, <2>3, AskedSend
<1> QED
  BY <1>2, <1>3

LEMMA AskedStep ==
    ASSUME SimAssumption, None \notin Token, TypeInv, AskedInv, [Next]_vars
    PROVE  AskedInv'
<1>0. ASSUME NEW c, NEW C, Answering(c, C), ~stale' PROVE ~c.old /\ Asked
  BY <1>0 DEF Answering, AskedInv
<1>1. ASSUME NEW t \in Token, NEW k \in Kind, NEW p \in PinOf(k), NEW f \in Firsts(k),
             OnRequest(t, k, p, f), ~stale'
      PROVE  Asked'
  <2>1. PICK r : r = [token |-> t, kind |-> k, pin |-> p, first |-> f, seq |-> 0]
    OBVIOUS
  <2>2. /\ requests' = Append(requests, r) /\ r.seq = 0
        /\ UNCHANGED <<seq, expects, wire, stale, data, verdict, ignored>>
    BY <1>1, <2>1 DEF OnRequest, Issue, simVars
  <2>3. Asked /\ requests \in Seq(Request)
    BY <1>1, <2>2, TypeFacts DEF AskedInv
  <2>4. ASSUME NEW j \in 1 .. Len(requests')
        PROVE  \/ j \in 1 .. Len(requests) /\ requests'[j] = requests[j]
               \/ requests'[j].seq = 0
    BY <2>2, <2>3
  <2>5. \A j \in 1 .. Len(requests) : j \in 1 .. Len(requests') /\ requests'[j] = requests[j]
    BY <2>2, <2>3
  <2>6. Numbers'
    BY <2>3, <2>4 DEF Asked, Numbers, Handled
  <2>7. Alone'
    BY <2>2, <2>3 DEF Asked, Alone
  <2>8. Autos'
    BY <2>2, <2>3, <2>4 DEF Asked, Autos
  <2>9. ASSUME NEW c \in wire PROVE Sent(c)'
    <3>1. Sent(c)
      BY <2>3 DEF Asked
    <3> SUFFICES ASSUME ~c.old
                 PROVE  /\ c.cmd = "LOCK_INFORMATION" =>
                              \E i \in 1 .. Len(requests') : requests'[i].seq = c.seq
                        /\ \A i \in 1 .. Len(requests') : Fits(c, requests[i])'
      BY <2>2, <3>1 DEF Sent
    <3>2. c.seq = 0 => c.cmd = "PIN_STATUS"
      BY <3>1 DEF Sent
    <3>3. ASSUME NEW j \in 1 .. Len(requests') PROVE Fits(c, requests[j])'
      <4>1. CASE j \in 1 .. Len(requests) /\ requests'[j] = requests[j]
        <5>1. Fits(c, requests[j])
          BY <3>1, <4>1 DEF Sent
        <5> QED
          BY <2>2, <4>1, <5>1 DEF Fits, Owed, Others
      <4>2. CASE requests'[j].seq = 0
        BY <3>2, <4>2 DEF Fits, Second
      <4> QED
        BY <2>4, <4>1, <4>2
    <3>4. c.cmd = "LOCK_INFORMATION" =>
             \E i \in 1 .. Len(requests') : requests'[i].seq = c.seq
      BY <2>5, <3>1 DEF Sent
    <3> QED
      BY <3>3, <3>4
  <2>10. ASSUME NEW j \in 1 .. Len(requests') PROVE Waits(requests[j])'
    <3>1. CASE j \in 1 .. Len(requests) /\ requests'[j] = requests[j]
      <4>1. Waits(requests[j])
        BY <2>3, <3>1 DEF Asked
      <4> QED
        BY <2>2, <3>1, <4>1 DEF Waits, Lost, Others, Handled
    <3>2. CASE requests'[j].seq = 0
      BY <3>2 DEF Waits, Handled
    <3> QED
      BY <2>4, <3>1, <3>2
  <2> QED
    BY <2>2, <2>6, <2>7, <2>8, <2>9, <2>10 DEF Asked
<1>2. ASSUME NEW i \in 1 .. Len(requests),
             \/ RequestFails(i) \/ GetSimStatus(i) \/ EnterSimPin(i)
             \/ EnterSimPuk(i) \/ EnterSimPin2(i) \/ EnterSimPuk2(i)
             \/ ChangeSimPin(i) \/ ChangeSimPin2(i)
             \/ SetFacilityLock(i) \/ SimIo(i),
             ~stale'
      PROVE  Asked'
  <2>1. UNCHANGED stale
    BY <1>2, HandlerCases DEF CompleteNow, SendExpecting, Send
  <2> QED
    BY <1>2, <2>1, AskedHandler DEF AskedInv
<1>4. ASSUME NEW c \in wire, PinStatus(c), ~stale' PROVE Asked'
  <2>1. PICK C : /\ Answering(c, C) /\ StatusOnly
                 /\ Spent(c) /\ \A d \in C : d.cmd = "PIN_STATUS"
    BY <1>4, PinStatusCases
  <2>2. c.cmd = "PIN_STATUS" /\ c.type = "GET" /\ c \in Command
    BY <1>4, PinStatusCases, NumberTypes
  <2>3. Asked /\ ~c.old
    BY <1>0, <1>4, <2>1
  <2>4. AllSpent(c) /\ \A t \in ignored : t \in ignored'
    BY <2>1, <2>3, SpentMarks DEF Asked
  <2> QED
    BY <2>1, <2>2, <2>3, <2>4, AskedStatus
<1>5. CASE PinStatusReport /\ ~stale'
  <2>1. PICK c : c = Com("PIN_STATUS", "GET", 0, None)
    OBVIOUS
  <2>2. c \in Command /\ c.cmd = "PIN_STATUS" /\ c.type = "GET" /\ c.seq = 0
    BY <2>1, Shapes
  <2>3. (AutoEnter(c) \/ StatusReported(c)) /\ verdict' = verdict
    BY <1>5, <2>1 DEF PinStatusReport
  <2>4. PICK C : /\ Answering(c, C) /\ StatusOnly /\ Spent(c)
                 /\ \A d \in C : d.cmd = "PIN_STATUS"
    BY <2>2, <2>3, StatusCases
  <2>5. Asked /\ ~c.old
    BY <1>0, <1>5, <2>4
  <2>6. AllSpent(c) /\ \A t \in ignored : t \in ignored'
    BY <2>4, <2>5, SpentMarks DEF Asked
  <2>7. Asked'
    BY <2>2, <2>4, <2>5, <2>6, AskedStatus
  <2> QED
    BY <2>7 DEF AskedInv
<1>6. ASSUME NEW c \in wire, PinStatusCallback(c), ~stale' PROVE Asked'
  <2>1. PICK C : C = {}
    OBVIOUS
  <2>2. Answering(c, C) /\ Mode(c) = "auto" /\ StatusOnly /\ UNCHANGED ignored
    BY <1>6, <2>1, AutoCases
  <2>3. Asked /\ ~c.old
    BY <1>0, <1>6, <2>2
  <2>4. PICK n \in 1 .. Len(expects) : expects[n].seq = c.seq /\ expects[n].mode = "auto"
    BY <2>2, ModeFacts, TypeFacts
  <2>5. AllSpent(c)
    <3>1. UNCHANGED <<requests, ignored>>
      BY <1>6, AutoCases
    <3> QED
      BY <2>3, <2>4, <3>1 DEF Asked, Autos, AllSpent
  <2>6. c \in Command /\ \A d \in C : d.cmd = "PIN_STATUS"
    BY <2>1, NumberTypes
  <2> QED
    BY <2>2, <2>3, <2>5, <2>6, AskedStatus
<1>7. ASSUME NEW c \in wire, SecCallback(c), ~stale' PROVE Asked'
  <2>1. \E C : Answering(c, C)
    BY <1>7, SecCases DEF Judged
  <2> QED
    BY <1>0, <1>7, <2>1, AskedSec
<1>8. ASSUME NEW c \in wire, LockInformation(c) \/ RsimAccess(c) \/ Unanswered(c), ~stale'
      PROVE  Asked'
  <2>1. Answering(c, {})
    BY <1>8, LastCases
  <2> QED
    BY <1>0, <1>8, <2>1, AskedLast
<1>9. CASE Outage
  <2>1. requests' = <<>> /\ expects' = <<>> /\ \A c \in wire' : c.old
    BY <1>9, OutageKeeps, TypeFacts, Shapes DEF Outage
  <2> QED
    BY <2>1 DEF AskedInv, Asked, Numbers, Alone, Autos, Sent
<1>10. CASE /\ UNCHANGED <<requests, seq, expects, wire, stale, data, verdict, ignored>>
            /\ ~stale'
  <2>1. Asked
    BY <1>10 DEF AskedInv
  <2>2. /\ \A j \in 1 .. Len(requests') :
              \E k \in 1 .. Len(requests) : requests'[j] = requests[k]
        /\ \A k \in 1 .. Len(requests) : Handled(requests[k]) =>
              \E j \in 1 .. Len(requests') : requests'[j] = requests[k]
    BY <1>10
  <2>3. /\ UNCHANGED <<seq, expects, wire, verdict, ignored>>
        /\ \A k \in 1 .. Len(requests) :
              Handled(requests[k]) /\ requests[k].kind \in Tries =>
                 data'[requests[k].kind] = data[requests[k].kind]
    BY <1>10
  <2>4. Asked'
    BY <2>1, <2>2, <2>3, AskedKeeps
  <2> QED
    BY <2>4 DEF AskedInv
<1>11. ASSUME NEW s \in {"off", "sim"}, RadioChange(s)
       PROVE  UNCHANGED <<requests, seq, expects, wire, stale, data, verdict, ignored>>
  BY <1>11 DEF RadioChange, RadioState, simVars
<1>12. CASE UNCHANGED vars
  BY <1>10, <1>12 DEF vars, queueVars, simVars, AskedInv
<1> QED
  BY <1>1, <1>2, <1>4, <1>5, <1>6, <1>7, <1>8, <1>9, <1>10, <1>11, <1>12
     DEF Next, AskedInv

\* What the invariant says of the properties
LEMMA CardHolds ==
    ASSUME AskedInv
    PROVE  Pin2Accepted /\ HandledWaits
<1>1. Pin2Accepted
  BY DEF AskedInv, Asked, Sent, Fits, Pin2Accepted, Second
<1>2. HandledWaits
  <2> SUFFICES ASSUME ~stale, NEW r \in Stuck
               PROVE  r.token \in ignored \/ Lost(r)
    BY DEF HandledWaits, Lost, Others, Tries
  <2>1. PICK i \in 1 .. Len(requests) : r = requests[i]
    BY DEF Stuck
  <2>2. Waits(requests[i])
    BY DEF AskedInv, Asked
  <2> QED
    BY <2>1, <2>2 DEF Stuck, Waits
<1> QED
  BY <1>1, <1>2
=============================================================================
