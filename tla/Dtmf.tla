--------------------------------- MODULE Dtmf --------------------------------
(***************************************************************************)
(* DTMF tones (call.c), with the request data list of samsung-ril.c.       *)
(*                                                                         *)
(* The tone that plays is kept as data of RIL_REQUEST_DTMF_START.  A tone  *)
(* that replaces it is stored, the modem is told to stop, and the callback *)
(* of the generic response sends what is stored under the same number.     *)
(***************************************************************************)
EXTENDS QueueView

VARIABLES
    startData,  \* request data of RIL_REQUEST_DTMF_START: tones
    dtmfData,   \* request data of RIL_REQUEST_DTMF: tones
    handed,     \* history: the tones handed to the modem
    playing,    \* the tone the modem plays, or None
    refused,    \* history: the modem refused a command
    failed      \* history: a command was not sent

dataVars == <<startData, dtmfData>>
histVars == <<handed, playing, refused, failed>>
vars == <<queueVars, dataVars, histVars>>

Kind == {"DTMF", "DTMF_START", "DTMF_STOP"}

\* A tone is named after the token of its request.
Request == [token : Token, kind : Kind, seq : Nat]

\* The commands, CALL_CONT_DTMF to start or stop a tone and CALL_BURST_DTMF
Command == [cmd : {"CONT_DTMF", "BURST_DTMF"}, status : {"START", "STOP"},
            tone : Token \cup {None}, seq : Nat, old : BOOLEAN]

StopCommand(s) == [cmd |-> "CONT_DTMF", status |-> "STOP", tone |-> None,
                   seq |-> s, old |-> FALSE]
StartCommand(s, t) == [cmd |-> "CONT_DTMF", status |-> "START", tone |-> t,
                       seq |-> s, old |-> FALSE]
BurstCommand(s, t) == [cmd |-> "BURST_DTMF", status |-> "START", tone |-> t,
                       seq |-> s, old |-> FALSE]

\* ril_request_data_get: the first tone of a list, and the list without it
Got(q) == IF q = <<>> THEN {} ELSE {Head(q)}
Rest(q) == IF q = <<>> THEN <<>> ELSE Tail(q)

Init ==
    /\ QueueInit
    /\ startData = <<>> /\ dtmfData = <<>>
    /\ handed = {} /\ playing = None /\ refused = FALSE /\ failed = FALSE

OnRequest(t, k) ==
    /\ Issue(t, [token |-> t, kind |-> k, seq |-> 0])
    /\ UNCHANGED <<dataVars, histVars>>

\* What the three handlers check: no other tone request is on its way; only
\* the stop does not look at the radio state.
CanRun(r) ==
    /\ r.kind # "DTMF_STOP" => radio \in {"sim", "ready"}
    /\ \A k \in Kind : ~Busy(k)

Ready == {i \in 1 .. Len(requests) : CanRun(requests[i])}

-----------------------------------------------------------------------------
(* The handlers of the requests.                                           *)

\* ril_request_dtmf and ril_request_dtmf_start while a tone plays: the new
\* tone is stored for the callback, the modem is told to stop
Replace(i) ==
    /\ Dispatched(i, Ready) /\ requests[i].kind # "DTMF_STOP"
    /\ startData # <<>>
    /\ LET r == requests[i]
       IN  /\ startData' = Rest(startData) \o
                IF r.kind = "DTMF_START" THEN <<r.token>> ELSE <<>>
           /\ dtmfData' = dtmfData \o
                IF r.kind = "DTMF" THEN <<r.token>> ELSE <<>>
    /\ Send(i, StopCommand(seq + 1),
            Expecting(StopCommand(seq + 1), "callback"))
    /\ UNCHANGED histVars

\* Mutant of DtmfStart: the tone is not registered.
DtmfStartForgets(i) ==
    /\ Dispatched(i, Ready) /\ requests[i].kind = "DTMF_START"
    /\ startData = <<>>
    /\ LET c == StartCommand(seq + 1, requests[i].token)
       IN  Send(i, c, Expecting(c, "complete"))
    /\ handed' = handed \cup {requests[i].token}
    /\ UNCHANGED <<dataVars, playing, refused, failed>>

\* ril_request_dtmf_start while none does: the tone is registered and started
DtmfStart(i) ==
    /\ Dispatched(i, Ready) /\ requests[i].kind = "DTMF_START"
    /\ startData = <<>>
    /\ startData' = <<requests[i].token>>
    /\ LET c == StartCommand(seq + 1, requests[i].token)
       IN  Send(i, c, Expecting(c, "complete"))
    /\ handed' = handed \cup {requests[i].token}
    /\ UNCHANGED <<dtmfData, playing, refused, failed>>

\* ril_request_dtmf while none does
DtmfBurst(i) ==
    /\ Dispatched(i, Ready) /\ requests[i].kind = "DTMF"
    /\ startData = <<>>
    /\ LET c == BurstCommand(seq + 1, requests[i].token)
       IN  Send(i, c, Expecting(c, "abort"))
    /\ handed' = handed \cup {requests[i].token}
    /\ UNCHANGED <<dataVars, playing, refused, failed>>

\* The data of a tone request is malformed, or its command cannot be sent:
\* then the tone that plays was taken, and those stored for the callback or
\* registered as playing are freed.
PlayFails(i) ==
    /\ Dispatched(i, Ready) /\ requests[i].kind # "DTMF_STOP"
    /\ CompleteNow(i, "GENERIC_FAILURE")
    /\ \/ UNCHANGED <<dataVars, failed>>
       \/ /\ startData' = IF requests[i].kind = "DTMF_START" THEN <<>>
                          ELSE Rest(startData)
          /\ dtmfData' = IF requests[i].kind = "DTMF" /\ startData # <<>>
                         THEN <<>> ELSE dtmfData
          /\ failed' = TRUE
    /\ UNCHANGED <<handed, playing, refused>>

\* ril_request_dtmf_stop
DtmfStop(i) ==
    /\ Dispatched(i, Ready) /\ requests[i].kind = "DTMF_STOP"
    /\ startData' = Rest(startData)
    /\ Send(i, StopCommand(seq + 1),
            Expecting(StopCommand(seq + 1), "complete"))
    /\ UNCHANGED <<dtmfData, histVars>>

DtmfStopFails(i) ==
    /\ Dispatched(i, Ready) /\ requests[i].kind = "DTMF_STOP"
    /\ startData' = Rest(startData)
    /\ CompleteNow(i, "GENERIC_FAILURE")
    /\ failed' = TRUE
    /\ UNCHANGED <<dtmfData, handed, playing, refused>>

-----------------------------------------------------------------------------
(* The answers of the modem.                                               *)

\* The modem starts or stops a tone.
Plays(c) == playing' = IF c.cmd = "CONT_DTMF" THEN c.tone ELSE playing

\* What ipc_call_cont_dtmf_callback sends, the tone it registers again, and
\* the expect of the command in C, if there is one
Restart(c) == {StartCommand(c.seq, t) : t \in Got(startData)}
Burst(c) == {BurstCommand(c.seq, t) : t \in Got(dtmfData)}
Reregistered == IF startData = <<>> THEN <<>>
                ELSE Append(Tail(startData), Head(startData))
ExpectingOne(C, mode) ==
    IF C = {} THEN <<>> ELSE Expecting(CHOOSE c \in C : TRUE, mode)

\* ipc_call_cont_dtmf_callback after a stop that succeeded: the tones stored
\* for it are sent, and the started one is registered again
ContDtmfCallback(c) ==
    /\ c.cmd = "CONT_DTMF" /\ Mode(c) = "callback"
    /\ Receive(c, Restart(c) \cup Burst(c))
    /\ Unexpect(c, ExpectingOne(Restart(c), "complete")
                   \o ExpectingOne(Burst(c), "abort"))
    /\ startData' = Reregistered
    /\ dtmfData' = Rest(dtmfData)
    /\ handed' = handed \cup Got(startData) \cup Got(dtmfData)
    /\ Plays(c)
    /\ UNCHANGED <<requests, answer, refused, failed>>

\* ... when the first or the second command cannot be sent
ContDtmfCallbackFails(c) ==
    /\ c.cmd = "CONT_DTMF" /\ Mode(c) = "callback"
    /\ \/ /\ startData # <<>>
          /\ Receive(c, {}) /\ Unexpect(c, <<>>)
          /\ startData' = <<>>
          /\ UNCHANGED <<dtmfData, handed>>
       \/ /\ dtmfData # <<>>
          /\ Receive(c, Restart(c))
          /\ Unexpect(c, ExpectingOne(Restart(c), "complete"))
          /\ startData' = Reregistered
          /\ dtmfData' = Rest(dtmfData)
          /\ handed' = handed \cup Got(startData)
    /\ CompleteToken(FindToken(c.seq), "GENERIC_FAILURE")
    /\ Plays(c)
    /\ failed' = TRUE
    /\ UNCHANGED refused

\* ... after a stop that was refused: what is stored stays stored
ContDtmfCallbackRefused(c) ==
    /\ c.cmd = "CONT_DTMF" /\ Mode(c) = "callback"
    /\ Receive(c, {}) /\ Unexpect(c, <<>>)
    /\ CompleteToken(FindToken(c.seq), "GENERIC_FAILURE")
    /\ refused' = TRUE
    /\ UNCHANGED <<dataVars, handed, playing, failed>>

\* ipc_gen_phone_res for a command without a callback
ContDtmfResponse(c) ==
    /\ c.cmd = "CONT_DTMF"
    /\ GenResponse(c, TRUE)
    /\ Plays(c)
    /\ UNCHANGED <<dataVars, handed, refused, failed>>

Refused(c) ==
    /\ GenResponse(c, FALSE)
    /\ refused' = TRUE
    /\ UNCHANGED <<dataVars, handed, playing, failed>>

\* ipc_call_burst_dtmf
BurstDtmf(c) ==
    /\ c.cmd = "BURST_DTMF"
    /\ Receive(c, {}) /\ UNCHANGED expects
    /\ CompleteToken(FindToken(c.seq), "SUCCESS")
    /\ UNCHANGED <<dataVars, histVars>>

\* ril_request_data_flush as well; the modem may be power cycled
Outage ==
    /\ QueueOutage
    /\ startData' = <<>> /\ dtmfData' = <<>>
    /\ playing' \in {playing, None}
    /\ UNCHANGED <<handed, refused, failed>>

RadioChange ==
    /\ \E s \in RadioStates : RadioState(s)
    /\ UNCHANGED <<dataVars, histVars>>

Next ==
    \/ \E t \in Token, k \in Kind : OnRequest(t, k)
    \/ \E i \in 1 .. Len(requests) :
          \/ Replace(i) \/ DtmfStart(i) \/ DtmfBurst(i) \/ PlayFails(i)
          \/ DtmfStop(i) \/ DtmfStopFails(i)
    \/ \E c \in wire :
          \/ ContDtmfCallback(c) \/ ContDtmfCallbackFails(c)
          \/ ContDtmfCallbackRefused(c)
          \/ ContDtmfResponse(c) \/ Refused(c) \/ BurstDtmf(c)
    \/ Outage \/ RadioChange

Spec == Init /\ [][Next]_vars
-----------------------------------------------------------------------------
(* Properties.                                                             *)

\* The types of the state, and that at most one tone is registered as playing.
TypeOK ==
    /\ radio \in RadioStates
    /\ requests \in Seq(Request)
    /\ seq \in Nat
    /\ expects \in Seq([seq : Nat, cmd : {"CONT_DTMF", "BURST_DTMF"},
                        mode : {"complete", "abort", "callback"}])
    /\ wire \in SUBSET Command
    /\ asked \in [Token -> Kind \cup {"none"}]
    /\ answer \in [Token -> {"none", "SUCCESS", "GENERIC_FAILURE",
                             "RADIO_NOT_AVAILABLE"}]
    /\ outages \in Nat /\ stale \in BOOLEAN
    /\ startData \in Seq(Token) /\ dtmfData \in Seq(Token)
    /\ Len(startData) <= 1
    /\ handed \in SUBSET Token
    /\ playing \in Token \cup {None}
    /\ refused \in BOOLEAN /\ failed \in BOOLEAN

Successes(k) == {t \in Token : asked[t] = k /\ answer[t] = "SUCCESS"}

\* A tone reported as played was handed to the modem, whatever was playing,
\* failed to be sent or was lost in an outage before: the callback finds the
\* tone of its own request.  For DTMF this supposes that the modem has refused
\* nothing (a tone is reported as played whose stop was refused), for both that no answer is from before an outage.
TonePlayed ==
    ~stale => /\ Successes("DTMF_START") \subseteq handed
              /\ ~refused => Successes("DTMF") \subseteq handed

\* As long as nothing fails, the tone registered as playing is the one that
\* plays whenever the modem has nothing to do: a tone is never left playing
\* with nobody to stop it before the next one.
ToneRegistered ==
    (~refused /\ ~failed /\ outages = 0 /\ wire = {})
        => playing = IF startData = <<>> THEN None ELSE Head(startData)
-----------------------------------------------------------------------------
(* Proofs, for any requests and bounds.                                    *)

\* Types: those of TypeOK and of the queue
TypeInv == TypeOK /\ QueueInv

\* A callback is pending under number s.
Pending(s) ==
    \E n \in 1 .. Len(expects) : expects[n].seq = s /\ expects[n].mode = "callback"

\* The tone of the i-th request was handed to the modem, if it is to be reported as
\* played.
HandedTone(i) ==
    /\ requests[i].kind = "DTMF_START" => requests[i].token \in handed
    /\ requests[i].kind = "DTMF" => refused \/ requests[i].token \in handed

\* The tone stored for a callback is the one of the request that waits for it.
StoredTone(i) ==
    /\ requests[i].kind # "DTMF_STOP"
    /\ requests[i].kind = "DTMF_START" =>
          startData = <<requests[i].token>> /\ (refused \/ dtmfData = <<>>)
    /\ requests[i].kind = "DTMF" =>
          startData = <<>> /\ (refused \/ dtmfData = <<requests[i].token>>)

\* One request at a time is handled.
OneHandled ==
    \A i, j \in 1 .. Len(requests) :
       Handled(requests[i]) /\ Handled(requests[j]) => i = j

\* The numbers of expects and commands were given.
Numbers ==
    /\ \A n \in 1 .. Len(expects) : expects[n].seq \in 1 .. seq
    /\ \A c \in wire : ~c.old => c.seq \in 1 .. seq

\* A callback waits for the stop that the one request with its number sent.
CallbackWaits ==
    \A n \in 1 .. Len(expects) : expects[n].mode = "callback" =>
       /\ \E i \in 1 .. Len(requests) :
             requests[i].seq = expects[n].seq /\ StoredTone(i)
       /\ \A m \in 1 .. Len(expects) : expects[m].seq = expects[n].seq => m = n
       /\ \A c \in wire : ~c.old /\ c.seq = expects[n].seq => c = StopCommand(c.seq)

\* What a command says of the request with its number: a stop is that of the
\* request, or one before a stored tone; otherwise the tone was handed over.
CommandsTell ==
    \A c \in wire, i \in 1 .. Len(requests) :
       ~c.old /\ c.seq = requests[i].seq =>
          IF c = StopCommand(c.seq)
          THEN \/ requests[i].kind = "DTMF_STOP"
               \/ \A n \in 1 .. Len(expects) :
                     expects[n].seq = c.seq => expects[n].mode = "callback"
          ELSE HandedTone(i)

\* Without a callback nothing is stored for one, unless a stop was refused.
NothingStored ==
    \/ refused \/ dtmfData = <<>>
    \/ \E n \in 1 .. Len(expects) : expects[n].mode = "callback"

\* What holds until an answer from before an outage comes in
Structure == OneHandled /\ Numbers /\ CallbackWaits /\ CommandsTell /\ NothingStored

PlayedInv == ~stale => Structure /\ TonePlayed

\* The tone that is registered as playing
Registered == IF startData = <<>> THEN None ELSE Head(startData)

\* One command at a time, and what the modem will play when it is answered
Follows(c) ==
    /\ \E i \in 1 .. Len(requests) : requests[i].seq = c.seq
    /\ \/ c = StopCommand(c.seq) /\ (startData = <<>> \/ Pending(c.seq))
       \/ c.cmd = "CONT_DTMF" /\ startData = <<c.tone>>
       \/ c.cmd = "BURST_DTMF" /\ playing = Registered

\* Until something fails, the one command leads to the tone that is registered.
FollowedInv ==
    /\ outages = 0 => ~stale /\ \A c \in wire : ~c.old
    /\ ~refused /\ ~failed /\ outages = 0 =>
          /\ \A c, d \in wire : c = d
          /\ \A c \in wire : Follows(c)
          /\ wire = {} => playing = Registered

Expect == [seq : Nat, cmd : {"CONT_DTMF", "BURST_DTMF"},
           mode : {"complete", "abort", "callback"}]
Error == {"none", "SUCCESS", "GENERIC_FAILURE", "RADIO_NOT_AVAILABLE"}

\* Requests, commands, and expects are what the lemmas about the queue need.
LEMMA Shapes ==
    /\ Numberable(Request) /\ Ageable(Command)
    /\ \A s \in Nat : StopCommand(s) \in Command
    /\ \A s \in Nat, t \in Token :
          StartCommand(s, t) \in Command /\ BurstCommand(s, t) \in Command
    /\ \A c \in Command, m \in {"complete", "abort", "callback"} :
          Expecting(c, m) \in Seq(Expect)
<1>1. Numberable(Request)
  BY DEF Numberable, Request
<1>2. Ageable(Command)
  BY DEF Ageable, Command
<1>3. \A s \in Nat : StopCommand(s) \in Command
  BY DEF StopCommand, Command
<1>4. \A s \in Nat, t \in Token :
         StartCommand(s, t) \in Command /\ BurstCommand(s, t) \in Command
  BY DEF StartCommand, BurstCommand, Command
<1>5. ASSUME NEW c \in Command, NEW m \in {"complete", "abort", "callback"}
      PROVE  Expecting(c, m) \in Seq(Expect)
  <2>1. [seq |-> c.seq, cmd |-> c.cmd, mode |-> m] \in Expect
    BY DEF Command, Expect
  <2> QED
    BY <2>1 DEF Expecting
<1> QED
  BY <1>1, <1>2, <1>3, <1>4, <1>5

\* Of the lists of tones the first, at most, is taken.
LEMMA Tones ==
    ASSUME NEW q \in Seq(Token)
    PROVE  /\ Got(q) \subseteq Token /\ Rest(q) \in Seq(Token)
           /\ Len(q) <= 1 => Rest(q) = <<>>
<1>1. CASE q = <<>>
  BY <1>1 DEF Got, Rest
<1>2. CASE q # <<>>
  <2>1. Head(q) \in Token /\ Tail(q) \in Seq(Token) /\ Len(Tail(q)) = Len(q) - 1
    BY <1>2
  <2> QED
    BY <1>2, <2>1 DEF Got, Rest
<1> QED
  BY <1>1, <1>2

\* The one tone that is registered stays so when it is registered again.
LEMMA OneTone ==
    ASSUME TypeOK
    PROVE  /\ startData = <<>> \/ \E t \in Token : startData = <<t>>
           /\ Rest(startData) = <<>> /\ Reregistered = startData
<1>1. startData \in Seq(Token) /\ Len(startData) <= 1
  BY DEF TypeOK
<1>2. CASE startData = <<>>
  BY <1>2 DEF Rest, Reregistered
<1>3. CASE startData # <<>>
  <2>0. Len(startData) # 0
    BY <1>1, <1>3
  <2>a. Len(startData) \in Nat
    BY <1>1
  <2>b. ASSUME NEW n \in Nat, n <= 1, n # 0
        PROVE  n = 1
    BY <2>b
  <2>c. Len(startData) = 1
    BY <1>1, <2>0, <2>a, <2>b, Zenon
  <2>1. Len(startData) = 1 /\ startData[1] \in Token
    BY <1>1, <2>c
  <2>2. startData = <<startData[1]>>
    BY <1>1, <2>1
  <2>3. Head(<<startData[1]>>) = startData[1] /\ Tail(<<startData[1]>>) = <<>>
    OBVIOUS
  <2>4. Append(<<>>, startData[1]) = <<startData[1]>>
    OBVIOUS
  <2> QED
    BY <1>3, <2>1, <2>2, <2>3, <2>4, Zenon DEF Rest, Reregistered
<1> QED
  BY <1>2, <1>3

\* What the callback sends and expects.
LEMMA CallbackSends ==
    ASSUME TypeOK, NEW c \in wire
    PROVE  /\ Restart(c) \cup Burst(c) \subseteq Command
           /\ ExpectingOne(Restart(c), "complete") \in Seq(Expect)
           /\ ExpectingOne(Burst(c), "abort") \in Seq(Expect)
<1>1. c.seq \in Nat /\ startData \in Seq(Token) /\ dtmfData \in Seq(Token)
  BY DEF TypeOK, Command
<1>2. Got(startData) \subseteq Token /\ Got(dtmfData) \subseteq Token
  BY <1>1, Tones
<1>3. Restart(c) \subseteq Command /\ Burst(c) \subseteq Command
  BY <1>1, <1>2, Shapes DEF Restart, Burst
<1>4. ASSUME NEW C \in SUBSET Command, NEW m \in {"complete", "abort"}
      PROVE  ExpectingOne(C, m) \in Seq(Expect)
  <2>1. CASE C = {}
    BY <2>1 DEF ExpectingOne
  <2>2. CASE C # {}
    <3>1. (CHOOSE d \in C : TRUE) \in Command
      BY <2>2
    <3> QED
      BY <2>2, <3>1, Shapes DEF ExpectingOne
  <2> QED
    BY <2>1, <2>2
<1> QED
  BY <1>3, <1>4

\* Initially nothing is queued and no tone was asked for.
LEMMA TypeInit == Init => TypeInv
<1> SUFFICES ASSUME Init PROVE TypeInv
  OBVIOUS
<1>1. QueueInv
  BY QueueInitInv DEF Init
<1>2. /\ requests \in Seq(Request) /\ wire \subseteq Command
      /\ expects \in Seq(Expect)
      /\ startData \in Seq(Token) /\ dtmfData \in Seq(Token)
      /\ Len(startData) <= 1
  BY DEF Init, QueueInit
<1>3. /\ asked \in [Token -> Kind \cup {"none"}] /\ answer \in [Token -> Error]
      /\ radio \in RadioStates /\ seq \in Nat /\ outages \in Nat
      /\ stale \in BOOLEAN /\ handed \in SUBSET Token
      /\ playing \in Token \cup {None} /\ refused \in BOOLEAN /\ failed \in BOOLEAN
  BY DEF Init, QueueInit, RadioStates, Error
<1> QED
  BY <1>1, <1>2, <1>3 DEF TypeInv, TypeOK, Expect, Error

\* What a step leaves of the types, once those of the queue and of the commands
\* are known
QueueTypes ==
    /\ QueueInv /\ requests \in Seq(Request) /\ wire \subseteq Command
    /\ expects \in Seq(Expect) /\ answer \in [Token -> Error]

ToneTypes ==
    /\ startData \in Seq(Token) /\ dtmfData \in Seq(Token)
    /\ Len(startData) <= 1
    /\ handed \in SUBSET Token /\ playing \in Token \cup {None}
    /\ refused \in BOOLEAN /\ failed \in BOOLEAN

OtherTypes ==
    /\ radio \in RadioStates /\ asked \in [Token -> Kind \cup {"none"}]
    /\ outages \in Nat /\ stale \in BOOLEAN

LEMMA TypeParts == TypeInv <=> QueueTypes /\ ToneTypes /\ OtherTypes
BY DEF TypeInv, TypeOK, QueueTypes, ToneTypes, OtherTypes, QueueInv, Expect, Error

\* The steps of the queue keep its types.
LEMMA SendTypes ==
    ASSUME QueueTypes, NEW i \in 1 .. Len(requests), NEW c \in Command,
           NEW E \in Seq(Expect), Send(i, c, E)
    PROVE  QueueTypes' /\ UNCHANGED <<radio, asked, outages, stale>>
<1>1. QueueInv' /\ requests' \in Seq(Request)
  BY SendKeeps, Shapes DEF QueueTypes
<1>2. /\ wire' \subseteq Command /\ expects' \in Seq(Expect) /\ answer' = answer
      /\ UNCHANGED <<radio, asked, outages, stale>>
  BY DEF Send, QueueTypes
<1> QED
  BY <1>1, <1>2 DEF QueueTypes

LEMMA NowTypes ==
    ASSUME QueueTypes, None \notin Token, NEW i \in 1 .. Len(requests),
           CompleteNow(i, "GENERIC_FAILURE")
    PROVE  QueueTypes' /\ UNCHANGED <<radio, asked, outages, stale>>
<1>1. QueueInv' /\ requests' \in Seq(Request)
  BY CompleteNowKeeps DEF QueueTypes
<1>2. answer' \in [Token -> Error]
  BY DEF CompleteNow, CompleteToken, QueueTypes, Error
<1>3. /\ wire' = wire /\ expects' = expects
      /\ UNCHANGED <<radio, asked, outages, stale>>
  BY DEF CompleteNow
<1> QED
  BY <1>1, <1>2, <1>3 DEF QueueTypes

LEMMA FoundTypes ==
    ASSUME QueueTypes, OtherTypes, None \notin Token, NEW c \in wire,
           NEW C \in SUBSET Command, Receive(c, C), expects' \in Seq(Expect),
           \/ UNCHANGED <<requests, answer>>
           \/ CompleteToken(FindToken(c.seq), "SUCCESS")
           \/ CompleteToken(FindToken(c.seq), "GENERIC_FAILURE")
    PROVE  QueueTypes' /\ OtherTypes'
<1>1. UNCHANGED <<radio, seq, asked, outages>> /\ stale' = (stale \/ c.old)
  BY DEF Receive, ReceiveState
<1>2. wire' \subseteq Command /\ OtherTypes'
  BY <1>1 DEF Receive, ReceiveState, QueueTypes, OtherTypes, Command
<1>3. CASE UNCHANGED <<requests, answer>>
  BY <1>1, <1>2, <1>3, RadioKeeps DEF QueueTypes
<1>4. ASSUME NEW e \in {"SUCCESS", "GENERIC_FAILURE"},
             CompleteToken(FindToken(c.seq), e)
      PROVE  QueueTypes'
  <2>1. QueueInv' /\ requests' \in Seq(Request)
    BY <1>1, <1>4, CompleteFoundKeeps DEF QueueTypes
  <2>2. answer' \in [Token -> Error]
    BY <1>4 DEF CompleteToken, QueueTypes, Error
  <2> QED
    BY <1>2, <2>1, <2>2 DEF QueueTypes
<1> QED
  BY <1>2, <1>3, <1>4

\* What an outage leaves
LEMMA OutageTypes ==
    ASSUME QueueTypes, OtherTypes, None \notin Token, QueueOutage
    PROVE  QueueTypes' /\ OtherTypes'
<1>1. /\ QueueInv' /\ requests' = <<>> /\ expects' = <<>> /\ wire' \subseteq Command
  BY OutageKeeps, Shapes DEF QueueTypes
<1>2. answer' \in [Token -> Error]
  BY DEF QueueOutage, QueueTypes, Error
<1>3. OtherTypes'
  BY DEF QueueOutage, OtherTypes, RadioStates
<1> QED
  BY <1>1, <1>2, <1>3 DEF QueueTypes

LEMMA TypeStep ==
    ASSUME None \notin Token, TypeInv, [Next]_vars
    PROVE  TypeInv'
<1> USE DEF dataVars, histVars
<1>0. QueueTypes /\ ToneTypes /\ OtherTypes /\ TypeOK
  BY TypeParts DEF TypeInv
<1>a. (QueueTypes /\ ToneTypes /\ OtherTypes)' => TypeInv'
  BY DEF TypeInv, TypeOK, QueueTypes, ToneTypes, OtherTypes, QueueInv, Expect, Error
<1>e. /\ <<>> \in Seq(Token) /\ Len(<<>>) <= 1
      /\ \A t \in Token : <<t>> \in Seq(Token) /\ Len(<<t>>) <= 1
  OBVIOUS
<1>b. /\ requests \in Seq(Request) /\ seq \in Nat /\ seq + 1 \in Nat
      /\ expects \in Seq(Expect)
      /\ startData \in Seq(Token) /\ dtmfData \in Seq(Token)
      /\ Len(startData) <= 1
  BY <1>0 DEF QueueTypes, ToneTypes, QueueInv
<1>c. \A i \in 1 .. Len(requests) : requests[i].token \in Token
  BY <1>0 DEF QueueTypes, QueueInv, Queued
<1>d. /\ Got(startData) \subseteq Token /\ Rest(startData) = <<>>
      /\ Got(dtmfData) \subseteq Token /\ Rest(dtmfData) \in Seq(Token)
  BY <1>b, Tones
<1>1. ASSUME NEW t \in Token, NEW k \in Kind, OnRequest(t, k)
      PROVE  TypeInv'
  <2> DEFINE r == [token |-> t, kind |-> k, seq |-> 0]
  <2>1. r \in Request /\ r.token = t /\ r.kind = k /\ r.kind # "none" /\ r.seq = 0
    BY DEF Request, Kind
  <2>2. Issue(t, r)
    BY <1>1 DEF OnRequest
  <2> HIDE DEF r
  <2>3. QueueInv' /\ requests' \in Seq(Request)
    BY <1>0, <2>1, <2>2, IssueKeeps DEF QueueTypes
  <2>4. QueueTypes'
    BY <1>0, <2>2, <2>3 DEF Issue, QueueTypes
  <2>5. OtherTypes'
    BY <1>0, <2>1, <2>2 DEF Issue, OtherTypes
  <2>6. ToneTypes'
    BY <1>0, <1>1 DEF OnRequest, ToneTypes
  <2> QED
    BY <1>a, <2>4, <2>5, <2>6
<1>2. ASSUME NEW i \in 1 .. Len(requests), NEW c \in Command,
             NEW E \in Seq(Expect), Send(i, c, E), ToneTypes'
      PROVE  TypeInv'
  BY <1>0, <1>a, <1>2, SendTypes DEF OtherTypes
<1>3. ASSUME NEW i \in 1 .. Len(requests), Replace(i)
      PROVE  TypeInv'
  <2> DEFINE c == StopCommand(seq + 1)
             E == Expecting(c, "callback")
  <2>1. c \in Command /\ E \in Seq(Expect)
    BY <1>b, Shapes
  <2>2. Send(i, c, E)
    BY <1>3 DEF Replace
  <2> HIDE DEF c, E
  <2>3. /\ startData' \in Seq(Token) /\ dtmfData' \in Seq(Token)
        /\ Len(startData') <= 1
    <3>1. startData' = <<>> \/ startData' = <<requests[i].token>>
      BY <1>3, <1>d DEF Replace
    <3>2. dtmfData' = dtmfData \o <<>> \/ dtmfData' = dtmfData \o <<requests[i].token>>
      BY <1>3 DEF Replace
    <3>3. startData' \in Seq(Token) /\ Len(startData') <= 1
      BY <1>c, <1>e, <3>1, Zenon
    <3>4. \A q \in Seq(Token) : dtmfData \o q \in Seq(Token)
      BY <1>b
    <3>5. dtmfData' \in Seq(Token)
      BY <1>c, <1>e, <3>2, <3>4, Zenon
    <3> QED
      BY <3>3, <3>5
  <2>4. ToneTypes'
    BY <1>0, <1>3, <2>3 DEF ToneTypes, Replace
  <2> QED
    BY <1>2, <2>1, <2>2, <2>4
<1>4. ASSUME NEW i \in 1 .. Len(requests), DtmfStart(i) \/ DtmfBurst(i)
      PROVE  TypeInv'
  <2>1. PICK c \in Command, E \in Seq(Expect) : Send(i, c, E)
    <3>1. /\ StartCommand(seq + 1, requests[i].token) \in Command
          /\ BurstCommand(seq + 1, requests[i].token) \in Command
      BY <1>b, <1>c, Shapes
    <3> QED
      BY <1>4, <3>1, Shapes DEF DtmfStart, DtmfBurst
  <2>2. startData' = startData \/ startData' = <<requests[i].token>>
    BY <1>4 DEF DtmfStart, DtmfBurst
  <2>3. startData' \in Seq(Token) /\ Len(startData') <= 1
    BY <1>b, <1>c, <1>e, <2>2, Zenon
  <2>4. ToneTypes'
    BY <1>0, <1>4, <1>c, <2>3 DEF ToneTypes, DtmfStart, DtmfBurst
  <2> QED
    BY <1>2, <2>1, <2>4
<1>5. ASSUME NEW i \in 1 .. Len(requests), DtmfStop(i)
      PROVE  TypeInv'
  <2>1. StopCommand(seq + 1) \in Command
    BY <1>b, Shapes
  <2>2. Expecting(StopCommand(seq + 1), "complete") \in Seq(Expect)
    BY <2>1, Shapes
  <2>3. ToneTypes'
    BY <1>0, <1>5, <1>d DEF ToneTypes, DtmfStop
  <2> QED
    BY <1>2, <1>5, <2>1, <2>2, <2>3 DEF DtmfStop
<1>6. ASSUME NEW i \in 1 .. Len(requests), PlayFails(i) \/ DtmfStopFails(i)
      PROVE  TypeInv'
  <2>1. CompleteNow(i, "GENERIC_FAILURE")
    BY <1>6 DEF PlayFails, DtmfStopFails
  <2>2. QueueTypes' /\ OtherTypes'
    BY <1>0, <2>1, NowTypes DEF OtherTypes
  <2>3. /\ startData' = startData \/ startData' = <<>>
        /\ dtmfData' = dtmfData \/ dtmfData' = <<>>
    BY <1>6, <1>d DEF PlayFails, DtmfStopFails
  <2>4. /\ startData' \in Seq(Token) /\ dtmfData' \in Seq(Token)
        /\ Len(startData') <= 1
    BY <1>b, <1>e, <2>3, Zenon
  <2>5. ToneTypes'
    BY <1>0, <1>6, <2>4 DEF ToneTypes, PlayFails, DtmfStopFails
  <2> QED
    BY <1>a, <2>2, <2>5
<1>7. ASSUME NEW c \in wire, NEW C \in SUBSET Command, Receive(c, C),
             expects' \in Seq(Expect), ToneTypes',
             \/ UNCHANGED <<requests, answer>>
             \/ CompleteToken(FindToken(c.seq), "SUCCESS")
             \/ CompleteToken(FindToken(c.seq), "GENERIC_FAILURE")
      PROVE  TypeInv'
  BY <1>0, <1>7, <1>a, FoundTypes
<1>8. ASSUME NEW c \in wire, NEW E \in Seq(Expect), Mode(c) # "ignore", Unexpect(c, E)
      PROVE  expects' \in Seq(Expect)
  BY <1>8, <1>b, UnexpectType
<1>9. ASSUME NEW c \in wire, Plays(c)
      PROVE  playing' \in Token \cup {None}
  <2>1. c.tone \in Token \cup {None}
    BY <1>0 DEF QueueTypes, Command
  <2> QED
    BY <1>0, <1>9, <2>1 DEF Plays, ToneTypes
<1>10. ASSUME NEW c \in wire
       PROVE  /\ Restart(c) \cup Burst(c) \subseteq Command
              /\ ExpectingOne(Restart(c), "complete") \in Seq(Expect)
              /\ ExpectingOne(Burst(c), "abort") \in Seq(Expect)
              /\ Reregistered = startData
  BY <1>0, CallbackSends, OneTone
<1>11. ASSUME NEW c \in wire, ContDtmfCallback(c)
       PROVE  TypeInv'
  <2>1. /\ Receive(c, Restart(c) \cup Burst(c)) /\ UNCHANGED <<requests, answer>>
        /\ Mode(c) # "ignore"
    BY <1>11 DEF ContDtmfCallback
  <2>2. expects' \in Seq(Expect)
    <3> DEFINE E == ExpectingOne(Restart(c), "complete") \o ExpectingOne(Burst(c), "abort")
    <3>1. E \in Seq(Expect)
      BY <1>10
    <3>2. Unexpect(c, E)
      BY <1>11 DEF ContDtmfCallback
    <3> HIDE DEF E
    <3> QED
      BY <1>8, <2>1, <3>1, <3>2
  <2>3. ToneTypes'
    BY <1>0, <1>11, <1>b, <1>d, <1>9, <1>10 DEF ToneTypes, ContDtmfCallback
  <2> QED
    BY <1>7, <1>10, <2>1, <2>2, <2>3
<1>12. ASSUME NEW c \in wire, ContDtmfCallbackFails(c)
       PROVE  TypeInv'
  <2>1. CompleteToken(FindToken(c.seq), "GENERIC_FAILURE") /\ Mode(c) # "ignore"
    BY <1>12 DEF ContDtmfCallbackFails
  <2>2. PICK C \in SUBSET Command, E \in Seq(Expect) : Receive(c, C) /\ Unexpect(c, E)
    <3>1. <<>> \in Seq(Expect)
      OBVIOUS
    <3>2. \/ Receive(c, {}) /\ Unexpect(c, <<>>)
          \/ /\ Receive(c, Restart(c))
             /\ Unexpect(c, ExpectingOne(Restart(c), "complete"))
      BY <1>12 DEF ContDtmfCallbackFails
    <3> QED
      BY <1>10, <3>1, <3>2
  <2>3. expects' \in Seq(Expect)
    BY <1>8, <2>1, <2>2
  <2>4. /\ startData' = <<>> \/ startData' = startData
        /\ dtmfData' = dtmfData \/ dtmfData' = Rest(dtmfData)
        /\ handed' = handed \/ handed' = handed \cup Got(startData)
        /\ playing' \in Token \cup {None} /\ failed' = TRUE /\ UNCHANGED refused
    BY <1>9, <1>10, <1>12 DEF ContDtmfCallbackFails
  <2>5. /\ startData' \in Seq(Token) /\ dtmfData' \in Seq(Token)
        /\ Len(startData') <= 1
    BY <1>b, <1>d, <1>e, <2>4, Zenon
  <2>6. ToneTypes'
    BY <1>0, <1>d, <2>4, <2>5 DEF ToneTypes
  <2> QED
    BY <1>7, <2>1, <2>2, <2>3, <2>6
<1>13. ASSUME NEW c \in wire, ContDtmfCallbackRefused(c)
       PROVE  TypeInv'
  <2>1. /\ CompleteToken(FindToken(c.seq), "GENERIC_FAILURE") /\ Mode(c) # "ignore"
        /\ Receive(c, {}) /\ Unexpect(c, <<>>)
    BY <1>13 DEF ContDtmfCallbackRefused
  <2>2. <<>> \in Seq(Expect)
    OBVIOUS
  <2>3. expects' \in Seq(Expect)
    BY <1>8, <2>1, <2>2
  <2>4. ToneTypes'
    BY <1>0, <1>13 DEF ToneTypes, ContDtmfCallbackRefused
  <2> QED
    BY <1>7, <2>1, <2>3, <2>4
<1>14. ASSUME NEW c \in wire, NEW ok \in BOOLEAN, GenResponse(c, ok), ToneTypes'
       PROVE  TypeInv'
  <2>1. /\ Receive(c, {})
        /\ expects' = expects \/ (Mode(c) # "ignore" /\ Unexpect(c, <<>>))
        /\ \/ UNCHANGED <<requests, answer>>
           \/ CompleteToken(FindToken(c.seq), "SUCCESS")
           \/ CompleteToken(FindToken(c.seq), "GENERIC_FAILURE")
    BY <1>14 DEF GenResponse
  <2>2. <<>> \in Seq(Expect)
    OBVIOUS
  <2>3. expects' \in Seq(Expect)
    BY <1>8, <1>b, <2>1, <2>2
  <2> QED
    BY <1>7, <1>14, <2>1, <2>3
<1>15. ASSUME NEW c \in wire, ContDtmfResponse(c) \/ Refused(c)
       PROVE  TypeInv'
  <2>1. ToneTypes'
    BY <1>0, <1>9, <1>15 DEF ContDtmfResponse, Refused, ToneTypes
  <2> QED
    BY <1>14, <1>15, <2>1 DEF ContDtmfResponse, Refused
<1>16. ASSUME NEW c \in wire, BurstDtmf(c)
       PROVE  TypeInv'
  <2>1. ToneTypes'
    BY <1>0, <1>16 DEF BurstDtmf, ToneTypes
  <2> QED
    BY <1>7, <1>16, <1>b, <2>1 DEF BurstDtmf
<1>17. CASE Outage
  <2>1. QueueTypes' /\ OtherTypes'
    BY <1>0, <1>17, OutageTypes DEF Outage
  <2>2. ToneTypes'
    BY <1>0, <1>17 DEF Outage, ToneTypes
  <2> QED
    BY <1>a, <2>1, <2>2
<1>18. CASE RadioChange
  <2>1. PICK s \in RadioStates : RadioState(s)
    BY <1>18 DEF RadioChange
  <2>2. QueueTypes' /\ OtherTypes'
    BY <1>0, <2>1, RadioKeeps DEF RadioState, QueueTypes, OtherTypes
  <2>3. ToneTypes'
    BY <1>0, <1>18 DEF RadioChange, ToneTypes
  <2> QED
    BY <1>a, <2>2, <2>3
<1>19. CASE UNCHANGED vars
  <2>1. QueueTypes' /\ OtherTypes'
    BY <1>0, <1>19, RadioKeeps DEF vars, queueVars, QueueTypes, OtherTypes
  <2>2. ToneTypes'
    BY <1>0, <1>19 DEF vars, ToneTypes
  <2> QED
    BY <1>a, <2>1, <2>2
<1> QED
  BY <1>1, <1>3, <1>4, <1>5, <1>6, <1>11, <1>12, <1>13, <1>15, <1>16, <1>17, <1>18,
     <1>19 DEF Next

\* A request is dispatched only when nothing is handled, no callback waits, and
\* nothing is stored for one.
LEMMA NoneHandled ==
    ASSUME TypeInv, Structure, NEW i \in 1 .. Len(requests), Dispatched(i, Ready)
    PROVE  /\ \A j \in 1 .. Len(requests) : requests[j].seq = 0
           /\ \A n \in 1 .. Len(expects) : expects[n].mode # "callback"
           /\ refused \/ dtmfData = <<>>
<1>0. requests \in Seq(Request) /\ expects \in Seq(Expect) /\ seq \in Nat
  BY DEF TypeInv, TypeOK, Expect
<1>1. ASSUME NEW j \in 1 .. Len(requests)
      PROVE  requests[j].kind \in Kind
  <2>1. requests[j] \in Request
    BY <1>0
  <2> QED
    BY <2>1 DEF Request
<1>2. \A k \in Kind : ~Busy(k)
  BY DEF Dispatched, Ready, CanRun
<1>3. \A j \in 1 .. Len(requests) : requests[j].seq = 0
  BY <1>1, <1>2 DEF Busy, Handled
<1>4. ASSUME NEW n \in 1 .. Len(expects), expects[n].mode = "callback"
      PROVE  FALSE
  <2>1. PICK j \in 1 .. Len(requests) : requests[j].seq = expects[n].seq
    BY <1>4 DEF Structure, CallbackWaits
  <2>2. expects[n].seq \in 1 .. seq
    BY DEF Structure, Numbers
  <2> QED
    BY <1>0, <1>3, <2>1, <2>2
<1> QED
  BY <1>3, <1>4 DEF Structure, NothingStored

\* Where nothing is handled and no callback waits, there is little to show.
LEMMA NothingWaits ==
    ASSUME NEW S, requests' \in Seq(S),
           \A j \in 1 .. Len(requests') : requests'[j].seq = 0,
           \A n \in 1 .. Len(expects') : expects'[n].mode # "callback",
           Numbers', NothingStored', seq' \in Nat
    PROVE  Structure'
<1>1. OneHandled'
  BY DEF OneHandled, Handled
<1>2. CallbackWaits'
  BY DEF CallbackWaits
<1>3. CommandsTell'
  BY DEF CommandsTell, Numbers
<1> QED
  BY <1>1, <1>2, <1>3 DEF Structure

\* A handler sends a command.
LEMMA SendStructure ==
    ASSUME TypeInv, Structure, NEW i \in 1 .. Len(requests), Dispatched(i, Ready),
           NEW c \in Command, ~c.old, c.seq = seq + 1,
           NEW m \in {"complete", "abort", "callback"}, Send(i, c, Expecting(c, m)),
           m = "callback" => StoredTone(i)' /\ c = StopCommand(c.seq),
           m = "callback" \/ refused' \/ dtmfData' = <<>>,
           IF c = StopCommand(c.seq)
           THEN m = "callback" \/ requests[i].kind = "DTMF_STOP"
           ELSE HandedTone(i)'
    PROVE  Structure'
<1>0. /\ requests \in Seq(Request) /\ expects \in Seq(Expect) /\ seq \in Nat
      /\ QueueInv
  BY DEF TypeInv, TypeOK, Expect
<1>1. /\ \A j \in 1 .. Len(requests) : requests[j].seq = 0
      /\ \A n \in 1 .. Len(expects) : expects[n].mode # "callback"
  BY NoneHandled
<1>2. /\ requests' \in Seq(Request) /\ Len(requests') = Len(requests)
      /\ \A j \in 1 .. Len(requests) :
            /\ requests'[j].kind = requests[j].kind
            /\ requests'[j].seq = IF j = i THEN seq + 1 ELSE requests[j].seq
  BY <1>0, SendKeeps, Shapes
<1>3. \A j \in 1 .. Len(requests') :
         requests'[j].seq = IF j = i THEN seq + 1 ELSE 0
  BY <1>1, <1>2
<1> DEFINE e == [seq |-> c.seq, cmd |-> c.cmd, mode |-> m]
<1>4. e.seq = seq + 1 /\ e.mode = m
  OBVIOUS
<1>5. expects' = expects \o <<e>> /\ wire' = wire \cup {c} /\ seq' = seq + 1
  BY DEF Send, Expecting
<1> HIDE DEF e
<1>6. /\ Len(expects') = Len(expects) + 1
      /\ \A n \in 1 .. Len(expects) : expects'[n] = expects[n]
      /\ expects'[Len(expects) + 1] = e
  BY <1>0, <1>5
<1>7. \A n \in 1 .. Len(expects') :
         IF n = Len(expects) + 1 THEN expects'[n] = e
         ELSE n \in 1 .. Len(expects) /\ expects'[n] = expects[n]
  BY <1>0, <1>6
<1>8. /\ \A n \in 1 .. Len(expects) : expects[n].seq \in 1 .. seq
      /\ \A d \in wire : ~d.old => d.seq \in 1 .. seq
  BY DEF Structure, Numbers
<1>9. OneHandled'
  BY <1>3 DEF OneHandled, Handled
<1>10. Numbers'
  <2>1. ASSUME NEW n \in 1 .. Len(expects')
        PROVE  expects'[n].seq \in 1 .. seq'
    <3>1. CASE n = Len(expects) + 1
      BY <1>0, <1>4, <1>5, <1>7, <3>1
    <3>2. CASE n # Len(expects) + 1
      BY <1>0, <1>5, <1>7, <1>8, <3>2
    <3> QED
      BY <3>1, <3>2
  <2>2. \A d \in wire' : ~d.old => d.seq \in 1 .. seq'
    BY <1>0, <1>5, <1>8
  <2> QED
    BY <2>1, <2>2 DEF Numbers
<1>11. CallbackWaits'
  <2> SUFFICES ASSUME NEW n \in 1 .. Len(expects'), expects'[n].mode = "callback"
               PROVE  /\ \E j \in 1 .. Len(requests') :
                            requests'[j].seq = expects'[n].seq /\ StoredTone(j)'
                      /\ \A l \in 1 .. Len(expects') :
                            expects'[l].seq = expects'[n].seq => l = n
                      /\ \A d \in wire' :
                            ~d.old /\ d.seq = expects'[n].seq => d = StopCommand(d.seq)
    BY DEF CallbackWaits
  <2>1. n = Len(expects) + 1 /\ expects'[n] = e
    BY <1>1, <1>7
  <2>2. m = "callback" /\ expects'[n].seq = seq + 1
    BY <1>4, <2>1
  <2>3. i \in 1 .. Len(requests') /\ requests'[i].seq = seq + 1
    BY <1>2
  <2>4. ASSUME NEW l \in 1 .. Len(expects'), expects'[l].seq = seq + 1
        PROVE  l = n
    BY <1>0, <1>7, <1>8, <2>1, <2>4
  <2>5. \A d \in wire' : ~d.old /\ d.seq = seq + 1 => d = c
    BY <1>0, <1>5, <1>8
  <2> QED
    BY <2>2, <2>3, <2>4, <2>5
<1>12. CommandsTell'
  <2> SUFFICES ASSUME NEW d \in wire', NEW j \in 1 .. Len(requests'),
                      ~d.old, d.seq = requests'[j].seq
               PROVE  IF d = StopCommand(d.seq)
                      THEN \/ requests'[j].kind = "DTMF_STOP"
                           \/ \A n \in 1 .. Len(expects') :
                                 expects'[n].seq = d.seq => expects'[n].mode = "callback"
                      ELSE HandedTone(j)'
    BY DEF CommandsTell
  <2>1. d.seq # 0
    BY <1>0, <1>5, <1>8
  <2>2. j = i /\ d.seq = seq + 1
    BY <1>3, <2>1
  <2>3. d = c
    BY <1>0, <1>5, <1>8, <2>2
  <2>4. CASE c = StopCommand(c.seq)
    <3>1. CASE m = "callback"
      <4>1. \A n \in 1 .. Len(expects') :
               expects'[n].seq = seq + 1 => expects'[n].mode = "callback"
        BY <1>0, <1>4, <1>7, <1>8, <3>1
      <4> QED
        BY <2>2, <2>3, <2>4, <4>1
    <3>2. CASE requests[i].kind = "DTMF_STOP"
      BY <1>2, <2>2, <2>3, <2>4, <3>2
    <3> QED
      BY <2>4, <3>1, <3>2
  <2>5. CASE c # StopCommand(c.seq)
    BY <2>2, <2>3, <2>5
  <2> QED
    BY <2>4, <2>5
<1>13. NothingStored'
  <2>1. CASE m = "callback"
    <3>1. Len(expects) + 1 \in 1 .. Len(expects')
      BY <1>0, <1>6
    <3>2. expects'[Len(expects) + 1].mode = "callback"
      BY <1>4, <1>6, <2>1
    <3> QED
      BY <3>1, <3>2 DEF NothingStored
  <2> QED
    BY <2>1 DEF NothingStored
<1> QED
  BY <1>9, <1>10, <1>11, <1>12, <1>13 DEF Structure

-----------------------------------------------------------------------------
(* The callback of a stop.                                                 *)

\* An answer for which a callback waits is that to the stop of the one request
\* that is handled, whose tone is stored.
LEMMA CallbackFound ==
    ASSUME TypeInv, Structure, NEW c \in wire, ~c.old, Mode(c) = "callback"
    PROVE  /\ c = StopCommand(c.seq) /\ c.seq \in 1 .. seq
           /\ \A d \in wire : ~d.old /\ d.seq = c.seq => d = c
           /\ \A n \in 1 .. Len(expects) :
                 n # First(expects, c.seq) => expects[n].mode # "callback"
           /\ \E i \in 1 .. Len(requests) :
                 /\ requests[i].seq = c.seq /\ StoredTone(i)
                 /\ FindToken(c.seq) = requests[i].token
                 /\ \A j \in 1 .. Len(requests) : j # i => requests[j].seq = 0
<1> DEFINE f == First(expects, c.seq)
<1>0. /\ requests \in Seq(Request) /\ expects \in Seq(Expect) /\ seq \in Nat
      /\ QueueInv
  BY DEF TypeInv, TypeOK, Expect
<1>1. Numbered(expects, c.seq) # {} /\ expects[f].mode = "callback"
  BY DEF Mode
<1>2. f \in 1 .. Len(expects) /\ expects[f].seq = c.seq
  BY <1>0, <1>1, FirstNumbered
<1> HIDE DEF f
<1>3. c.seq \in 1 .. seq
  BY <1>2 DEF Structure, Numbers
<1>4. /\ \E i \in 1 .. Len(requests) : requests[i].seq = c.seq /\ StoredTone(i)
      /\ \A m \in 1 .. Len(expects) : expects[m].seq = c.seq => m = f
      /\ \A d \in wire : ~d.old /\ d.seq = c.seq => d = StopCommand(d.seq)
  BY <1>1, <1>2 DEF Structure, CallbackWaits
<1>5. c = StopCommand(c.seq)
  BY <1>4
<1>6. \A d \in wire : ~d.old /\ d.seq = c.seq => d = c
  BY <1>4, <1>5
<1>7. PICK i \in 1 .. Len(requests) : requests[i].seq = c.seq /\ StoredTone(i)
  BY <1>4
<1>8. \A j \in 1 .. Len(requests) : requests[j].seq # 0 => j = i
  BY <1>0, <1>3, <1>7 DEF Structure, OneHandled, Handled
<1>9. FindToken(c.seq) = requests[i].token
  <2>1. PICK k \in 1 .. Len(requests) :
           requests[k].seq = c.seq /\ FindToken(c.seq) = requests[k].token
    BY <1>0, <1>7, FindTokenCases
  <2> QED
    BY <1>0, <1>3, <1>8, <2>1
<1>10. ASSUME NEW n \in 1 .. Len(expects), expects[n].mode = "callback"
       PROVE  n = f
  <2>1. PICK j \in 1 .. Len(requests) : requests[j].seq = expects[n].seq
    BY <1>10 DEF Structure, CallbackWaits
  <2>2. expects[n].seq \in 1 .. seq
    BY DEF Structure, Numbers
  <2>3. expects[n].seq = c.seq
    BY <1>0, <1>7, <1>8, <2>1, <2>2
  <2> QED
    BY <1>4, <2>3
<1> QED
  BY <1>3, <1>5, <1>6, <1>7, <1>8, <1>9, <1>10 DEF f

\* When it has run, no callback waits.
LEMMA CallbackTaken ==
    ASSUME TypeInv, Structure, NEW c \in wire, ~c.old, Mode(c) = "callback",
           NEW E \in Seq(Expect), Unexpect(c, E), seq' = seq,
           \A n \in 1 .. Len(E) : E[n].seq = c.seq /\ E[n].mode # "callback"
    PROVE  \A n \in 1 .. Len(expects') :
              expects'[n].mode # "callback" /\ expects'[n].seq \in 1 .. seq'
<1> DEFINE f == First(expects, c.seq)
           D == Delete(expects, f)
<1>0. expects \in Seq(Expect) /\ seq \in Nat
  BY DEF TypeInv, TypeOK, Expect, QueueInv
<1>1. /\ c.seq \in 1 .. seq
      /\ \A n \in 1 .. Len(expects) : n # f => expects[n].mode # "callback"
  BY CallbackFound
<1>2. Numbered(expects, c.seq) # {}
  BY DEF Mode
<1>3. f \in 1 .. Len(expects)
  BY <1>0, <1>2, FirstNumbered
<1>4. expects' = D \o E
  BY DEF Unexpect
<1> HIDE DEF f
<1>5. D \in Seq(Expect)
  BY <1>0, <1>3, DeleteType
<1>6. ASSUME NEW n \in 1 .. Len(D)
      PROVE  D[n].mode # "callback" /\ D[n].seq \in 1 .. seq
  <2>1. PICK k \in 1 .. Len(expects) : D[n] = expects[k] /\ k # f
    BY <1>0, <1>3, DeletePairs
  <2> QED
    BY <1>1, <2>1 DEF Structure, Numbers
<1> HIDE DEF D
<1>7. ASSUME NEW n \in 1 .. Len(expects')
      PROVE  \/ \E k \in 1 .. Len(D) : expects'[n] = D[k]
             \/ \E k \in 1 .. Len(E) : expects'[n] = E[k]
  <2>1. Len(expects') = Len(D) + Len(E)
    BY <1>4, <1>5
  <2>2. CASE n <= Len(D)
    BY <1>4, <1>5, <2>2
  <2>3. CASE n > Len(D)
    <3>1. n - Len(D) \in 1 .. Len(E)
      BY <1>5, <2>1, <2>3
    <3>2. expects'[n] = E[n - Len(D)]
      BY <1>4, <1>5, <2>1, <2>3
    <3> QED
      BY <3>1, <3>2
  <2> QED
    BY <1>5, <2>2, <2>3
<1> QED
  BY <1>1, <1>6, <1>7

\* When the callback fails, or the stop was refused, nothing is handled any more.
LEMMA CallbackEnds ==
    ASSUME TypeInv, None \notin Token, Structure,
           NEW c \in wire, ~c.old, Mode(c) = "callback",
           NEW E \in Seq(Expect), Unexpect(c, E),
           \A n \in 1 .. Len(E) : E[n].seq = c.seq /\ E[n].mode # "callback",
           CompleteToken(FindToken(c.seq), "GENERIC_FAILURE"),
           UNCHANGED <<seq, asked>>,
           \A d \in wire' : d \in wire \/ d.seq = c.seq,
           refused' \/ dtmfData' = <<>>
    PROVE  Structure'
<1>0. /\ requests \in Seq(Request) /\ expects \in Seq(Expect) /\ seq \in Nat
      /\ QueueInv
  BY DEF TypeInv, TypeOK, Expect, QueueInv
<1>1. PICK i \in 1 .. Len(requests) :
         /\ requests[i].seq = c.seq /\ FindToken(c.seq) = requests[i].token
         /\ \A j \in 1 .. Len(requests) : j # i => requests[j].seq = 0
  BY CallbackFound
<1>2. /\ requests' \in Seq(Request)
      /\ \A j \in 1 .. Len(requests') :
            \E k \in 1 .. Len(requests) : requests'[j] = requests[k]
      /\ \A j \in 1 .. Len(requests') : requests'[j].token # requests[i].token
  BY <1>0, <1>1, CompleteFoundKeeps
<1>3. \A j \in 1 .. Len(requests') : requests'[j].seq = 0
  BY <1>1, <1>2
<1>4. \A n \in 1 .. Len(expects') :
         expects'[n].mode # "callback" /\ expects'[n].seq \in 1 .. seq'
  BY CallbackTaken
<1>5. Numbers'
  <2>1. c.seq \in 1 .. seq
    BY CallbackFound
  <2> QED
    BY <1>4, <2>1 DEF Numbers, Structure
<1>6. NothingStored'
  BY DEF NothingStored
<1> QED
  BY <1>0, <1>2, <1>3, <1>4, <1>5, <1>6, NothingWaits

-----------------------------------------------------------------------------
(* The other answers.                                                      *)

\* An expect is taken out: what is left was there, each expect once.
LEMMA ExpectsLeft ==
    ASSUME TypeInv, NEW c \in wire,
           expects' = expects \/ (Mode(c) # "ignore" /\ Unexpect(c, <<>>))
    PROVE  /\ \A j, l \in 1 .. Len(expects') :
                 \E k, m \in 1 .. Len(expects) :
                    /\ expects'[j] = expects[k] /\ expects'[l] = expects[m]
                    /\ (j = l) <=> (k = m)
           /\ \A k \in 1 .. Len(expects) : expects[k].seq # c.seq =>
                 \E j \in 1 .. Len(expects') : expects'[j] = expects[k]
<1> DEFINE f == First(expects, c.seq)
<1>0. expects \in Seq(Expect)
  BY DEF TypeInv, TypeOK, Expect
<1>1. CASE expects' = expects
  BY <1>1
<1>2. CASE Mode(c) # "ignore" /\ Unexpect(c, <<>>)
  <2>1. Numbered(expects, c.seq) # {}
    BY <1>2 DEF Mode
  <2>2. f \in 1 .. Len(expects) /\ expects[f].seq = c.seq
    BY <1>0, <2>1, FirstNumbered
  <2>3. expects' = Delete(expects, f) \o <<>>
    BY <1>2 DEF Unexpect
  <2> HIDE DEF f
  <2>4. expects' = Delete(expects, f)
    BY <1>0, <2>2, <2>3, DeleteType
  <2>5. ASSUME NEW j \in 1 .. Len(expects'), NEW l \in 1 .. Len(expects')
        PROVE  \E k, m \in 1 .. Len(expects) :
                  /\ expects'[j] = expects[k] /\ expects'[l] = expects[m]
                  /\ (j = l) <=> (k = m)
    <3>1. j \in 1 .. Len(Delete(expects, f)) /\ l \in 1 .. Len(Delete(expects, f))
      BY <2>4
    <3>2. PICK k \in 1 .. Len(expects), m \in 1 .. Len(expects) :
             /\ Delete(expects, f)[j] = expects[k]
             /\ Delete(expects, f)[l] = expects[m]
             /\ (j = l) <=> (k = m)
      BY <1>0, <2>2, <3>1, DeletePairs
    <3> QED
      BY <2>4, <3>2
  <2>6. ASSUME NEW k \in 1 .. Len(expects), expects[k].seq # c.seq
        PROVE  \E j \in 1 .. Len(expects') : expects'[j] = expects[k]
    BY <1>0, <2>2, <2>4, <2>6, DeleteOthers
  <2> QED
    BY <2>5, <2>6
<1> QED
  BY <1>1, <1>2

\* An answer for which no callback waits takes at most the request of its number.
LEMMA Thins ==
    ASSUME TypeInv, Structure, NEW c \in wire,
           \A n \in 1 .. Len(expects) :
              expects[n].mode = "callback" => expects[n].seq # c.seq,
           QueueInv', requests' \in Seq(Request),
           \A j \in 1 .. Len(requests') :
              \E k \in 1 .. Len(requests) : requests'[j] = requests[k],
           \A k \in 1 .. Len(requests) : requests[k].token # FindToken(c.seq) =>
              \E j \in 1 .. Len(requests') : requests'[j] = requests[k],
           expects' = expects \/ (Mode(c) # "ignore" /\ Unexpect(c, <<>>)),
           wire' \subseteq wire, seq' = seq,
           UNCHANGED <<startData, dtmfData, handed>>, refused => refused',
           None \notin Token
    PROVE  Structure'
<1>0. /\ requests \in Seq(Request) /\ expects \in Seq(Expect) /\ seq \in Nat
      /\ QueueInv
  BY DEF TypeInv, TypeOK, Expect, QueueInv
<1>1. /\ \A j, l \in 1 .. Len(expects') :
            \E k, m \in 1 .. Len(expects) :
               /\ expects'[j] = expects[k] /\ expects'[l] = expects[m]
               /\ (j = l) <=> (k = m)
      /\ \A k \in 1 .. Len(expects) : expects[k].seq # c.seq =>
            \E j \in 1 .. Len(expects') : expects'[j] = expects[k]
  BY ExpectsLeft
<1>2. \A j \in 1 .. Len(expects') :
         \E k \in 1 .. Len(expects) : expects'[j] = expects[k]
  BY <1>1
<1>3. OneHandled'
  <2> SUFFICES ASSUME NEW i \in 1 .. Len(requests'), NEW j \in 1 .. Len(requests'),
                      requests'[i].seq # 0, requests'[j].seq # 0
               PROVE  i = j
    BY DEF OneHandled, Handled
  <2>1. PICK k \in 1 .. Len(requests) : requests'[i] = requests[k]
    OBVIOUS
  <2>2. PICK m \in 1 .. Len(requests) : requests'[j] = requests[m]
    OBVIOUS
  <2>a. requests[k].seq # 0 /\ requests[m].seq # 0
    BY <2>1, <2>2
  <2>3. k = m
    BY <2>a DEF Structure, OneHandled, Handled
  <2> QED
    BY <2>1, <2>2, <2>3 DEF QueueInv, DistinctTokens
<1>4. Numbers'
  BY <1>2 DEF Structure, Numbers
<1>5. ASSUME NEW k \in 1 .. Len(requests), NEW j \in 1 .. Len(requests'),
             requests'[j] = requests[k]
      PROVE  /\ StoredTone(k) => StoredTone(j)'
             /\ HandedTone(k) => HandedTone(j)'
  BY <1>5 DEF StoredTone, HandedTone
<1>6. CallbackWaits'
  <2> SUFFICES ASSUME NEW n \in 1 .. Len(expects'), expects'[n].mode = "callback"
               PROVE  /\ \E j \in 1 .. Len(requests') :
                            requests'[j].seq = expects'[n].seq /\ StoredTone(j)'
                      /\ \A l \in 1 .. Len(expects') :
                            expects'[l].seq = expects'[n].seq => l = n
                      /\ \A d \in wire' :
                            ~d.old /\ d.seq = expects'[n].seq => d = StopCommand(d.seq)
    BY DEF CallbackWaits
  <2>1. PICK p \in 1 .. Len(expects) : expects'[n] = expects[p]
    BY <1>2
  <2>2. /\ \A l \in 1 .. Len(expects) : expects[l].seq = expects[p].seq => l = p
        /\ \A d \in wire :
              ~d.old /\ d.seq = expects[p].seq => d = StopCommand(d.seq)
        /\ expects[p].seq # c.seq
    BY <2>1 DEF Structure, CallbackWaits
  <2>3. PICK i \in 1 .. Len(requests) :
           requests[i].seq = expects[p].seq /\ StoredTone(i)
    BY <2>1 DEF Structure, CallbackWaits
  <2>4. requests[i].token # FindToken(c.seq)
    <3>1. requests[i].token \in Token
      BY <1>0 DEF QueueInv, Queued
    <3>2. CASE FindToken(c.seq) = None
      BY <3>1, <3>2
    <3>3. ASSUME NEW k \in 1 .. Len(requests), requests[k].seq = c.seq,
                 FindToken(c.seq) = requests[k].token
          PROVE  requests[i].token # FindToken(c.seq)
      BY <1>0, <2>2, <2>3, <3>3 DEF QueueInv, DistinctTokens
    <3> QED
      BY <1>0, <3>2, <3>3, FindTokenCases
  <2>5. PICK j \in 1 .. Len(requests') : requests'[j] = requests[i]
    BY <2>4
  <2>6. requests'[j].seq = expects'[n].seq /\ StoredTone(j)'
    BY <1>5, <2>1, <2>3, <2>5
  <2>7. ASSUME NEW l \in 1 .. Len(expects'), expects'[l].seq = expects'[n].seq
        PROVE  l = n
    <3>1. PICK k \in 1 .. Len(expects), m \in 1 .. Len(expects) :
             /\ expects'[l] = expects[k] /\ expects'[n] = expects[m]
             /\ (l = n) <=> (k = m)
      BY <1>1
    <3>2. expects[m].seq = expects[p].seq /\ expects[k].seq = expects[p].seq
      BY <2>1, <2>7, <3>1
    <3>3. k = p /\ m = p
      BY <2>2, <3>2
    <3> QED
      BY <3>1, <3>3
  <2> QED
    BY <2>1, <2>2, <2>6, <2>7
<1>7. CommandsTell'
  <2> SUFFICES ASSUME NEW d \in wire', NEW j \in 1 .. Len(requests'),
                      ~d.old, d.seq = requests'[j].seq
               PROVE  IF d = StopCommand(d.seq)
                      THEN \/ requests'[j].kind = "DTMF_STOP"
                           \/ \A n \in 1 .. Len(expects') :
                                 expects'[n].seq = d.seq => expects'[n].mode = "callback"
                      ELSE HandedTone(j)'
    BY DEF CommandsTell
  <2>1. PICK i \in 1 .. Len(requests) : requests'[j] = requests[i]
    OBVIOUS
  <2>2. IF d = StopCommand(d.seq)
        THEN \/ requests[i].kind = "DTMF_STOP"
             \/ \A n \in 1 .. Len(expects) :
                   expects[n].seq = d.seq => expects[n].mode = "callback"
        ELSE HandedTone(i)
    BY <2>1 DEF Structure, CommandsTell
  <2>3. requests'[j].kind = requests[i].kind /\ (HandedTone(i) => HandedTone(j)')
    BY <1>5, <2>1
  <2>4. ASSUME \A n \in 1 .. Len(expects) :
                  expects[n].seq = d.seq => expects[n].mode = "callback",
               NEW n \in 1 .. Len(expects'), expects'[n].seq = d.seq
        PROVE  expects'[n].mode = "callback"
    <3>1. PICK k \in 1 .. Len(expects) : expects'[n] = expects[k]
      BY <1>2
    <3> QED
      BY <2>4, <3>1
  <2> QED
    BY <2>2, <2>3, <2>4
<1>8. NothingStored'
  <2>1. CASE refused \/ dtmfData = <<>>
    BY <2>1 DEF NothingStored
  <2>2. ASSUME NEW n \in 1 .. Len(expects), expects[n].mode = "callback"
        PROVE  NothingStored'
    <3>1. expects[n].seq # c.seq
      BY <2>2
    <3>2. PICK j \in 1 .. Len(expects') : expects'[j] = expects[n]
      BY <1>1, <3>1
    <3>3. expects'[j].mode = "callback"
      BY <2>2, <3>2
    <3> QED
      BY <3>3 DEF NothingStored
  <2> QED
    BY <2>1, <2>2 DEF Structure, NothingStored
<1> QED
  BY <1>3, <1>4, <1>6, <1>7, <1>8 DEF Structure

-----------------------------------------------------------------------------
(* The tones reported as played.                                           *)

\* No new success is reported.
LEMMA PlayedKeeps ==
    ASSUME TonePlayed, ~stale, handed \subseteq handed', refused => refused',
           \A t \in Token : answer'[t] = "SUCCESS" =>
              answer[t] = "SUCCESS" /\ asked'[t] = asked[t]
    PROVE  TonePlayed'
BY DEF TonePlayed, Successes

\* A success is reported to the request that an answer finds.
LEMMA PlayedFound ==
    ASSUME TypeInv, None \notin Token, TonePlayed, ~stale, NEW c \in wire,
           UNCHANGED <<asked, handed, refused>>,
           \A u \in Token :
              answer'[u] = IF u = FindToken(c.seq) THEN "SUCCESS" ELSE answer[u],
           \A i \in 1 .. Len(requests) : requests[i].seq = c.seq =>
              requests[i].kind = "DTMF_STOP" \/ HandedTone(i)
    PROVE  TonePlayed'
<1>0. requests \in Seq(Request) /\ QueueInv
  BY DEF TypeInv, TypeOK
<1> SUFFICES ASSUME NEW t \in Token, asked[t] \in {"DTMF_START", "DTMF"},
                    answer'[t] = "SUCCESS", asked[t] = "DTMF" => ~refused
             PROVE  t \in handed
  BY DEF TonePlayed, Successes
<1>1. CASE t = FindToken(c.seq)
  <2>1. PICK i \in 1 .. Len(requests) :
           requests[i].seq = c.seq /\ FindToken(c.seq) = requests[i].token
    BY <1>0, <1>1, FindTokenCases
  <2>2. asked[t] = requests[i].kind
    BY <1>0, <1>1, <2>1 DEF QueueInv, Queued
  <2> QED
    BY <1>1, <2>1, <2>2 DEF HandedTone
<1>2. CASE t # FindToken(c.seq)
  <2>1. answer[t] = "SUCCESS"
    BY <1>2
  <2> QED
    BY <2>1 DEF TonePlayed, Successes
<1> QED
  BY <1>1, <1>2

\* A request is issued.
LEMMA IssueStructure ==
    ASSUME TypeInv, Structure, NEW t \in Token, NEW k \in Kind, OnRequest(t, k)
    PROVE  Structure'
<1> USE DEF dataVars, histVars
<1>0. /\ requests \in Seq(Request) /\ expects \in Seq(Expect) /\ seq \in Nat
  BY DEF TypeInv, TypeOK, Expect, QueueInv
<1> DEFINE r == [token |-> t, kind |-> k, seq |-> 0]
<1>1. /\ requests' = Append(requests, r) /\ r.seq = 0 /\ r \in Request
      /\ UNCHANGED <<seq, expects, wire, startData, dtmfData, handed, refused>>
  BY DEF OnRequest, Issue, Request
<1> HIDE DEF r
<1>2. /\ Len(requests') = Len(requests) + 1
      /\ \A i \in 1 .. Len(requests) : requests'[i] = requests[i]
      /\ requests'[Len(requests) + 1] = r
  BY <1>0, <1>1
<1>3. \A j \in 1 .. Len(requests') :
         requests'[j].seq # 0 =>
            j \in 1 .. Len(requests) /\ requests'[j] = requests[j]
  BY <1>0, <1>1, <1>2
<1>4. OneHandled'
  BY <1>3 DEF Structure, OneHandled, Handled
<1>5. Numbers'
  BY <1>1 DEF Structure, Numbers
<1>6. \A j \in 1 .. Len(requests) :
         (StoredTone(j) => StoredTone(j)') /\ (HandedTone(j) => HandedTone(j)')
  BY <1>1, <1>2 DEF StoredTone, HandedTone
<1>7. CallbackWaits'
  <2> SUFFICES ASSUME NEW n \in 1 .. Len(expects), expects[n].mode = "callback"
               PROVE  /\ \E j \in 1 .. Len(requests') :
                            requests'[j].seq = expects[n].seq /\ StoredTone(j)'
                      /\ \A l \in 1 .. Len(expects) :
                            expects[l].seq = expects[n].seq => l = n
                      /\ \A d \in wire :
                            ~d.old /\ d.seq = expects[n].seq => d = StopCommand(d.seq)
    BY <1>1 DEF CallbackWaits
  <2>1. PICK i \in 1 .. Len(requests) :
           requests[i].seq = expects[n].seq /\ StoredTone(i)
    BY DEF Structure, CallbackWaits
  <2>2. i \in 1 .. Len(requests') /\ requests'[i] = requests[i]
    BY <1>0, <1>2
  <2>3. requests'[i].seq = expects[n].seq /\ StoredTone(i)'
    BY <1>6, <2>1, <2>2
  <2> QED
    BY <2>2, <2>3 DEF Structure, CallbackWaits
<1>8. CommandsTell'
  <2> SUFFICES ASSUME NEW d \in wire, NEW j \in 1 .. Len(requests'),
                      ~d.old, d.seq = requests'[j].seq
               PROVE  IF d = StopCommand(d.seq)
                      THEN \/ requests'[j].kind = "DTMF_STOP"
                           \/ \A n \in 1 .. Len(expects) :
                                 expects[n].seq = d.seq => expects[n].mode = "callback"
                      ELSE HandedTone(j)'
    BY <1>1 DEF CommandsTell
  <2>1. d.seq # 0
    BY <1>0 DEF Structure, Numbers
  <2>2. j \in 1 .. Len(requests) /\ requests'[j] = requests[j]
    BY <1>3, <2>1
  <2>3. IF d = StopCommand(d.seq)
        THEN \/ requests[j].kind = "DTMF_STOP"
             \/ \A n \in 1 .. Len(expects) :
                   expects[n].seq = d.seq => expects[n].mode = "callback"
        ELSE HandedTone(j)
    BY <2>2 DEF Structure, CommandsTell
  <2> QED
    BY <1>6, <2>2, <2>3
<1>9. NothingStored'
  BY <1>1 DEF Structure, NothingStored
<1> QED
  BY <1>4, <1>5, <1>7, <1>8, <1>9 DEF Structure

LEMMA PlayedInit == Init => PlayedInv
BY DEF Init, QueueInit, PlayedInv, Structure, OneHandled, Numbers, CallbackWaits,
       CommandsTell, NothingStored, TonePlayed, Successes

\* The handlers of the requests
LEMMA PlayedRequest ==
    ASSUME None \notin Token, TypeInv, TypeInv', Structure, TonePlayed, ~stale,
           NEW i \in 1 .. Len(requests),
           \/ Replace(i) \/ DtmfStart(i) \/ DtmfBurst(i) \/ PlayFails(i)
           \/ DtmfStop(i) \/ DtmfStopFails(i)
    PROVE  Structure' /\ TonePlayed'
<1> USE DEF dataVars, histVars
<1>0. /\ requests \in Seq(Request) /\ expects \in Seq(Expect) /\ seq \in Nat
      /\ QueueInv /\ TypeOK /\ seq + 1 \in Nat
  BY DEF TypeInv, TypeOK, Expect, QueueInv
<1>1. Dispatched(i, Ready)
  BY DEF Replace, DtmfStart, DtmfBurst, PlayFails, DtmfStop, DtmfStopFails
<1>2. /\ \A j \in 1 .. Len(requests) : requests[j].seq = 0
      /\ \A n \in 1 .. Len(expects) : expects[n].mode # "callback"
      /\ refused \/ dtmfData = <<>>
  BY <1>1, NoneHandled
<1>3. requests[i].token \in Token /\ requests[i].kind \in Kind
  <2>1. requests[i] \in Request
    BY <1>0
  <2> QED
    BY <2>1 DEF Request
<1>4. ASSUME NEW c, NEW E, Send(i, c, E)
      PROVE  UNCHANGED <<asked, answer>> /\ requests'[i].token = requests[i].token
             /\ requests'[i].kind = requests[i].kind
  BY <1>0, <1>4, SendKeeps, Shapes DEF Send
<1>5. CASE Replace(i)
  <2> DEFINE c == StopCommand(seq + 1)
  <2>1. Send(i, c, Expecting(c, "callback")) /\ UNCHANGED <<handed, refused>>
    BY <1>5 DEF Replace
  <2>2. c \in Command /\ ~c.old /\ c.seq = seq + 1 /\ c = StopCommand(c.seq)
    BY <1>0, Shapes DEF StopCommand
  <2> HIDE DEF c
  <2>3. UNCHANGED <<asked, answer>> /\ requests'[i].token = requests[i].token
        /\ requests'[i].kind = requests[i].kind
    BY <1>4, <2>1
  <2>4. StoredTone(i)'
    <3>1. Rest(startData) = <<>> /\ requests[i].kind # "DTMF_STOP"
      BY <1>0, <1>5, OneTone DEF Replace
    <3>2. CASE requests[i].kind = "DTMF_START"
      <4>1. startData' = <<>> \o <<requests[i].token>> /\ dtmfData' = dtmfData \o <<>>
        BY <1>5, <3>1, <3>2 DEF Replace
      <4>2. startData' = <<requests[i].token>>
        BY <4>1
      <4>3. dtmfData' = dtmfData
        BY <1>0, <4>1 DEF TypeOK
      <4> QED
        BY <1>2, <2>1, <2>3, <3>2, <4>2, <4>3 DEF StoredTone
    <3>3. CASE requests[i].kind = "DTMF"
      <4>1. startData' = <<>> \o <<>> /\ dtmfData' = dtmfData \o <<requests[i].token>>
        BY <1>5, <3>1, <3>3 DEF Replace
      <4>2. startData' = <<>>
        BY <4>1
      <4>3. dtmfData = <<>> => dtmfData' = <<requests[i].token>>
        BY <4>1
      <4> QED
        BY <1>2, <2>1, <2>3, <3>3, <4>2, <4>3 DEF StoredTone
    <3> QED
      BY <1>3, <3>1, <3>2, <3>3 DEF Kind
  <2>5. Structure'
    BY <1>1, <2>1, <2>2, <2>4, SendStructure
  <2>6. TonePlayed'
    BY <2>1, <2>3, PlayedKeeps
  <2> QED
    BY <2>5, <2>6
<1>6. CASE DtmfStart(i)
  <2> DEFINE c == StartCommand(seq + 1, requests[i].token)
  <2>1. /\ Send(i, c, Expecting(c, "complete")) /\ UNCHANGED <<dtmfData, refused>>
        /\ handed' = handed \cup {requests[i].token}
    BY <1>6 DEF DtmfStart
  <2>2. c \in Command /\ ~c.old /\ c.seq = seq + 1 /\ c # StopCommand(c.seq)
    BY <1>0, <1>3, Shapes DEF StopCommand, StartCommand
  <2> HIDE DEF c
  <2>3. UNCHANGED <<asked, answer>> /\ requests'[i].token = requests[i].token
        /\ requests'[i].kind = requests[i].kind
    BY <1>4, <2>1
  <2>4. HandedTone(i)'
    BY <2>1, <2>3 DEF HandedTone
  <2>5. Structure'
    BY <1>1, <1>2, <2>1, <2>2, <2>4, SendStructure
  <2>6. TonePlayed'
    BY <2>1, <2>3, PlayedKeeps
  <2> QED
    BY <2>5, <2>6
<1>7. CASE DtmfBurst(i)
  <2> DEFINE c == BurstCommand(seq + 1, requests[i].token)
  <2>1. /\ Send(i, c, Expecting(c, "abort")) /\ UNCHANGED <<dtmfData, refused>>
        /\ handed' = handed \cup {requests[i].token}
    BY <1>7 DEF DtmfBurst
  <2>2. c \in Command /\ ~c.old /\ c.seq = seq + 1 /\ c # StopCommand(c.seq)
    BY <1>0, <1>3, Shapes DEF StopCommand, BurstCommand
  <2> HIDE DEF c
  <2>3. UNCHANGED <<asked, answer>> /\ requests'[i].token = requests[i].token
        /\ requests'[i].kind = requests[i].kind
    BY <1>4, <2>1
  <2>4. HandedTone(i)'
    BY <2>1, <2>3 DEF HandedTone
  <2>5. Structure'
    BY <1>1, <1>2, <2>1, <2>2, <2>4, SendStructure
  <2>6. TonePlayed'
    BY <2>1, <2>3, PlayedKeeps
  <2> QED
    BY <2>5, <2>6
<1>8. CASE DtmfStop(i)
  <2> DEFINE c == StopCommand(seq + 1)
  <2>1. /\ Send(i, c, Expecting(c, "complete")) /\ UNCHANGED <<dtmfData, refused, handed>>
        /\ requests[i].kind = "DTMF_STOP"
    BY <1>8 DEF DtmfStop
  <2>2. c \in Command /\ ~c.old /\ c.seq = seq + 1 /\ c = StopCommand(c.seq)
    BY <1>0, Shapes DEF StopCommand
  <2> HIDE DEF c
  <2>3. UNCHANGED <<asked, answer>>
    BY <1>4, <2>1
  <2>4. Structure'
    BY <1>1, <1>2, <2>1, <2>2, SendStructure
  <2>5. TonePlayed'
    BY <2>1, <2>3, PlayedKeeps
  <2> QED
    BY <2>4, <2>5
<1>9. CASE PlayFails(i) \/ DtmfStopFails(i)
  <2>1. /\ CompleteNow(i, "GENERIC_FAILURE") /\ UNCHANGED <<handed, refused>>
        /\ dtmfData' = dtmfData \/ dtmfData' = <<>>
    BY <1>9 DEF PlayFails, DtmfStopFails
  <2>2. /\ requests' \in Seq(Request)
        /\ \A j \in 1 .. Len(requests') :
              \E k \in 1 .. Len(requests) : requests'[j] = requests[k]
        /\ \A u \in Token : answer'[u] = IF u = requests[i].token THEN "GENERIC_FAILURE"
                                         ELSE answer[u]
    <3>1. QueueInv /\ None \notin Token /\ requests \in Seq(Request)
      BY <1>0
    <3>2. CompleteNow(i, "GENERIC_FAILURE")
      BY <2>1
    <3>3. requests' \in Seq(Request)
      BY <3>1, <3>2, CompleteNowKeeps
    <3>4. \A j \in 1 .. Len(requests') :
             \E k \in 1 .. Len(requests) : requests'[j] = requests[k]
      BY <3>1, <3>2, CompleteNowKeeps
    <3>5. \A u \in Token : answer'[u] = IF u = requests[i].token THEN "GENERIC_FAILURE"
                                        ELSE answer[u]
      BY <3>1, <3>2, CompleteNowKeeps
    <3> QED
      BY <3>3, <3>4, <3>5
  <2>3. UNCHANGED <<seq, expects, wire, asked>>
    BY <2>1 DEF CompleteNow
  <2>4. Numbers' /\ NothingStored'
    BY <1>2, <2>1, <2>3 DEF Structure, Numbers, NothingStored
  <2>5. /\ \A j \in 1 .. Len(requests') : requests'[j].seq = 0
        /\ \A n \in 1 .. Len(expects') : expects'[n].mode # "callback"
    <3>1. \A k \in 1 .. Len(requests) : requests[k].seq = 0
      BY <1>2
    <3>2. \A n \in 1 .. Len(expects) : expects[n].mode # "callback"
      BY <1>2
    <3>3. ASSUME NEW j \in 1 .. Len(requests') PROVE requests'[j].seq = 0
      <4>1. PICK k \in 1 .. Len(requests) : requests'[j] = requests[k]
        BY <2>2
      <4> QED
        BY <3>1, <4>1
    <3> QED
      BY <2>3, <3>2, <3>3
  <2>6. Structure'
    BY <1>0, <2>2, <2>3, <2>4, <2>5, NothingWaits
  <2>7. TonePlayed'
    BY <2>1, <2>2, <2>3, PlayedKeeps
  <2> QED
    BY <2>6, <2>7
<1> QED
  BY <1>5, <1>6, <1>7, <1>8, <1>9

\* What the callback expects has the number of the stop.
LEMMA CallbackExpects ==
    ASSUME TypeOK, NEW c \in wire
    PROVE  /\ \A d \in Restart(c) \cup Burst(c) :
                 d.seq = c.seq /\ ~d.old /\ d # StopCommand(d.seq)
           /\ \A n \in 1 .. Len(ExpectingOne(Restart(c), "complete")) :
                 /\ ExpectingOne(Restart(c), "complete")[n].seq = c.seq
                 /\ ExpectingOne(Restart(c), "complete")[n].mode # "callback"
           /\ \A n \in 1 .. Len(ExpectingOne(Burst(c), "abort")) :
                 /\ ExpectingOne(Burst(c), "abort")[n].seq = c.seq
                 /\ ExpectingOne(Burst(c), "abort")[n].mode # "callback"
<1>1. \A d \in Restart(c) \cup Burst(c) :
         d.seq = c.seq /\ ~d.old /\ d # StopCommand(d.seq)
  BY DEF Restart, Burst, StartCommand, BurstCommand, StopCommand
<1>2. ASSUME NEW C, \A d \in C : d.seq = c.seq, NEW m \in {"complete", "abort"},
             NEW n \in 1 .. Len(ExpectingOne(C, m))
      PROVE  /\ ExpectingOne(C, m)[n].seq = c.seq
             /\ ExpectingOne(C, m)[n].mode # "callback"
  <2>1. CASE C = {}
    BY <1>2, <2>1 DEF ExpectingOne
  <2>2. CASE C # {}
    <3> DEFINE d == CHOOSE d \in C : TRUE
    <3>1. d.seq = c.seq
      BY <1>2, <2>2
    <3>2. ExpectingOne(C, m) = <<[seq |-> d.seq, cmd |-> d.cmd, mode |-> m]>>
      BY <2>2 DEF ExpectingOne, Expecting
    <3> HIDE DEF d
    <3>3. Len(ExpectingOne(C, m)) = 1
      BY <3>2
    <3>4. n = 1
      BY <1>2, <3>3
    <3> QED
      BY <3>1, <3>2, <3>4
  <2> QED
    BY <2>1, <2>2
<1> QED
  BY <1>1, <1>2

\* The answer to a stop for which the callback waits
LEMMA PlayedCallback ==
    ASSUME None \notin Token, TypeInv, TypeInv', Structure, TonePlayed, ~stale,
           NEW c \in wire, ~c.old, ContDtmfCallback(c)
    PROVE  Structure' /\ TonePlayed'
<1>0. /\ requests \in Seq(Request) /\ expects \in Seq(Expect) /\ seq \in Nat
      /\ QueueInv /\ TypeOK /\ dtmfData \in Seq(Token)
  BY DEF TypeInv, TypeOK, Expect, QueueInv
<1>1. Mode(c) = "callback"
  BY DEF ContDtmfCallback
<1>2. /\ c = StopCommand(c.seq) /\ c.seq \in 1 .. seq
      /\ \A d \in wire : ~d.old /\ d.seq = c.seq => d = c
  BY <1>1, CallbackFound
<1>3. PICK i \in 1 .. Len(requests) :
         /\ requests[i].seq = c.seq /\ StoredTone(i)
         /\ \A j \in 1 .. Len(requests) : j # i => requests[j].seq = 0
  BY <1>1, CallbackFound
<1>4. /\ UNCHANGED <<requests, answer, asked, seq, refused>>
      /\ wire' = (wire \ {c}) \cup (Restart(c) \cup Burst(c))
      /\ handed' = handed \cup Got(startData) \cup Got(dtmfData)
      /\ dtmfData' = Rest(dtmfData)
  BY DEF ContDtmfCallback, Receive, ReceiveState
<1>5. \A d \in Restart(c) \cup Burst(c) :
         d.seq = c.seq /\ ~d.old /\ d # StopCommand(d.seq)
  BY <1>0, CallbackExpects
<1> DEFINE E == ExpectingOne(Restart(c), "complete") \o ExpectingOne(Burst(c), "abort")
<1>6. /\ ExpectingOne(Restart(c), "complete") \in Seq(Expect)
      /\ ExpectingOne(Burst(c), "abort") \in Seq(Expect)
  BY <1>0, CallbackSends
<1>7. E \in Seq(Expect) /\ \A n \in 1 .. Len(E) : E[n].seq = c.seq /\ E[n].mode # "callback"
  <2>1. ASSUME NEW A \in Seq(Expect), NEW B \in Seq(Expect), NEW n \in 1 .. Len(A \o B)
        PROVE  \/ n \in 1 .. Len(A) /\ (A \o B)[n] = A[n]
               \/ n - Len(A) \in 1 .. Len(B) /\ (A \o B)[n] = B[n - Len(A)]
    <3>1. Len(A \o B) = Len(A) + Len(B) /\ Len(A) \in Nat /\ Len(B) \in Nat
      OBVIOUS
    <3>2. CASE n <= Len(A)
      BY <3>1, <3>2
    <3>3. CASE n > Len(A)
      <4>1. n - Len(A) \in 1 .. Len(B)
        BY <3>1, <3>3
      <4> QED
        BY <3>1, <3>3, <4>1
    <3> QED
      BY <3>1, <3>2, <3>3
  <2>2. E \in Seq(Expect)
    BY <1>6
  <2> QED
    BY <1>0, <1>6, <2>1, <2>2, CallbackExpects
<1>8. Unexpect(c, E)
  BY DEF ContDtmfCallback
<1> HIDE DEF E
<1>9. \A n \in 1 .. Len(expects') :
         expects'[n].mode # "callback" /\ expects'[n].seq \in 1 .. seq'
  BY <1>1, <1>4, <1>7, <1>8, CallbackTaken
<1>10. OneHandled' /\ CallbackWaits'
  BY <1>4, <1>9 DEF Structure, OneHandled, CallbackWaits
<1>11. Numbers'
  BY <1>2, <1>4, <1>5, <1>9 DEF Structure, Numbers
<1>12. requests[i].kind \in {"DTMF", "DTMF_START"}
  <2>1. requests[i] \in Request
    BY <1>0
  <2> QED
    BY <1>3, <2>1 DEF Request, Kind, StoredTone
<1>13. NothingStored'
  <2>1. refused \/ dtmfData = <<>> \/ dtmfData = <<requests[i].token>>
    BY <1>3, <1>12 DEF StoredTone
  <2>2. Rest(<<requests[i].token>>) = <<>> /\ Rest(<<>>) = <<>>
    BY DEF Rest
  <2>3. refused \/ dtmfData' = <<>>
    BY <1>4, <2>1, <2>2
  <2> QED
    BY <1>4, <2>3 DEF NothingStored
<1>14. HandedTone(i)'
  <2>1. CASE requests[i].kind = "DTMF_START"
    <3>1. startData = <<requests[i].token>>
      BY <1>3, <2>1 DEF StoredTone
    <3>2. requests[i].token \in Got(startData)
      BY <3>1 DEF Got
    <3> QED
      BY <1>4, <2>1, <3>2 DEF HandedTone
  <2>2. CASE requests[i].kind = "DTMF"
    <3>1. refused \/ dtmfData = <<requests[i].token>>
      BY <1>3, <2>2 DEF StoredTone
    <3>2. refused \/ requests[i].token \in Got(dtmfData)
      BY <3>1 DEF Got
    <3> QED
      BY <1>4, <2>2, <3>2 DEF HandedTone
  <2> QED
    BY <1>12, <2>1, <2>2
<1>15. CommandsTell'
  <2> SUFFICES ASSUME NEW d \in wire', NEW j \in 1 .. Len(requests'),
                      ~d.old, d.seq = requests'[j].seq
               PROVE  d # StopCommand(d.seq) /\ HandedTone(j)'
    BY DEF CommandsTell
  <2>1. d.seq # 0
    BY <1>0, <1>4, <1>11 DEF Numbers
  <2>2. j = i /\ d.seq = c.seq
    BY <1>3, <1>4, <2>1
  <2>3. d \in Restart(c) \cup Burst(c)
    BY <1>2, <1>4, <2>2
  <2> QED
    BY <1>5, <1>14, <2>2, <2>3
<1>16. TonePlayed'
  BY <1>4, PlayedKeeps
<1> QED
  BY <1>10, <1>11, <1>13, <1>15, <1>16 DEF Structure

\* ... when it fails or the stop was refused
LEMMA PlayedCallbackFails ==
    ASSUME None \notin Token, TypeInv, TypeInv', Structure, TonePlayed, ~stale,
           NEW c \in wire, ~c.old, ContDtmfCallbackFails(c) \/ ContDtmfCallbackRefused(c)
    PROVE  Structure' /\ TonePlayed'
<1> USE DEF dataVars, histVars
<1>0. /\ requests \in Seq(Request) /\ expects \in Seq(Expect) /\ seq \in Nat
      /\ QueueInv /\ TypeOK /\ dtmfData \in Seq(Token)
  BY DEF TypeInv, TypeOK, Expect, QueueInv
<1>1. /\ Mode(c) = "callback" /\ CompleteToken(FindToken(c.seq), "GENERIC_FAILURE")
      /\ UNCHANGED <<seq, asked>> /\ handed \subseteq handed' /\ (refused => refused')
  BY DEF ContDtmfCallbackFails, ContDtmfCallbackRefused, Receive, ReceiveState
<1>2. PICK i \in 1 .. Len(requests) : requests[i].seq = c.seq /\ StoredTone(i)
  BY <1>1, CallbackFound
<1>3. PICK E \in Seq(Expect) :
         /\ Unexpect(c, E)
         /\ \A n \in 1 .. Len(E) : E[n].seq = c.seq /\ E[n].mode # "callback"
  <2>1. \/ Unexpect(c, <<>>)
        \/ Unexpect(c, ExpectingOne(Restart(c), "complete"))
    BY DEF ContDtmfCallbackFails, ContDtmfCallbackRefused
  <2>2. <<>> \in Seq(Expect) /\ Len(<<>>) = 0
    OBVIOUS
  <2>3. \A n \in 1 .. Len(<<>>) : <<>>[n].seq = c.seq /\ <<>>[n].mode # "callback"
    BY <2>2
  <2> QED
    BY <1>0, <2>1, <2>2, <2>3, CallbackSends, CallbackExpects
<1>4. \A d \in wire' : d \in wire \/ d.seq = c.seq
  <2>1. Receive(c, {}) \/ Receive(c, Restart(c))
    BY DEF ContDtmfCallbackFails, ContDtmfCallbackRefused
  <2>2. \A d \in Restart(c) : d.seq = c.seq
    BY <1>0, CallbackExpects
  <2> QED
    BY <2>1, <2>2 DEF Receive, ReceiveState
<1>5. refused' \/ dtmfData' = <<>>
  <2>1. CASE ContDtmfCallbackRefused(c)
    BY <2>1 DEF ContDtmfCallbackRefused
  <2>2. CASE ContDtmfCallbackFails(c)
    <3>1. requests[i].kind \in {"DTMF", "DTMF_START"}
      <4>1. requests[i] \in Request
        BY <1>0
      <4> QED
        BY <1>2, <4>1 DEF Request, Kind, StoredTone
    <3>2. \/ refused \/ dtmfData = <<>>
          \/ startData = <<>> /\ dtmfData = <<requests[i].token>>
      BY <1>2, <3>1 DEF StoredTone
    <3>3. \/ startData # <<>> /\ dtmfData' = dtmfData
          \/ dtmfData' = Rest(dtmfData)
      BY <2>2 DEF ContDtmfCallbackFails
    <3>4. Rest(<<requests[i].token>>) = <<>> /\ Rest(<<>>) = <<>>
      BY DEF Rest
    <3> QED
      BY <1>1, <3>2, <3>3, <3>4
  <2> QED
    BY <2>1, <2>2
<1>6. Structure'
  BY <1>1, <1>3, <1>4, <1>5, CallbackEnds
<1>7. \A u \in Token : answer'[u] = "SUCCESS" => answer[u] = "SUCCESS"
  <2>1. asked' = asked /\ seq' = seq
    BY <1>1
  <2>2. \A u \in Token : answer'[u] = IF u = FindToken(c.seq) THEN "GENERIC_FAILURE"
                                      ELSE answer[u]
    BY <1>0, <1>1, <2>1, CompleteFoundKeeps
  <2> QED
    BY <2>2
<1>8. TonePlayed'
  BY <1>1, <1>7, PlayedKeeps
<1> QED
  BY <1>6, <1>8

\* An answer to a command for which no callback waits
LEMMA PlayedAnswer ==
    ASSUME None \notin Token, TypeInv, TypeInv', Structure, TonePlayed, ~stale,
           NEW c \in wire, ~c.old, ContDtmfResponse(c) \/ Refused(c) \/ BurstDtmf(c)
    PROVE  Structure' /\ TonePlayed'
<1> USE DEF dataVars, histVars
<1>0. /\ requests \in Seq(Request) /\ expects \in Seq(Expect) /\ seq \in Nat
      /\ QueueInv
  BY DEF TypeInv, TypeOK, Expect, QueueInv
<1>1. /\ asked' = asked /\ seq' = seq /\ wire' \subseteq wire
      /\ UNCHANGED <<startData, dtmfData, handed>> /\ (refused => refused')
      /\ expects' = expects \/ (Mode(c) # "ignore" /\ Unexpect(c, <<>>))
  BY DEF ContDtmfResponse, Refused, BurstDtmf, GenResponse, Receive, ReceiveState
<1>2. ASSUME NEW n \in 1 .. Len(expects), expects[n].mode = "callback",
             expects[n].seq = c.seq
      PROVE  /\ c = StopCommand(c.seq) /\ First(expects, c.seq) = n
             /\ Mode(c) \in {"callback", "mismatch"}
  <2>1. /\ \A m \in 1 .. Len(expects) : expects[m].seq = c.seq => m = n
        /\ c = StopCommand(c.seq)
    BY <1>2 DEF Structure, CallbackWaits
  <2>2. Numbered(expects, c.seq) # {}
    BY <1>2 DEF Numbered
  <2>3. First(expects, c.seq) = n
    BY <1>0, <2>1, <2>2, FirstNumbered
  <2> QED
    BY <1>2, <2>1, <2>2, <2>3 DEF Mode
<1>3. Mode(c) # "ignore" \/ c.cmd = "BURST_DTMF" \/ UNCHANGED <<requests, answer>>
  BY DEF ContDtmfResponse, Refused, BurstDtmf, GenResponse
<1>4. \A n \in 1 .. Len(expects) : expects[n].mode = "callback" => expects[n].seq # c.seq
  <2>1. StopCommand(c.seq).cmd # "BURST_DTMF"
    BY DEF StopCommand
  <2>2. c.cmd = "BURST_DTMF" \/ Mode(c) \in {"ignore", "complete", "abort"}
    BY DEF ContDtmfResponse, Refused, BurstDtmf, GenResponse
  <2> QED
    BY <1>2, <2>1, <2>2
<1>5. /\ QueueInv' /\ requests' \in Seq(Request)
  BY DEF TypeInv, TypeOK
<1>6. CASE UNCHANGED <<requests, answer>>
  <2>1. Structure'
    BY <1>0, <1>1, <1>4, <1>5, <1>6, Thins
  <2>2. TonePlayed'
    BY <1>1, <1>6, PlayedKeeps
  <2> QED
    BY <2>1, <2>2
<1>7. ASSUME NEW e \in {"SUCCESS", "GENERIC_FAILURE"}, CompleteToken(FindToken(c.seq), e)
      PROVE  /\ Structure'
             /\ \A u \in Token : answer'[u] = IF u = FindToken(c.seq) THEN e
                                              ELSE answer[u]
  <2>1. /\ \A j \in 1 .. Len(requests') :
              \E k \in 1 .. Len(requests) : requests'[j] = requests[k]
        /\ \A k \in 1 .. Len(requests) : requests[k].token # FindToken(c.seq) =>
              \E j \in 1 .. Len(requests') : requests'[j] = requests[k]
        /\ \A u \in Token : answer'[u] = IF u = FindToken(c.seq) THEN e
                                         ELSE answer[u]
    BY <1>0, <1>1, <1>7, CompleteFoundKeeps
  <2>2. Structure'
    BY <1>1, <1>4, <1>5, <2>1, Thins
  <2> QED
    BY <2>1, <2>2
<1>8. CASE CompleteToken(FindToken(c.seq), "GENERIC_FAILURE")
  <2>1. \A u \in Token : answer'[u] = "SUCCESS" => answer[u] = "SUCCESS"
    BY <1>7, <1>8
  <2>2. TonePlayed'
    BY <1>1, <2>1, PlayedKeeps
  <2> QED
    BY <1>7, <1>8, <2>2
<1>9. CASE /\ CompleteToken(FindToken(c.seq), "SUCCESS") /\ UNCHANGED refused
           /\ c.cmd = "BURST_DTMF" \/ Mode(c) = "complete"
  <2>1. ASSUME NEW i \in 1 .. Len(requests), requests[i].seq = c.seq
        PROVE  requests[i].kind = "DTMF_STOP" \/ HandedTone(i)
    <3>1. CASE c # StopCommand(c.seq)
      BY <2>1, <3>1 DEF Structure, CommandsTell
    <3>2. CASE c = StopCommand(c.seq)
      <4>1. Mode(c) = "complete"
        BY <1>9, <3>2 DEF StopCommand
      <4>2. /\ Numbered(expects, c.seq) # {}
            /\ expects[First(expects, c.seq)].mode = "complete"
        BY <4>1 DEF Mode
      <4>3. /\ First(expects, c.seq) \in 1 .. Len(expects)
            /\ expects[First(expects, c.seq)].seq = c.seq
        BY <1>0, <4>2, FirstNumbered
      <4>4. ~ \A n \in 1 .. Len(expects) :
                 expects[n].seq = c.seq => expects[n].mode = "callback"
        BY <4>2, <4>3
      <4> QED
        BY <2>1, <3>2, <4>4 DEF Structure, CommandsTell
    <3> QED
      BY <3>1, <3>2
  <2>2. \A u \in Token :
           answer'[u] = IF u = FindToken(c.seq) THEN "SUCCESS" ELSE answer[u]
    BY <1>7, <1>9
  <2>3. TonePlayed'
    BY <1>1, <1>9, <2>1, <2>2, PlayedFound
  <2> QED
    BY <1>7, <1>9, <2>3
<1> QED
  BY <1>6, <1>8, <1>9 DEF ContDtmfResponse, Refused, BurstDtmf, GenResponse

LEMMA PlayedStep ==
    ASSUME None \notin Token, TypeInv, TypeInv', PlayedInv, [Next]_vars
    PROVE  PlayedInv'
<1> USE DEF dataVars, histVars
<1> SUFFICES ASSUME ~stale'
             PROVE  Structure' /\ TonePlayed'
  BY DEF PlayedInv
<1>0. ~stale => Structure /\ TonePlayed
  BY DEF PlayedInv
<1>1. ASSUME NEW t \in Token, NEW k \in Kind, OnRequest(t, k)
      PROVE  Structure' /\ TonePlayed'
  <2>1. /\ ~stale /\ UNCHANGED <<handed, refused, answer>>
        /\ asked[t] = "none" /\ asked' = [asked EXCEPT ![t] = k]
    BY <1>1 DEF OnRequest, Issue
  <2>2. \A u \in Token : answer[u] = "SUCCESS" => asked'[u] = asked[u]
    BY <2>1 DEF TypeInv, QueueInv
  <2>3. Structure'
    BY <1>0, <1>1, <2>1, IssueStructure
  <2>4. TonePlayed'
    BY <1>0, <2>1, <2>2, PlayedKeeps
  <2> QED
    BY <2>3, <2>4
<1>2. ASSUME NEW i \in 1 .. Len(requests),
             \/ Replace(i) \/ DtmfStart(i) \/ DtmfBurst(i) \/ PlayFails(i)
             \/ DtmfStop(i) \/ DtmfStopFails(i)
      PROVE  Structure' /\ TonePlayed'
  <2>1. stale' = stale
    BY <1>2 DEF Replace, DtmfStart, DtmfBurst, PlayFails, DtmfStop, DtmfStopFails,
                Send, CompleteNow
  <2> QED
    BY <1>0, <1>2, <2>1, PlayedRequest
<1>3. ASSUME NEW c \in wire, NEW C, Receive(c, C)
      PROVE  ~stale /\ ~c.old
  BY <1>3 DEF Receive, ReceiveState
<1>4. ASSUME NEW c \in wire, ContDtmfCallback(c)
      PROVE  Structure' /\ TonePlayed'
  BY <1>0, <1>3, <1>4, PlayedCallback DEF ContDtmfCallback
<1>5. ASSUME NEW c \in wire, ContDtmfCallbackFails(c) \/ ContDtmfCallbackRefused(c)
      PROVE  Structure' /\ TonePlayed'
  <2>1. ~stale /\ ~c.old
    BY <1>3, <1>5 DEF ContDtmfCallbackFails, ContDtmfCallbackRefused
  <2> QED
    BY <1>0, <1>5, <2>1, PlayedCallbackFails
<1>6. ASSUME NEW c \in wire, ContDtmfResponse(c) \/ Refused(c) \/ BurstDtmf(c)
      PROVE  Structure' /\ TonePlayed'
  <2>1. ~stale /\ ~c.old
    BY <1>3, <1>6 DEF ContDtmfResponse, Refused, BurstDtmf, GenResponse
  <2> QED
    BY <1>0, <1>6, <2>1, PlayedAnswer
<1>7. CASE Outage
  <2>1. QueueInv /\ requests \in Seq(Request) /\ wire \subseteq Command /\ QueueOutage
    BY <1>7 DEF TypeInv, TypeOK, Outage
  <2>2. /\ requests' = <<>> /\ expects' = <<>> /\ seq' = 0
        /\ \A c \in wire' : c.old
        /\ \A t \in Token : answer'[t] = "RADIO_NOT_AVAILABLE" \/ answer'[t] = answer[t]
    BY <2>1, OutageKeeps, Shapes
  <2>3. /\ dtmfData' = <<>> /\ UNCHANGED <<handed, refused, asked>> /\ ~stale
    BY <1>7, <2>1 DEF Outage, QueueOutage
  <2>4. Numbers' /\ NothingStored'
    BY <2>2, <2>3 DEF Numbers, NothingStored
  <2>5. Structure'
    BY <2>2, <2>4, NothingWaits DEF TypeInv, TypeOK
  <2>6. TonePlayed'
    BY <1>0, <2>2, <2>3, PlayedKeeps
  <2> QED
    BY <2>5, <2>6
<1>8. ASSUME ~stale, UNCHANGED <<requests, seq, expects, wire, asked, answer>>,
             UNCHANGED <<dataVars, histVars>>
      PROVE  Structure' /\ TonePlayed'
  BY <1>0, <1>8 DEF Structure, OneHandled, Handled, Numbers, CallbackWaits, CommandsTell,
     NothingStored, StoredTone, HandedTone, TonePlayed, Successes, StopCommand
<1>9. CASE RadioChange
  BY <1>8, <1>9 DEF RadioChange, RadioState
<1>10. CASE UNCHANGED vars
  BY <1>8, <1>10 DEF vars, queueVars
<1> QED
  BY <1>1, <1>2, <1>4, <1>5, <1>6, <1>7, <1>9, <1>10 DEF Next

-----------------------------------------------------------------------------
(* The tone registered as playing.                                         *)

\* As long as nothing has failed, the one command that may be on its way leads
\* to the tone that is registered.
OneCommand ==
    /\ \A c, d \in wire : c = d
    /\ \A c \in wire : Follows(c)
    /\ wire = {} => playing = Registered

LEMMA FollowedInit == Init => FollowedInv
BY DEF Init, QueueInit, FollowedInv, Registered

\* A handler sends the only command.
LEMMA FollowedRequest ==
    ASSUME TypeInv, Structure, OneCommand, \A c \in wire : ~c.old,
           NEW i \in 1 .. Len(requests),
           \/ Replace(i) \/ DtmfStart(i) \/ DtmfBurst(i) \/ PlayFails(i)
           \/ DtmfStop(i) \/ DtmfStopFails(i)
    PROVE  failed' \/ OneCommand'
<1> USE DEF dataVars, histVars
<1>0. /\ requests \in Seq(Request) /\ expects \in Seq(Expect) /\ seq \in Nat
      /\ QueueInv /\ TypeOK
  BY DEF TypeInv, TypeOK, Expect, QueueInv
<1>1. Dispatched(i, Ready)
  BY DEF Replace, DtmfStart, DtmfBurst, PlayFails, DtmfStop, DtmfStopFails
<1>2. \A j \in 1 .. Len(requests) : requests[j].seq = 0
  BY <1>1, NoneHandled
<1>3. wire = {} /\ playing = Registered
  <2>1. ASSUME NEW c \in wire
        PROVE  FALSE
    <3>1. c.seq \in 1 .. seq
      BY DEF Structure, Numbers
    <3>2. \E j \in 1 .. Len(requests) : requests[j].seq = c.seq
      BY DEF OneCommand, Follows
    <3> QED
      BY <1>0, <1>2, <3>1, <3>2
  <2> QED
    BY <2>1 DEF OneCommand
<1>4. ASSUME NEW c, c.seq = seq + 1, NEW m, Send(i, c, Expecting(c, m)),
             \/ c = StopCommand(c.seq) /\ (startData' = <<>> \/ m = "callback")
             \/ c.cmd = "CONT_DTMF" /\ startData' = <<c.tone>>
             \/ c.cmd = "BURST_DTMF" /\ playing' = Registered'
      PROVE  OneCommand'
  <2>1. wire' = {c} /\ expects' = expects \o Expecting(c, m)
    BY <1>3, <1>4 DEF Send
  <2>2. i \in 1 .. Len(requests') /\ requests'[i].seq = c.seq
    BY <1>0, <1>4, SendKeeps, Shapes
  <2>3. m = "callback" => Pending(c.seq)'
    <3> DEFINE e == [seq |-> c.seq, cmd |-> c.cmd, mode |-> m]
    <3>1. e.seq = c.seq /\ e.mode = m
      OBVIOUS
    <3>2. expects' = expects \o <<e>>
      BY <2>1 DEF Expecting
    <3> HIDE DEF e
    <3>3. Len(expects) + 1 \in 1 .. Len(expects') /\ expects'[Len(expects) + 1] = e
      BY <1>0, <3>2
    <3> QED
      BY <3>1, <3>3 DEF Pending
  <2>4. Follows(c)'
    BY <1>4, <2>2, <2>3 DEF Follows
  <2> QED
    BY <2>1, <2>4 DEF OneCommand
<1>5. CASE Replace(i)
  <2>1. Send(i, StopCommand(seq + 1), Expecting(StopCommand(seq + 1), "callback"))
    BY <1>5 DEF Replace
  <2>2. StopCommand(seq + 1).seq = seq + 1
    BY DEF StopCommand
  <2> QED
    BY <1>4, <2>1, <2>2
<1>6. CASE DtmfStart(i)
  <2> DEFINE c == StartCommand(seq + 1, requests[i].token)
  <2>1. c.seq = seq + 1 /\ c.cmd = "CONT_DTMF" /\ c.tone = requests[i].token
    BY DEF StartCommand
  <2>2. Send(i, c, Expecting(c, "complete")) /\ startData' = <<requests[i].token>>
    BY <1>6 DEF DtmfStart
  <2> HIDE DEF c
  <2> QED
    BY <1>4, <2>1, <2>2
<1>7. CASE DtmfBurst(i)
  <2> DEFINE c == BurstCommand(seq + 1, requests[i].token)
  <2>1. c.seq = seq + 1 /\ c.cmd = "BURST_DTMF"
    BY DEF BurstCommand
  <2>2. Send(i, c, Expecting(c, "abort")) /\ UNCHANGED <<playing, startData>>
    BY <1>7 DEF DtmfBurst
  <2>3. playing' = Registered'
    BY <1>3, <2>2 DEF Registered
  <2> HIDE DEF c
  <2> QED
    BY <1>4, <2>1, <2>2, <2>3
<1>8. CASE DtmfStop(i)
  <2>1. Send(i, StopCommand(seq + 1), Expecting(StopCommand(seq + 1), "complete"))
    BY <1>8 DEF DtmfStop
  <2>2. StopCommand(seq + 1).seq = seq + 1
    BY DEF StopCommand
  <2>3. startData' = <<>>
    BY <1>0, <1>8, OneTone DEF DtmfStop
  <2> QED
    BY <1>4, <2>1, <2>2, <2>3
<1>9. CASE PlayFails(i) \/ DtmfStopFails(i)
  <2>1. failed' \/ UNCHANGED <<startData, playing>>
    BY <1>9 DEF PlayFails, DtmfStopFails
  <2>2. wire' = wire
    BY <1>9 DEF PlayFails, DtmfStopFails, CompleteNow
  <2> QED
    BY <1>3, <2>1, <2>2 DEF OneCommand, Registered
<1> QED
  BY <1>5, <1>6, <1>7, <1>8, <1>9

\* After a stop for which the callback waits, one tone is sent.
LEMMA FollowedCallback ==
    ASSUME TypeInv, Structure, OneCommand, ~refused, NEW c \in wire, ~c.old,
           ContDtmfCallback(c)
    PROVE  OneCommand'
<1>0. requests \in Seq(Request) /\ TypeOK
  BY DEF TypeInv, TypeOK
<1>1. c = StopCommand(c.seq)
  BY CallbackFound DEF ContDtmfCallback
<1>2. PICK i \in 1 .. Len(requests) : requests[i].seq = c.seq /\ StoredTone(i)
  BY CallbackFound DEF ContDtmfCallback
<1>3. requests[i].kind \in {"DTMF", "DTMF_START"}
  <2>1. requests[i] \in Request
    BY <1>0
  <2> QED
    BY <1>2, <2>1 DEF Request, Kind, StoredTone
<1>4. /\ requests' = requests /\ wire' = (wire \ {c}) \cup (Restart(c) \cup Burst(c))
      /\ startData' = Reregistered /\ Plays(c)
  BY DEF ContDtmfCallback, Receive, ReceiveState
<1>5. startData' = startData
  BY <1>0, <1>4, OneTone
<1>6. wire \ {c} = {} /\ playing' = None
  BY <1>1, <1>4 DEF OneCommand, Plays, StopCommand
<1>7. ASSUME NEW t, startData = <<t>>, dtmfData = <<>>
      PROVE  OneCommand'
  <2>1. Got(startData) = {t} /\ Got(dtmfData) = {}
    BY <1>7 DEF Got
  <2>2. wire' = {StartCommand(c.seq, t)}
    BY <1>4, <1>6, <2>1 DEF Restart, Burst
  <2>3. /\ StartCommand(c.seq, t).seq = c.seq /\ StartCommand(c.seq, t).tone = t
        /\ StartCommand(c.seq, t).cmd = "CONT_DTMF"
    BY DEF StartCommand
  <2>4. Follows(StartCommand(c.seq, t))'
    BY <1>2, <1>4, <1>5, <1>7, <2>3 DEF Follows
  <2> QED
    BY <2>2, <2>4 DEF OneCommand
<1>8. ASSUME NEW t, startData = <<>>, dtmfData = <<t>>
      PROVE  OneCommand'
  <2>1. Got(startData) = {} /\ Got(dtmfData) = {t}
    BY <1>8 DEF Got
  <2>2. wire' = {BurstCommand(c.seq, t)}
    BY <1>4, <1>6, <2>1 DEF Restart, Burst
  <2>3. /\ BurstCommand(c.seq, t).seq = c.seq
        /\ BurstCommand(c.seq, t).cmd = "BURST_DTMF"
    BY DEF BurstCommand
  <2>4. playing' = Registered'
    BY <1>5, <1>6, <1>8 DEF Registered
  <2>5. Follows(BurstCommand(c.seq, t))'
    BY <1>2, <1>4, <2>3, <2>4 DEF Follows
  <2> QED
    BY <2>2, <2>5 DEF OneCommand
<1> QED
  BY <1>2, <1>3, <1>7, <1>8 DEF StoredTone

\* When its answer is in, the tone that plays is the one that is registered.
LEMMA FollowedAnswer ==
    ASSUME TypeInv, Structure, OneCommand, NEW c \in wire, ~c.old,
           ContDtmfResponse(c) \/ BurstDtmf(c)
    PROVE  OneCommand'
<1> USE DEF dataVars, histVars
<1>0. expects \in Seq(Expect)
  BY DEF TypeInv, TypeOK, Expect
<1>1. wire' = {} /\ UNCHANGED startData
  BY DEF OneCommand, ContDtmfResponse, BurstDtmf, GenResponse, Receive, ReceiveState
<1>2. CASE BurstDtmf(c)
  <2>1. c.cmd = "BURST_DTMF" /\ playing' = playing
    BY <1>2 DEF BurstDtmf
  <2>2. playing = Registered
    BY <2>1 DEF OneCommand, Follows, StopCommand
  <2> QED
    BY <1>1, <2>1, <2>2 DEF OneCommand, Registered
<1>3. CASE ContDtmfResponse(c)
  <2>1. c.cmd = "CONT_DTMF" /\ playing' = c.tone
    BY <1>3 DEF ContDtmfResponse, Plays
  <2>2. Mode(c) \in {"ignore", "complete", "abort"}
    BY <1>3 DEF ContDtmfResponse, GenResponse
  <2>3. ~Pending(c.seq)
    <3> SUFFICES ASSUME NEW n \in 1 .. Len(expects), expects[n].seq = c.seq,
                        expects[n].mode = "callback"
                 PROVE  FALSE
      BY DEF Pending
    <3>1. \A m \in 1 .. Len(expects) : expects[m].seq = c.seq => m = n
      BY DEF Structure, CallbackWaits
    <3>2. Numbered(expects, c.seq) # {}
      BY DEF Numbered
    <3>3. First(expects, c.seq) = n
      BY <1>0, <3>1, <3>2, FirstNumbered
    <3> QED
      BY <2>2, <3>2, <3>3 DEF Mode
  <2>4. \/ c = StopCommand(c.seq) /\ startData = <<>>
        \/ startData = <<c.tone>>
    BY <2>1, <2>3 DEF OneCommand, Follows
  <2>5. c.tone = Registered
    <3>1. StopCommand(c.seq).tone = None
      BY DEF StopCommand
    <3>2. startData = <<c.tone>> => startData # <<>> /\ Head(startData) = c.tone
      OBVIOUS
    <3> QED
      BY <2>4, <3>1, <3>2 DEF Registered
  <2> QED
    BY <1>1, <2>1, <2>5 DEF OneCommand, Registered
<1> QED
  BY <1>2, <1>3

LEMMA FollowedStep ==
    ASSUME TypeInv, PlayedInv, FollowedInv, [Next]_vars
    PROVE  FollowedInv'
<1> USE DEF dataVars, histVars
<1> DEFINE Fine == outages = 0 => ~stale /\ \A c \in wire : ~c.old
           Good == ~refused /\ ~failed /\ outages = 0 => OneCommand
<1>0. FollowedInv <=> Fine /\ Good
  BY DEF FollowedInv, OneCommand
<1>a. FollowedInv' <=> Fine' /\ Good'
  BY DEF FollowedInv, OneCommand
<1>b. outages \in Nat /\ requests \in Seq(Request) /\ TypeOK
  BY DEF TypeInv, TypeOK
<1>c. outages = 0 => Structure
  BY <1>0 DEF PlayedInv
<1>1. ASSUME NEW t \in Token, NEW k \in Kind, OnRequest(t, k)
      PROVE  FollowedInv'
  <2> DEFINE r == [token |-> t, kind |-> k, seq |-> 0]
  <2>1. /\ UNCHANGED <<outages, stale, wire, expects, startData, playing, refused, failed>>
        /\ requests' = Append(requests, r)
    BY <1>1 DEF OnRequest, Issue
  <2> HIDE DEF r
  <2>2. \A i \in 1 .. Len(requests) :
           i \in 1 .. Len(requests') /\ requests'[i] = requests[i]
    BY <1>b, <2>1
  <2>3. \A c : Follows(c) => Follows(c)'
    BY <2>1, <2>2 DEF Follows, Pending, Registered
  <2>4. OneCommand => OneCommand'
    BY <2>1, <2>3 DEF OneCommand, Registered
  <2> QED
    BY <1>0, <1>a, <2>1, <2>4
<1>2. ASSUME NEW i \in 1 .. Len(requests),
             \/ Replace(i) \/ DtmfStart(i) \/ DtmfBurst(i) \/ PlayFails(i)
             \/ DtmfStop(i) \/ DtmfStopFails(i)
      PROVE  FollowedInv'
  <2>1. /\ UNCHANGED <<outages, stale, refused>> /\ (failed => failed')
        /\ \A c \in wire' : c \in wire \/ ~c.old
    <3>1. ASSUME NEW d, ~d.old, NEW E, Send(i, d, E)
          PROVE  UNCHANGED <<outages, stale>> /\ \A c \in wire' : c \in wire \/ ~c.old
      BY <3>1 DEF Send
    <3>2. /\ ~StopCommand(seq + 1).old
          /\ ~StartCommand(seq + 1, requests[i].token).old
          /\ ~BurstCommand(seq + 1, requests[i].token).old
      BY DEF StopCommand, StartCommand, BurstCommand
    <3>3. CASE Replace(i) \/ DtmfStop(i)
      <4>1. \E E : Send(i, StopCommand(seq + 1), E)
        BY <3>3 DEF Replace, DtmfStop
      <4>2. UNCHANGED <<refused, failed>>
        BY <3>3 DEF Replace, DtmfStop
      <4> QED
        BY <3>1, <3>2, <4>1, <4>2
    <3>4. CASE DtmfStart(i)
      <4>1. \E E : Send(i, StartCommand(seq + 1, requests[i].token), E)
        BY <3>4 DEF DtmfStart
      <4>2. UNCHANGED <<refused, failed>>
        BY <3>4 DEF DtmfStart
      <4> QED
        BY <3>1, <3>2, <4>1, <4>2
    <3>5. CASE DtmfBurst(i)
      <4>1. \E E : Send(i, BurstCommand(seq + 1, requests[i].token), E)
        BY <3>5 DEF DtmfBurst
      <4>2. UNCHANGED <<refused, failed>>
        BY <3>5 DEF DtmfBurst
      <4> QED
        BY <3>1, <3>2, <4>1, <4>2
    <3>6. CASE PlayFails(i) \/ DtmfStopFails(i)
      <4>1. CompleteNow(i, "GENERIC_FAILURE")
        BY <3>6 DEF PlayFails, DtmfStopFails
      <4>2. UNCHANGED <<outages, stale, wire>>
        BY <4>1 DEF CompleteNow
      <4>3. UNCHANGED refused /\ (failed => failed')
        BY <3>6 DEF PlayFails, DtmfStopFails
      <4> QED
        BY <4>2, <4>3
    <3> QED
      BY <1>2, <3>3, <3>4, <3>5, <3>6
  <2>2. Fine'
    BY <1>0, <2>1
  <2>3. Good'
    BY <1>0, <1>2, <1>c, <2>1, FollowedRequest
  <2> QED
    BY <1>a, <2>2, <2>3
<1>3. ASSUME NEW c \in wire, NEW C, Receive(c, C), \A d \in C : ~d.old
      PROVE  /\ outages' = outages /\ Fine'
             /\ outages = 0 => ~c.old
  BY <1>0, <1>3 DEF Receive, ReceiveState
<1>4. ASSUME NEW c \in wire
      PROVE  /\ \A d \in {} : ~d.old
             /\ \A d \in Restart(c) \cup Burst(c) : ~d.old
  BY DEF Restart, Burst, StartCommand, BurstCommand
<1>5. ASSUME NEW c \in wire, ContDtmfCallback(c)
      PROVE  FollowedInv'
  <2>1. outages' = outages /\ Fine' /\ (outages = 0 => ~c.old)
    BY <1>3, <1>4, <1>5 DEF ContDtmfCallback
  <2>2. UNCHANGED <<refused, failed>>
    BY <1>5 DEF ContDtmfCallback
  <2>3. Good'
    BY <1>0, <1>5, <1>c, <2>1, <2>2, FollowedCallback
  <2> QED
    BY <1>a, <2>1, <2>3
<1>6. ASSUME NEW c \in wire,
             ContDtmfCallbackFails(c) \/ ContDtmfCallbackRefused(c) \/ Refused(c)
      PROVE  FollowedInv'
  <2>1. failed' \/ refused'
    BY <1>6 DEF ContDtmfCallbackFails, ContDtmfCallbackRefused, Refused
  <2>2. Receive(c, {}) \/ Receive(c, Restart(c))
    BY <1>6 DEF ContDtmfCallbackFails, ContDtmfCallbackRefused, Refused, GenResponse
  <2>3. Fine'
    BY <1>3, <1>4, <2>2
  <2> QED
    BY <1>a, <2>1, <2>3
<1>7. ASSUME NEW c \in wire, ContDtmfResponse(c) \/ BurstDtmf(c)
      PROVE  FollowedInv'
  <2>1. Receive(c, {}) /\ UNCHANGED <<refused, failed>>
    BY <1>7 DEF ContDtmfResponse, BurstDtmf, GenResponse
  <2>2. outages' = outages /\ Fine' /\ (outages = 0 => ~c.old)
    BY <1>3, <1>4, <2>1
  <2>3. Good'
    BY <1>0, <1>7, <1>c, <2>1, <2>2, FollowedAnswer
  <2> QED
    BY <1>a, <2>2, <2>3
<1>8. CASE Outage
  <2>1. outages' # 0
    BY <1>8, <1>b DEF Outage, QueueOutage
  <2> QED
    BY <1>a, <2>1
<1>9. ASSUME UNCHANGED <<requests, expects, wire, outages, stale, startData, playing,
                         refused, failed>>
      PROVE  FollowedInv'
  BY <1>9 DEF FollowedInv, Follows, Pending, Registered, StopCommand
<1>10. CASE RadioChange
  BY <1>9, <1>10 DEF RadioChange, RadioState
<1>11. CASE UNCHANGED vars
  BY <1>9, <1>11 DEF vars, queueVars
<1> QED
  BY <1>1, <1>2, <1>5, <1>6, <1>7, <1>8, <1>10, <1>11 DEF Next

\* What the two invariants say of the tones
LEMMA TonesHold == PlayedInv /\ FollowedInv => TonePlayed /\ ToneRegistered
BY DEF PlayedInv, FollowedInv, TonePlayed, ToneRegistered, Registered
=============================================================================
