------------------------------ MODULE Handlers -------------------------------
(***************************************************************************)
(* The handlers of samsung-ril that keep data between two messages of the  *)
(* modem, one at a time: each is a component over its own view of the      *)
(* request queue (QueueView).  A behaviour is one of one component; the    *)
(* variables of the others have no value.                                  *)
(***************************************************************************)
EXTENDS QueueView, TLC

CONSTANTS
    Parts,       \* the components of the run
    SmsKind,     \* the kinds of request libril issues to send messages
    OwnSmsc, Smsc, MaxIncoming,              \* of Sms
    SimKind,     \* the kinds of request for the SIM
    Pin, MaxTries, MaxReports,               \* of Sim
    Call,                                    \* of Calls
    MaxChanges,                              \* of Network
    MaxQueries                               \* of Sim and Network

VARIABLES
    part,  \* the component this behaviour is of
    \* The state of the components, by their own names.
    sendData, ackData, sent, shown, reports, startData, dtmfData, handed, playing, refused,
    failed, hangup, cause, calls, given, data, state, base, simPin, card, verdict, ignored

vars ==
    <<part, radio, requests, seq, expects, wire, asked, answer, outages, stale, sendData,
      ackData, sent, shown, reports, startData, dtmfData, handed, playing, refused, failed,
      hangup, cause, calls, given, data, state, base, simPin, card, verdict, ignored>>

Messages == INSTANCE SmsProofs WITH Kind <- SmsKind
Tones == INSTANCE Dtmf
Hangups == INSTANCE Calls
Registration == INSTANCE Network
Serials == INSTANCE Identity
Card == INSTANCE Sim WITH Kind <- SimKind

ASSUME HandlersAssumption ==
    /\ Messages!SmsAssumption /\ Card!SimAssumption
    /\ Hangups!CallsAssumption /\ Registration!NetworkAssumption
    /\ Parts \subseteq {"sms", "dtmf", "calls", "network", "identity", "sim"}

\* The variables of the other components have no value.
Idle ==
    /\ part # "sms" =>
         sendData = None /\ ackData = None /\ sent = None /\ shown = None
    /\ part \notin {"sms", "sim"} =>
         reports = None
    /\ part # "dtmf" =>
         startData = None /\ dtmfData = None /\ handed = None /\ playing = None
         /\ failed = None
    /\ part \notin {"dtmf", "identity"} =>
         refused = None
    /\ part # "calls" =>
         hangup = None /\ cause = None /\ calls = None
    /\ part \notin {"calls", "network"} =>
         given = None
    /\ part \notin {"network", "sim"} =>
         data = None
    /\ part # "network" =>
         state = None /\ base = None
    /\ part # "sim" =>
         simPin = None /\ card = None /\ verdict = None /\ ignored = None

\* They keep having none.
Still ==
    /\ part # "sms" =>
         UNCHANGED <<sendData, ackData, sent, shown>>
    /\ part \notin {"sms", "sim"} =>
         UNCHANGED reports
    /\ part # "dtmf" =>
         UNCHANGED <<startData, dtmfData, handed, playing, failed>>
    /\ part \notin {"dtmf", "identity"} =>
         UNCHANGED refused
    /\ part # "calls" =>
         UNCHANGED <<hangup, cause, calls>>
    /\ part \notin {"calls", "network"} =>
         UNCHANGED given
    /\ part \notin {"network", "sim"} =>
         UNCHANGED data
    /\ part # "network" =>
         UNCHANGED <<state, base>>
    /\ part # "sim" =>
         UNCHANGED <<simPin, card, verdict, ignored>>

Init ==
    /\ part \in Parts
    /\ part = "sms" => Messages!Init
    /\ part = "dtmf" => Tones!Init
    /\ part = "calls" => Hangups!Init
    /\ part = "network" => Registration!Init
    /\ part = "identity" => Serials!Init
    /\ part = "sim" => Card!Init
    /\ Idle

Next ==
    /\ \/ part = "sms" /\ Messages!Next
       \/ part = "dtmf" /\ Tones!Next
       \/ part = "calls" /\ Hangups!Next
       \/ part = "network" /\ Registration!Next
       \/ part = "identity" /\ Serials!Next
       \/ part = "sim" /\ Card!Next
    /\ UNCHANGED part /\ Still

Spec == Init /\ [][Next]_vars

-----------------------------------------------------------------------------
(* Properties.                                                             *)

\* The variables of the component have their types.
TypeOK ==
    /\ part = "sms" => Messages!TypeOK
    /\ part = "dtmf" => Tones!TypeOK
    /\ part = "calls" => Hangups!TypeOK
    /\ part = "network" => Registration!TypeOK
    /\ part = "identity" => Serials!TypeOK
    /\ part = "sim" => Card!TypeOK

\* With requests of one kind only, and as long as no answer from before a
\* restart of the modem comes in, PDU and request find together again: success
\* is reported for messages that were sent, and "retry" only for messages that
\* were not.
StoredPduMatches ==
    part = "sms" => Messages!StoredPduMatches

\* No incoming message is acknowledged twice or out of order, whichever
\* messages, acknowledgements and outages come in between.
ReportedOnce ==
    part = "sms" => Messages!ReportedOnce

\* A tone reported as played was handed to the modem, whatever was playing,
\* failed to be sent or was lost in an outage before; and as long as nothing
\* fails, the tone registered as playing is the one that plays whenever the
\* modem has nothing to do: none is left playing with nobody to stop it.
TonesFollowed ==
    part = "dtmf" => Tones!TonePlayed /\ Tones!ToneRegistered

\* The cause of a call is given once, to one query, whatever is hung up and
\* asked for in between.
CauseOnce ==
    part = "calls" => Hangups!CauseOnce

\* A query of the serial number that waits, with a number or without, waits for
\* a command that the modem has: the one it relies on was not answered before
\* it was queued.
SerialWaits ==
    part = "identity" => Serials!SerialWaits

\* The lock is set and the file accessed only after the card has accepted the
\* PIN2 of that very request, although the command waits in a slot that all
\* requests of the kind share; and a handled SIM request that nobody will answer
\* any more got there in one of the ways sim.c and samsung-ril.c leave open: its
\* answer was dropped below SIM_NOT_READY, refused where nothing expects it,
\* used to enter the stored PIN (sim.c:226-248), or its stored verdict went to
\* another request.  Both hold until an answer from before an outage comes in.
CardAsked ==
    part = "sim" => Card!Pin2Accepted /\ Card!HandledWaits

\* A query of the registration or the operator is never answered with a state
\* from before the last outage, also when states were kept or a query was under
\* way when it happened.
FreshAfterOutage ==
    [][part = "network" => Registration!FreshAfterOutage]_vars

\* For TLC: nothing depends on the names of tokens, of PINs and of calls.
Symmetry ==
    Permutations(Token) \cup Permutations(Pin) \cup Permutations(Call)
==============================================================================
