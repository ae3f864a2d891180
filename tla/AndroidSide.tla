----------------------------- MODULE AndroidSide -----------------------------
(***************************************************************************)
(* The Android side of the RIL, one component at a time: the service mode and*)
(* the clients of samsung-ril, its SRS server, libril with its event loop and*)
(* its conversions, the libril of older RILs, and SamsungRIL.java.  A behaviour*)
(* is one of one component; the variables of the others have no value.     *)
(***************************************************************************)
EXTENDS Naturals, Sequences, SequencesExt

CONSTANTS
    None,  \* no value
    Parts  \* the components of the run

VARIABLES
    part,  \* the component this behaviour is of
    \* The state of the components, by their own names.
    issued, requests, expects, svcSession, stored, toModem, fromModem, inService, screens,
    refreshes, outages, received, answers, modem, inbox, pc, failures, available, event,
    sending, radio, init, tries, cur, ends, sfd, watch, sevent, clients, fds, ready, msg,
    backlog, open, peer, sent, stream, applied, pongs, mRequestsList, socket, told, status,
    proactive, mCatProCmdRegistrant, mCatProCmdBuffer, cat, receiver, registering, count,
    listening, fd, watched, bad, disp, pending, cancelled, held, thread, clock, nitz, issuer,
    missed, dead, table, readFds, rfds, until, timers, now, adding, inputs, fired, libril, heap, faults,
    seen, abandoned, refused, written, asked, call, answer, pinState, lock, meant, dataCallList,
    given, decoded, changes, due, voiceRadioTech, cdmaSubscriptionSource, simRuimStatus, conn,
    sessions, made, local

vars ==
    <<part, issued, requests, expects, svcSession, stored, toModem, fromModem, inService,
      screens, refreshes, outages, received, answers, modem, inbox, pc, failures, available,
      event, sending, radio, init, tries, cur, ends, sfd, watch, sevent, clients, fds, ready,
      msg, backlog, open, peer, sent, stream, applied, pongs, mRequestsList, socket, told,
      status, proactive, mCatProCmdRegistrant, mCatProCmdBuffer, cat, receiver, registering,
      count, listening, fd, watched, bad, disp, pending, cancelled, held, thread, clock, nitz,
      issuer, missed, dead, table, readFds, rfds, until, timers, now, adding, inputs, fired, libril,
      heap, faults, seen, abandoned, refused, written, asked, call, answer, pinState, lock,
      meant, dataCallList, given, decoded, changes, due, voiceRadioTech, cdmaSubscriptionSource,
      simRuimStatus, conn, sessions, made, local>>

Hook == INSTANCE OemHook WITH Run <- "safety"
HookLive == INSTANCE OemHook WITH Run <- "progress"
Both == INSTANCE Clients WITH Run <- "safety"
Retry == INSTANCE Clients WITH Run <- "progress"
Server == INSTANCE Srs WITH Run <- "safety"
Serves == INSTANCE Srs WITH Run <- "progress"
Java == INSTANCE JavaRil WITH Run <- "safety"
JavaLive == INSTANCE JavaRil WITH Run <- "progress"
Daemon == INSTANCE Libril WITH Run <- "safety"
Sockets == INSTANCE Libril WITH Run <- "further"
DaemonLive == INSTANCE Libril WITH Run <- "progress"
Loop == INSTANCE EventLoop WITH Run <- "safety"
LoopLive == INSTANCE EventLoop WITH Run <- "progress"
Memory == INSTANCE RequestMemory WITH Run <- "safety"
Fields == INSTANCE RequestMemory WITH Run <- "further"
Answers == INSTANCE Responses WITH Run <- "safety"
OwnAnswers == INSTANCE Responses WITH Run <- "further"
Dispatch == INSTANCE SamsungDispatch WITH Run <- "safety"
DispatchLive == INSTANCE SamsungDispatch WITH Run <- "progress"
Replies == INSTANCE SamsungAnswers WITH Run <- "safety"
Notices == INSTANCE SamsungAnswers WITH Run <- "further"
Radio == INSTANCE RadioState WITH Run <- "safety"
RadioThreads == INSTANCE RadioState WITH Run <- "further"
RadioLive == INSTANCE RadioState WITH Run <- "progress"

\* The parts of each component.
HookParts == {"service mode", "service mode ends"}
ClientParts == {"clients", "clients retry"}
SrsParts == {"srs", "srs serves"}
JavaParts == {"java", "java tells"}
LibrilParts == {"libril", "libril sockets", "libril ends"}
LoopParts == {"event loop", "event loop serves"}
MemoryParts == {"memory", "requests"}
ResponseParts == {"responses", "samsung responses"}
DispatchParts == {"dispatch", "dispatch ends"}
AnswerParts == {"answers", "reports"}
RadioParts == {"radio", "radio threads", "radio ends"}

\* The variables of the other components have no value.
Idle ==
    /\ part \notin HookParts =>
         issued = None /\ expects = None /\ svcSession = None /\ stored = None
         /\ toModem = None /\ fromModem = None /\ inService = None /\ screens = None
         /\ refreshes = None /\ outages = None /\ received = None
    /\ part \notin HookParts \cup JavaParts \cup MemoryParts =>
         requests = None
    /\ part \notin HookParts \cup LibrilParts \cup RadioParts =>
         answers = None
    /\ part \notin ClientParts =>
         modem = None /\ available = None /\ sending = None /\ init = None /\ tries = None
    /\ part \notin ClientParts \cup LibrilParts =>
         inbox = None
    /\ part \notin ClientParts \cup SrsParts \cup LoopParts =>
         pc = None
    /\ part \notin ClientParts \cup SrsParts =>
         failures = None /\ event = None
    /\ part \notin ClientParts \cup AnswerParts \cup RadioParts =>
         radio = None
    /\ part \notin SrsParts =>
         cur = None /\ ends = None /\ sfd = None /\ watch = None /\ sevent = None
         /\ clients = None /\ fds = None /\ msg = None /\ backlog = None /\ open = None
         /\ stream = None /\ applied = None /\ pongs = None
    /\ part \notin SrsParts \cup LoopParts =>
         ready = None
    /\ part \notin SrsParts \cup LibrilParts =>
         peer = None
    /\ part \notin SrsParts \cup ResponseParts =>
         sent = None
    /\ part \notin JavaParts =>
         mRequestsList = None /\ socket = None /\ status = None /\ proactive = None
         /\ mCatProCmdRegistrant = None /\ mCatProCmdBuffer = None /\ cat = None
         /\ receiver = None /\ registering = None
    /\ part \notin JavaParts \cup DispatchParts \cup AnswerParts \cup RadioParts =>
         told = None
    /\ part \notin LibrilParts =>
         count = None /\ listening = None /\ fd = None /\ watched = None /\ bad = None
         /\ disp = None /\ clock = None /\ nitz = None /\ issuer = None /\ missed = None
    /\ part \notin LibrilParts \cup LoopParts \cup MemoryParts \cup DispatchParts \cup RadioParts =>
         pending = None
    /\ part \notin LibrilParts \cup RadioParts =>
         cancelled = None /\ held = None /\ thread = None
    /\ part \notin LibrilParts \cup DispatchParts \cup RadioParts =>
         dead = None
    /\ part \notin LoopParts =>
         table = None /\ readFds = None /\ rfds = None /\ until = None /\ timers = None
         /\ now = None /\ adding = None /\ inputs = None /\ fired = None
    /\ part \notin MemoryParts =>
         libril = None /\ heap = None /\ faults = None /\ seen = None /\ abandoned = None
         /\ refused = None
    /\ part \notin ResponseParts \cup AnswerParts =>
         written = None
    /\ part \notin DispatchParts =>
         asked = None /\ call = None /\ answer = None /\ pinState = None /\ lock = None
    /\ part \notin AnswerParts =>
         meant = None /\ dataCallList = None /\ given = None /\ decoded = None
    /\ part \notin RadioParts =>
         changes = None /\ due = None /\ voiceRadioTech = None
         /\ cdmaSubscriptionSource = None /\ simRuimStatus = None /\ conn = None
         /\ sessions = None /\ made = None /\ local = None

\* They keep having none.
Still ==
    /\ part \notin HookParts =>
         UNCHANGED <<issued, expects, svcSession, stored, toModem, fromModem, inService,
           screens, refreshes, outages, received>>
    /\ part \notin HookParts \cup JavaParts \cup MemoryParts =>
         UNCHANGED requests
    /\ part \notin HookParts \cup LibrilParts \cup RadioParts =>
         UNCHANGED answers
    /\ part \notin ClientParts =>
         UNCHANGED <<modem, available, sending, init, tries>>
    /\ part \notin ClientParts \cup LibrilParts =>
         UNCHANGED inbox
    /\ part \notin ClientParts \cup SrsParts \cup LoopParts =>
         UNCHANGED pc
    /\ part \notin ClientParts \cup SrsParts =>
         UNCHANGED <<failures, event>>
    /\ part \notin ClientParts \cup AnswerParts \cup RadioParts =>
         UNCHANGED radio
    /\ part \notin SrsParts =>
         UNCHANGED <<cur, ends, sfd, watch, sevent, clients, fds, msg, backlog, open, stream,
           applied, pongs>>
    /\ part \notin SrsParts \cup LoopParts =>
         UNCHANGED ready
    /\ part \notin SrsParts \cup LibrilParts =>
         UNCHANGED peer
    /\ part \notin SrsParts \cup ResponseParts =>
         UNCHANGED sent
    /\ part \notin JavaParts =>
         UNCHANGED <<mRequestsList, socket, status, proactive, mCatProCmdRegistrant,
           mCatProCmdBuffer, cat, receiver, registering>>
    /\ part \notin JavaParts \cup DispatchParts \cup AnswerParts \cup RadioParts =>
         UNCHANGED told
    /\ part \notin LibrilParts =>
         UNCHANGED <<count, listening, fd, watched, bad, disp, clock, nitz, issuer, missed>>
    /\ part \notin LibrilParts \cup LoopParts \cup MemoryParts \cup DispatchParts \cup RadioParts =>
         UNCHANGED pending
    /\ part \notin LibrilParts \cup RadioParts =>
         UNCHANGED <<cancelled, held, thread>>
    /\ part \notin LibrilParts \cup DispatchParts \cup RadioParts =>
         UNCHANGED dead
    /\ part \notin LoopParts =>
         UNCHANGED <<table, readFds, rfds, until, timers, now, adding, inputs, fired>>
    /\ part \notin MemoryParts =>
         UNCHANGED <<libril, heap, faults, seen, abandoned, refused>>
    /\ part \notin ResponseParts \cup AnswerParts =>
         UNCHANGED written
    /\ part \notin DispatchParts =>
         UNCHANGED <<asked, call, answer, pinState, lock>>
    /\ part \notin AnswerParts =>
         UNCHANGED <<meant, dataCallList, given, decoded>>
    /\ part \notin RadioParts =>
         UNCHANGED <<changes, due, voiceRadioTech, cdmaSubscriptionSource, simRuimStatus, conn,
           sessions, made, local>>

Init ==
    /\ part \in Parts
    /\ part = "service mode" => Hook!Init
    /\ part = "service mode ends" => HookLive!Init
    /\ part = "clients" => Both!Init
    /\ part = "clients retry" => Retry!Init
    /\ part = "srs" => Server!Init
    /\ part = "srs serves" => Serves!Init
    /\ part = "java" => Java!Init
    /\ part = "java tells" => JavaLive!Init
    /\ part = "libril" => Daemon!Init
    /\ part = "libril sockets" => Sockets!Init
    /\ part = "libril ends" => DaemonLive!Init
    /\ part = "event loop" => Loop!Init
    /\ part = "event loop serves" => LoopLive!Init
    /\ part = "memory" => Memory!Init
    /\ part = "requests" => Fields!Init
    /\ part = "responses" => Answers!Init
    /\ part = "samsung responses" => OwnAnswers!Init
    /\ part = "dispatch" => Dispatch!Init
    /\ part = "dispatch ends" => DispatchLive!Init
    /\ part = "answers" => Replies!Init
    /\ part = "reports" => Notices!Init
    /\ part = "radio" => Radio!Init
    /\ part = "radio threads" => RadioThreads!Init
    /\ part = "radio ends" => RadioLive!Init
    /\ Idle

Next ==
    /\ \/ part = "service mode" /\ Hook!Next
       \/ part = "service mode ends" /\ HookLive!Next
       \/ part = "clients" /\ Both!Next
       \/ part = "clients retry" /\ Retry!Next
       \/ part = "srs" /\ Server!Next
       \/ part = "srs serves" /\ Serves!Next
       \/ part = "java" /\ Java!Next
       \/ part = "java tells" /\ JavaLive!Next
       \/ part = "libril" /\ Daemon!Next
       \/ part = "libril sockets" /\ Sockets!Next
       \/ part = "libril ends" /\ DaemonLive!Next
       \/ part = "event loop" /\ Loop!Next
       \/ part = "event loop serves" /\ LoopLive!Next
       \/ part = "memory" /\ Memory!Next
       \/ part = "requests" /\ Fields!Next
       \/ part = "responses" /\ Answers!Next
       \/ part = "samsung responses" /\ OwnAnswers!Next
       \/ part = "dispatch" /\ Dispatch!Next
       \/ part = "dispatch ends" /\ DispatchLive!Next
       \/ part = "answers" /\ Replies!Next
       \/ part = "reports" /\ Notices!Next
       \/ part = "radio" /\ Radio!Next
       \/ part = "radio threads" /\ RadioThreads!Next
       \/ part = "radio ends" /\ RadioLive!Next
    /\ UNCHANGED part /\ Still

Spec == Init /\ [][Next]_vars

\* The threads and loops run, and each of them gets its lock again and again;
\* polling the device of a modem that is off fails; the modem answers what it
\* is sent, and a RIL completes every request it was given.
FairSpec ==
    /\ Spec
    /\ WF_(HookLive!vars)(part = "service mode ends" /\ \E i \in DOMAIN requests : HookLive!Dispatch(i))
    /\ WF_(HookLive!vars)(part = "service mode ends" /\ HookLive!ModemTakes)
    /\ WF_(HookLive!vars)(part = "service mode ends" /\ HookLive!Receive)
    /\ WF_(Retry!vars)(part = "clients retry" /\ Retry!Create)
    /\ \A c \in Retry!Client : WF_(Retry!vars)(part = "clients retry" /\ Retry!InitStep(c))
    /\ \A c \in Retry!Client : SF_(Retry!vars)(part = "clients retry" /\ Retry!LoopStep(c))
    /\ \A c \in Retry!Client : SF_(Retry!vars)(part = "clients retry" /\ Retry!RetryStep(c))
    /\ \A c \in Retry!Client : SF_(Retry!vars)(part = "clients retry" /\ modem = "off" /\ Retry!PollFails(c))
    /\ \A c \in Retry!Client : WF_(Retry!vars)(part = "clients retry" /\ Retry!SendEvent(c))
    /\ WF_(Serves!vars)(part = "srs serves" /\ Serves!Running /\ Serves!LoopStep)
    /\ \A t \in Serves!Servers : WF_(Serves!vars)(part = "srs serves" /\ Serves!Running /\ Serves!ServerStep(t))
    /\ WF_(JavaLive!vars)(part = "java tells" /\ JavaLive!Receiver)
    /\ WF_(JavaLive!vars)(part = "java tells" /\ JavaLive!Registration)
    /\ \A serial \in 1 .. 2 : WF_(JavaLive!vars)(part = "java tells" /\ JavaLive!Answers(serial))
    /\ WF_(DaemonLive!vars)(part = "libril ends" /\ DaemonLive!Dispatch)
    /\ \A h \in DaemonLive!Thread : WF_(DaemonLive!vars)(part = "libril ends" /\ DaemonLive!Ril(h))
    /\ WF_(LoopLive!vars)(part = "event loop serves" /\ LoopLive!Loop)
    /\ WF_(LoopLive!vars)(part = "event loop serves" /\ LoopLive!Tick)
    /\ \A x \in LoopLive!Event \cup LoopLive!Timer : WF_(LoopLive!vars)(part = "event loop serves" /\ LoopLive!TriggerEvLoop(x))
    /\ \A t \in DispatchLive!Token : WF_(DispatchLive!vars)(part = "dispatch ends" /\ DispatchLive!Complete(t))
    /\ \A t \in RadioLive!Threads : WF_(RadioLive!vars)(part = "radio ends" /\ RadioLive!ReportStep(t))
    /\ WF_(RadioLive!vars)(part = "radio ends" /\ RadioLive!TimedReport)
    /\ WF_(RadioLive!vars)(part = "radio ends" /\ RadioLive!DispatchStep)
    /\ \A r \in RadioLive!Ids : WF_(RadioLive!vars)(part = "radio ends" /\ RadioLive!RilCompletes(r))

-----------------------------------------------------------------------------
(* Properties.                                                             *)

\* The variables of the component have their types.
TypeOK ==
    /\ part = "service mode" => Hook!TypeOK
    /\ part = "service mode ends" => HookLive!TypeOK
    /\ part = "clients" => Both!TypeOK
    /\ part = "clients retry" => Retry!TypeOK
    /\ part = "srs" => Server!TypeOK
    /\ part = "srs serves" => Serves!TypeOK
    /\ part = "java" => Java!TypeOK
    /\ part = "java tells" => JavaLive!TypeOK
    /\ part = "libril" => Daemon!TypeOK
    /\ part = "libril sockets" => Sockets!TypeOK
    /\ part = "libril ends" => DaemonLive!TypeOK
    /\ part = "event loop" => Loop!TypeOK
    /\ part = "event loop serves" => LoopLive!TypeOK
    /\ part = "memory" => Memory!TypeOK
    /\ part = "requests" => Fields!TypeOK
    /\ part = "responses" => Answers!TypeOK
    /\ part = "samsung responses" => OwnAnswers!TypeOK
    /\ part = "dispatch" => Dispatch!TypeOK
    /\ part = "dispatch ends" => DispatchLive!TypeOK
    /\ part = "answers" => Replies!TypeOK
    /\ part = "reports" => Notices!TypeOK
    /\ part = "radio" => Radio!TypeOK
    /\ part = "radio threads" => RadioThreads!TypeOK
    /\ part = "radio ends" => RadioLive!TypeOK

\* A request is answered at most once and not while it is still registered: by
\* the screen, the generic response or an outage in the service mode; by two
\* threads of the RIL in libril; by the dispatch function and the RIL in the
\* libril of one socket; to a caller of SamsungRIL.java.
AnsweredOnce ==
    /\ part = "service mode" => Hook!AnsweredOnce
    /\ part = "java" => Java!ToldOnce
    /\ part = "libril" => Daemon!AnsweredOnce
    /\ part = "radio" => Radio!AnsweredOnce
    /\ part = "radio threads" => RadioThreads!AnsweredOnce

\* Keys and queries show the display as it is: no screen is shown twice, and
\* the one kept for the next query is newer than all others that nobody has
\* seen.
NewestShown ==
    part = "service mode" => Hook!NewestShown

\* With no message under way, the library thinks there is a service session
\* exactly when the modem is in service mode.
SessionMatches ==
    part = "service mode" => Hook!SessionMatches

\* The radio is reported as present only while the FMT client is open and its
\* thread is in its loop, whatever the RFS client does to the modem.
PresentIsOpen ==
    part = "clients" => Both!PresentIsOpen

\* A command of an SRS client is carried out only after it was sent, at most
\* once, and in the order of its program, whatever happens to the threads and
\* the list of clients.
InOrder ==
    part = "srs" => Server!InOrder

\* A ping is answered on the connection it came from, whatever clients come and
\* go while it is dispatched.
PongToPinger ==
    part = "srs" => Server!PongToPinger

\* The listener for proactive commands gets no command twice, although the
\* receiver and the registration share the buffer.
CatOnce ==
    part = "java" => Java!CatOnce

\* A request that was still pending when its connection ended is not answered,
\* whatever the connections made since.
PendingIsCurrent ==
    part = "libril" => Daemon!PendingIsCurrent

\* An answer goes to the connection its request came from, but for one that a
\* thread was sending when that connection ended (ril.cpp:4124-4186: the request
\* has left the list that is marked, and the descriptor is read anew).
AnswersToIssuer ==
    part = "libril" => Daemon!AnswersToIssuer

\* The phone process can reach the daemon: a socket without a connection is
\* listened on, until the event loop finds a descriptor closed and the daemon
\* restarts.  Of two sockets the second is listened on for one connection only
\* (ril.cpp:3456 adds the event of the first).
Reachable ==
    /\ part = "libril" => Daemon!Reachable
    /\ part = "libril sockets" => Sockets!Reachable

\* Timers fire in the order of their times, whatever the order they were added
\* in, and none before its time.
TimersInOrder ==
    part = "event loop" => Loop!TimersInOrder

\* No handler or callback of samsung-ril uses or frees a string that libril has
\* freed, or will free, or that was freed before; and it uses a null pointer only
\* for the single string or the bytes of a request, and for the second string of
\* SET_FACILITY_LOCK, when the parcel lacks them.
NoStrayUse ==
    /\ part = "memory" => Memory!NoStrayUse
    /\ part = "requests" => Fields!NoStrayUse

\* A copied string stays allocated only while its request is registered and a
\* handler or a callback still has to take it; after that, only outages,
\* cancellations and early refusals leave strings behind.
Released ==
    part = "memory" => Memory!Released

\* A request never reaches the RIL with a number that was not in its parcel,
\* whichever read of the dispatch function failed.
NoFieldUnread ==
    part = "requests" => Fields!NoFieldUnread

\* The data of a request that is one string is registered whole: with its last
\* character and the zero byte behind it.
WholeString ==
    part = "requests" => Fields!WholeString

\* What libril passes on is large enough for the handler: no request is refused
\* for its size, but one of a single integer whose bytes read as a text.
AcceptedBySize ==
    /\ part = "memory" => Memory!AcceptedBySize
    /\ part = "requests" => Fields!AcceptedBySize

\* An answer reaches the phone as the structure the RIL meant, with all its
\* elements: no two structures that a request may be answered with are confused
\* because of their lengths.
ReadAsSent ==
    /\ part = "responses" => Answers!ReadAsSent
    /\ part = "samsung responses" => OwnAnswers!ReadAsSent

\* The phone never takes an answer for a success when the response function
\* could not read it.
NoSuccessUnread ==
    part = "samsung responses" => OwnAnswers!NoSuccessUnread

\* The RIL is asked for what the phone asked for, never for the request of
\* another row of s_commands, up to request 90: row 91 is missing.
OwnNumber ==
    part = "dispatch" => Dispatch!OwnNumber

\* A parcel, whole or cut, reaches the RIL, is answered or is dropped: no request
\* makes the daemon crash, but request 8, those of an empty row or behind the
\* table, and a query of a lock without its facility.
WholeIsSafe ==
    part = "dispatch" => Dispatch!WholeIsSafe

\* The PIN and lock requests reach the RIL in the order of the structures that
\* telephony/ril.h documents, with every string the phone sent.
AsDocumented ==
    part = "dispatch" => Dispatch!AsDocumented

\* A list that is written has as many elements as it announces, so that what
\* follows it in the parcel is read as what it is.
HeaderMatches ==
    part = "answers" => Replies!HeaderMatches

\* The phone never gets a signal strength other than 0 to 31, or 99 for
\* unknown; a strength that is one of these is left as it is.
SignalInRange ==
    part = "answers" => Replies!SignalInRange

\* The networks that were found are all there, each with its first four strings
\* in order.
NetworksKept ==
    part = "answers" => Replies!NetworksKept

\* The answer to a request carries what the RIL answered, as telephony/ril.h
\* documents it, with all of its integers; but those to the two queries of the
\* registration state are written without their strings (ril_commands.h:37-38).
AnswersCarryData ==
    /\ part = "answers" => Replies!IntsWritten
    /\ part = "answers" => Replies!AnswersCarryData

\* The address written for a data call is one the RIL has given for this call,
\* never another's.
AddressIsOwn ==
    part = "reports" => Notices!AddressIsOwn

\* A report is written, with the elements of its data, where the row of a
\* report is the one with its number.
ReportsArrive ==
    part = "reports" => Notices!ReportsArrive

\* Once nothing is under way, the current radio state is among those this
\* connection was told, whichever threads reported and however the connection
\* was made between a change and its report.
CurrentStateTold ==
    /\ part = "radio" => Radio!CurrentStateTold
    /\ part = "radio threads" => RadioThreads!CurrentStateTold

\* The radio state that was written last is the current one, unless one thread
\* read the state, another reported the change that followed, and the first
\* wrote its report after that: then the phone is left with the older state.
LastToldIsCurrent ==
    /\ part = "radio" => Radio!LastToldIsCurrent
    /\ part = "radio threads" => RadioThreads!LastToldIsCurrent

\* Reported from one thread, a phone process that was told a voice technology,
\* a CDMA subscription source or the status of the card was told the one that
\* goes with the current radio state.
TechAndCardKnown ==
    /\ part = "radio" => Radio!TechKnown
    /\ part = "radio" => Radio!SourceKnown
    /\ part = "radio" => Radio!CardKnown

\* A request is answered once, and to the one who made it, but for an answer
\* that a thread was sending when the connection ended; commands and timers are
\* served in order; no string of a request is used after it was freed, and only
\* outages, cancellations and early refusals leave strings behind; and a request
\* asks for what its number says and ends no daemon, but for those that
\* OwnNumber and WholeIsSafe name.
RequestsKept ==
    /\ AnsweredOnce /\ AnswersToIssuer /\ InOrder /\ PongToPinger /\ CatOnce
    /\ PendingIsCurrent /\ TimersInOrder /\ NoStrayUse /\ Released /\ OwnNumber
    /\ WholeIsSafe

\* What is read from a parcel is what was written to it: requests, answers and
\* reports carry what was given, as the other side lays it out, and a parcel
\* that cannot be read is no success; but for an integer taken for a text
\* (AcceptedBySize) and the registration states (AnswersCarryData).
DataCarried ==
    /\ NoFieldUnread /\ WholeString /\ AcceptedBySize /\ ReadAsSent
    /\ NoSuccessUnread /\ AsDocumented /\ HeaderMatches /\ SignalInRange
    /\ NetworksKept /\ AnswersCarryData /\ AddressIsOwn /\ ReportsArrive

\* What the phone was told or is shown is the state there is, but for a report of
\* the radio state that another thread's overtook, and it can ask for it, on
\* every socket but a second one whose first connection has ended.
StateShown ==
    /\ NewestShown /\ SessionMatches /\ PresentIsOpen /\ Reachable
    /\ CurrentStateTold /\ LastToldIsCurrent /\ TechAndCardKnown

\* A caller of SamsungRIL.java is told of an error as an error (but for a
\* message that was not sent), and never of an answer that could not be read as
\* of a success; and the lock of the SIM is answered as the phone last saw it in
\* a status of the SIM, whatever is asked and completed in between.
AnsweredTruly ==
    [][/\ part = "java" => Java!FailureReported
       /\ part = "dispatch ends" => DispatchLive!LockAsReported]_vars

\* Something that must end has begun: the n-th request; a modem switched off
\* under a client without failures; a radio state sent by an SRS client; a
\* connection of the phone process; input on a descriptor; a timer.
Begun(n) ==
    CASE part = "service mode ends" -> n \in DOMAIN issued
      [] part = "clients retry" -> n = 1 /\ modem = "off" /\ failures["FMT"] = 0
                                   /\ pc["FMT"] \notin {"none", "created"}
      [] part = "srs serves" -> n = 1 /\ sent["p1"] = 1
      [] part = "java tells" -> n \in DOMAIN requests
      [] part = "libril ends" -> IF n = 1 THEN peer[1] # 0 /\ fd[1] # peer[1] ELSE "r1" \in held
      [] part = "event loop serves" -> IF n = 1 THEN LoopLive!Unserved # {} ELSE adding["x1"] # "new"
      [] part = "dispatch ends" -> DispatchLive!Asked(IF n = 1 THEN "t1" ELSE "t2")
      [] part = "radio ends" -> n \in pending
      [] OTHER -> FALSE

\* It has ended: the request is answered, or its connection over, or the daemon
\* dead; the modem is on again or its client given up; the state is set; the
\* connection accepted; the input read; the timer has fired.
Ended(n) ==
    CASE part = "service mode ends" -> \E i \in DOMAIN answers : answers[i].tok = n
      [] part = "clients retry" -> modem = "on" \/ pc["FMT"] = "closed"
      [] part = "srs serves" -> Contains(applied, <<"p1", 1>>)
      [] part = "java tells" -> n \in DOMAIN told /\ told[n] # <<>>
      [] part = "libril ends" -> \/ dead
                                 \/ n = 1 /\ fd[1] = peer[1]
                                 \/ n = 2 /\ DaemonLive!Over("r1")
      [] part = "event loop serves" -> IF n = 1 THEN LoopLive!Unserved = {} ELSE LoopLive!HasFired("x1")
      [] part = "dispatch ends" -> DispatchLive!Answered(IF n = 1 THEN "t1" ELSE "t2")
      [] part = "radio ends" -> n \notin pending \/ dead
      [] OTHER -> FALSE

\* Every request is answered, a modem that was switched off under a client
\* comes back, commands are carried out, connections accepted, input and timers
\* served.
EverythingEnds ==
    \A n \in 1 .. 2 : Begun(n) ~> Ended(n)
==============================================================================
