---------------------------- MODULE ReferenceRils ----------------------------
(***************************************************************************)
(* The other RILs beside Samsung's, one component at a time: the reference *)
(* RIL on its AT channel, its older version with a radio state per SIM, and*)
(* the mock RIL with its simulated calls and its control server.  A        *)
(* behaviour is one of one component; the variables of the others have no  *)
(* value.                                                                  *)
(***************************************************************************)
EXTENDS Naturals, Sequences

CONSTANTS
    None,  \* no value
    Parts  \* the components of the run

VARIABLES
    part,  \* the component this behaviour is of
    \* The state of the components, by their own names.
    s_fd, s_readerClosed, sp_response, s_smsPDU, s_closed, sState, reader, held, stream,
    command, program, tries, signalled, result, main, posted, modem, written, pdus, prompts,
    opens, timeouts, lines, currentTech, supportedTechs, preferredNetworkMode, polled, simReady,
    doing, made, answers, crashed, told, overtaken, events, open, loop, event, inits, polls, begun,
    unreported, card, closes, answered, faults, started, heap, emptyBuffer, rec, freeList,
    queue, icc, radio, gRadioState, muteState, screenState, strengthTold, arrived, sent, calls,
    numberActiveCalls, incomingCallIsProcessed, mistaken, callTransitionFlag, lastSwitch, timers, asked,
    ids, unannounced, conn, accepted, midway, inbox, got, served, pc, mh, lock, out, state,
    done_

vars ==
    <<part, s_fd, s_readerClosed, sp_response, s_smsPDU, s_closed, sState, reader, held, stream,
      command, program, tries, signalled, result, main, posted, modem, written, pdus, prompts,
      opens, timeouts, lines, currentTech, supportedTechs, preferredNetworkMode, polled,
      simReady, doing, made, answers, crashed, told, overtaken, events, open, loop, event, inits, polls,
      begun, unreported, card, closes, answered, faults, started, heap, emptyBuffer, rec,
      freeList, queue, icc, radio, gRadioState, muteState, screenState, strengthTold, arrived,
      sent, calls, numberActiveCalls, incomingCallIsProcessed, mistaken, callTransitionFlag, lastSwitch,
      timers, asked, ids, unannounced, conn, accepted, midway, inbox, got, served, pc, mh, lock,
      out, state, done_>>

At == INSTANCE AtChannel WITH Run <- "safety"
AtReopens == INSTANCE AtChannel WITH Run <- "further"
AtLive == INSTANCE AtChannel WITH Run <- "progress"
Reference == INSTANCE ReferenceRil WITH Run <- "safety"
Power == INSTANCE ReferenceRil WITH Run <- "further"
Older == INSTANCE ReferenceSim WITH Run <- "safety"
OlderLive == INSTANCE ReferenceSim WITH Run <- "progress"
Mock == INSTANCE MockMessages WITH Run <- "safety"
MockQueues == INSTANCE MockMessages WITH Run <- "further"
MockLive == INSTANCE MockMessages WITH Run <- "progress"
Voice == INSTANCE SimulatedRadio WITH Run <- "safety"
Ringing == INSTANCE SimulatedRadio WITH Run <- "further"
VoiceLive == INSTANCE SimulatedRadio WITH Run <- "progress"
Ctrl == INSTANCE CtrlServer WITH Run <- "safety"
CtrlStops == INSTANCE CtrlServer WITH Run <- "further"

\* The variables of the other components have no value.
Idle ==
    /\ part \notin {"at", "at reopens", "at ends"} =>
         s_fd = None /\ s_readerClosed = None /\ sp_response = None /\ s_smsPDU = None
         /\ held = None /\ stream = None /\ command = None /\ program = None /\ tries = None
         /\ signalled = None /\ result = None /\ main = None /\ posted = None
         /\ written = None /\ pdus = None /\ prompts = None /\ opens = None /\ timeouts = None
         /\ lines = None
    /\ part \notin {"at", "at reopens", "at ends", "requests", "radio power", "older", "older ends"} =>
         s_closed = None /\ sState = None /\ modem = None
    /\ part \notin {"at", "at reopens", "at ends", "older", "older ends"} =>
         reader = None
    /\ part \notin {"requests", "radio power"} =>
         currentTech = None /\ supportedTechs = None /\ preferredNetworkMode = None
         /\ polled = None /\ simReady = None /\ doing = None /\ events = None
         /\ overtaken = None
    /\ part \notin {"requests", "radio power", "older", "older ends", "mock", "mock queues", "mock ends"} =>
         made = None
    /\ part \notin {"requests", "radio power", "mock", "mock queues", "mock ends"} =>
         answers = None /\ crashed = None /\ told = None
    /\ part \notin {"older", "older ends"} =>
         open = None /\ loop = None /\ event = None /\ inits = None /\ polls = None
         /\ begun = None /\ unreported = None /\ card = None /\ closes = None
         /\ answered = None /\ faults = None
    /\ part \notin {"mock", "mock queues", "mock ends"} =>
         started = None /\ heap = None /\ emptyBuffer = None /\ rec = None /\ freeList = None
         /\ icc = None /\ radio = None /\ gRadioState = None /\ muteState = None
         /\ screenState = None /\ strengthTold = None /\ arrived = None /\ sent = None
    /\ part \notin {"mock", "mock queues", "mock ends", "calls", "ringing", "calls settle", "ctrl", "ctrl stops"} =>
         queue = None
    /\ part \notin {"calls", "ringing", "calls settle"} =>
         calls = None /\ numberActiveCalls = None /\ incomingCallIsProcessed = None /\ mistaken = None
         /\ callTransitionFlag = None /\ lastSwitch = None /\ timers = None /\ ids = None
         /\ unannounced = None
    /\ part \notin {"calls", "ringing", "calls settle", "ctrl", "ctrl stops"} =>
         asked = None
    /\ part \notin {"ctrl", "ctrl stops"} =>
         conn = None /\ accepted = None /\ midway = None /\ inbox = None /\ got = None
         /\ served = None /\ pc = None /\ mh = None /\ lock = None /\ out = None
         /\ state = None /\ done_ = None

\* They keep having none.
Still ==
    /\ part \notin {"at", "at reopens", "at ends"} =>
         UNCHANGED <<s_fd, s_readerClosed, sp_response, s_smsPDU, held, stream, command,
           program, tries, signalled, result, main, posted, written, pdus, prompts, opens,
           timeouts, lines>>
    /\ part \notin {"at", "at reopens", "at ends", "requests", "radio power", "older", "older ends"} =>
         UNCHANGED <<s_closed, sState, modem>>
    /\ part \notin {"at", "at reopens", "at ends", "older", "older ends"} =>
         UNCHANGED reader
    /\ part \notin {"requests", "radio power"} =>
         UNCHANGED <<currentTech, supportedTechs, preferredNetworkMode, polled, simReady, doing,
           overtaken, events>>
    /\ part \notin {"requests", "radio power", "older", "older ends", "mock", "mock queues", "mock ends"} =>
         UNCHANGED made
    /\ part \notin {"requests", "radio power", "mock", "mock queues", "mock ends"} =>
         UNCHANGED <<answers, crashed, told>>
    /\ part \notin {"older", "older ends"} =>
         UNCHANGED <<open, loop, event, inits, polls, begun, unreported, card, closes, answered,
           faults>>
    /\ part \notin {"mock", "mock queues", "mock ends"} =>
         UNCHANGED <<started, heap, emptyBuffer, rec, freeList, icc, radio, gRadioState,
           muteState, screenState, strengthTold, arrived, sent>>
    /\ part \notin {"mock", "mock queues", "mock ends", "calls", "ringing", "calls settle", "ctrl", "ctrl stops"} =>
         UNCHANGED queue
    /\ part \notin {"calls", "ringing", "calls settle"} =>
         UNCHANGED <<calls, numberActiveCalls, incomingCallIsProcessed, mistaken, callTransitionFlag,
           lastSwitch, timers, ids, unannounced>>
    /\ part \notin {"calls", "ringing", "calls settle", "ctrl", "ctrl stops"} =>
         UNCHANGED asked
    /\ part \notin {"ctrl", "ctrl stops"} =>
         UNCHANGED <<conn, accepted, midway, inbox, got, served, pc, mh, lock, out, state, done_>>

Init ==
    /\ part \in Parts
    /\ part = "at" => At!Init
    /\ part = "at reopens" => AtReopens!Init
    /\ part = "at ends" => AtLive!Init
    /\ part = "requests" => Reference!Init
    /\ part = "radio power" => Power!Init
    /\ part = "older" => Older!Init
    /\ part = "older ends" => OlderLive!Init
    /\ part = "mock" => Mock!Init
    /\ part = "mock queues" => MockQueues!Init
    /\ part = "mock ends" => MockLive!Init
    /\ part = "calls" => Voice!Init
    /\ part = "ringing" => Ringing!Init
    /\ part = "calls settle" => VoiceLive!Init
    /\ part = "ctrl" => Ctrl!Init
    /\ part = "ctrl stops" => CtrlStops!Init
    /\ Idle

Next ==
    /\ \/ part = "at" /\ At!Next
       \/ part = "at reopens" /\ AtReopens!Next
       \/ part = "at ends" /\ AtLive!Next
       \/ part = "requests" /\ Reference!Next
       \/ part = "radio power" /\ Power!Next
       \/ part = "older" /\ Older!Next
       \/ part = "older ends" /\ OlderLive!Next
       \/ part = "mock" /\ Mock!Next
       \/ part = "mock queues" /\ MockQueues!Next
       \/ part = "mock ends" /\ MockLive!Next
       \/ part = "calls" /\ Voice!Next
       \/ part = "ringing" /\ Ringing!Next
       \/ part = "calls settle" /\ VoiceLive!Next
       \/ part = "ctrl" /\ Ctrl!Next
       \/ part = "ctrl stops" /\ CtrlStops!Next
    /\ UNCHANGED part /\ Still

Spec == Init /\ [][Next]_vars

\* The threads run; the modem answers what it has received or hangs up, and its
\* SIM is read in the end; a client of the control server finishes the message
\* it has begun, and a lock that is free again and again is got.
FairSpec ==
    /\ Spec
    /\ WF_(AtLive!vars)(part = "at ends" /\ AtLive!Next /\ AtLive!mainLoop)
    /\ WF_(AtLive!vars)(part = "at ends" /\ AtLive!Next /\ AtLive!waitForClose)
    /\ WF_(AtLive!vars)(part = "at ends" /\ AtLive!Next /\ AtLive!readerLoop)
    /\ WF_(AtLive!vars)(part = "at ends" /\ AtLive!Next /\ AtLive!CommandThread)
    /\ WF_(AtLive!vars)(part = "at ends" /\ AtLive!Next /\ (AtLive!ModemHangup \/ \E kind \in {"OK", "ERROR"} : AtLive!ModemFinal(kind)))
    /\ WF_(OlderLive!vars)(part = "older ends" /\ OlderLive!EventStep)
    /\ WF_(OlderLive!vars)(part = "older ends" /\ OlderLive!ReaderStep)
    /\ WF_(OlderLive!vars)(part = "older ends" /\ OlderLive!LoopStep)
    /\ WF_(OlderLive!vars)(part = "older ends" /\ OlderLive!InitializeCallback)
    /\ WF_(OlderLive!vars)(part = "older ends" /\ OlderLive!PollCallback)
    /\ WF_(OlderLive!vars)(part = "older ends" /\ OlderLive!SimSettles)
    /\ WF_(MockLive!vars)(part = "mock ends" /\ MockLive!RIL_Init)
    /\ WF_(MockLive!vars)(part = "mock ends" /\ MockLive!Process)
    /\ WF_(MockLive!vars)(part = "mock ends" /\ MockLive!RunIcc)
    /\ WF_(MockLive!vars)(part = "mock ends" /\ MockLive!RunRadio)
    /\ WF_(VoiceLive!vars)(part = "calls settle" /\ VoiceLive!process)
    /\ WF_(VoiceLive!vars)(part = "calls settle" /\ VoiceLive!Expire)
    /\ WF_(VoiceLive!vars)(part = "calls settle" /\ VoiceLive!Tick)
    /\ SF_(Ctrl!vars)(part = "ctrl" /\ Ctrl!ServerStep)
    /\ \A w \in Ctrl!Workers : SF_(Ctrl!vars)(part = "ctrl" /\ Ctrl!Process(w))
    /\ \A t \in Ctrl!Threads : WF_(Ctrl!vars)(part = "ctrl" /\ Ctrl!WriteStep(t))
    /\ \A c \in Ctrl!Clients : WF_(Ctrl!vars)(part = "ctrl" /\ Ctrl!SendData(c))

-----------------------------------------------------------------------------
(* Properties.                                                             *)

\* The variables of the component have their types.
TypeOK ==
    /\ part = "at" => At!TypeOK
    /\ part = "at reopens" => AtReopens!TypeOK
    /\ part = "at ends" => AtLive!TypeOK
    /\ part = "requests" => Reference!TypeOK
    /\ part = "radio power" => Power!TypeOK
    /\ part = "older" => Older!TypeOK
    /\ part = "older ends" => OlderLive!TypeOK
    /\ part = "mock" => Mock!TypeOK
    /\ part = "mock queues" => MockQueues!TypeOK
    /\ part = "mock ends" => MockLive!TypeOK
    /\ part = "calls" => Voice!TypeOK
    /\ part = "ringing" => Ringing!TypeOK
    /\ part = "calls settle" => VoiceLive!TypeOK
    /\ part = "ctrl" => Ctrl!TypeOK
    /\ part = "ctrl stops" => CtrlStops!TypeOK

\* The final response a command returns with is the one the modem sent for that
\* command, although handleFinalResponse has nothing but the order to go by;
\* the commands of a handshake are all the same and may take each other's.
AnswersOwn ==
    /\ part = "at" => At!AnswersOwn
    /\ part = "at reopens" => AtReopens!AnswersOwn

\* The lines a command is given with its answer are in the order in which the
\* modem sent them (addIntermediate and reverseIntermediates).
LinesInOrder ==
    part = "at" => At!LinesInOrder

\* The PDU of a message goes to the modem once, however often it asks.
PduOnce ==
    part = "at" => At!PduOnce

\* Once the thread that closed the channel has set the state, the radio is
\* unavailable until the channel is open again, whatever the command thread
\* sets meanwhile (setRadioState).
ClosedUnavailable ==
    part = "at reopens" => AtReopens!ClosedUnavailable

\* Every request of the reference RIL is completed once, but for the four that
\* are not (ReferenceRil.Miscounted): by the time the handler has returned there
\* is one completion (the comment above onRequest).
AnsweredOnce ==
    part = "requests" => Reference!AnsweredOnce

\* The radio is reported on only while the modem's radio is on, however the
\* commands, the errors of AT+CFUN=1 and the closings of the channel fall, unless
\* a +CFUN: 0 was overtaken by the setting of the state, or the response to
\* AT+CFUN=0 lost with the channel.
RadioFollows ==
    part = "radio power" => Power!RadioFollows

\* While the radio is available the framework knows the technology in use, that
\* of a modem with AT+CTEC as it was last heard: every change is notified
\* (setRadioTechnology). EVDO is not taken from a +CTEC line.
TechTold ==
    part = "radio power" => Power!TechTold

\* Once everything rests, the radio state of the older reference RIL says what
\* the modem and its SIM are, however often the channel closed and in whatever
\* step; but a SIM unlocked by its PIN is still reported locked, and no command
\* is answered with an error.
StateFollowsModem ==
    part = "older" => Older!StateFollowsModem

\* Once everything rests and the SIM is ready, short messages are routed to the
\* RIL: setRadioState has set the SIM up, on a channel that worked.
SmsRouted ==
    part = "older" => Older!SmsRouted

\* A change of the radio state has been reported once the threads are done,
\* although each compares the state with the one it found outside the mutex.
ChangesReported ==
    part = "older" => Older!ChangesReported

\* The error code a handler of the script passes to sendRilRequestComplete is
\* the one the framework gets; that of DIAL becomes a success.
ErrorsSurvive ==
    part = "mock" => Mock!ErrorsSurvive

\* A handler of the script finds the data the framework sent in the request it
\* is called with, through serializing, the queue of reused records and
\* parsing; all but the user-user information of DIAL, and as long as the
\* collector frees no Buffer.
DataArrives ==
    /\ part = "mock" => Mock!DataArrives
    /\ part = "mock ends" => MockLive!DataArrives

\* The values of an answer of the mock RIL are those the handler sent; a list
\* of strings has a null pointer for each stand-in. The index of the CDMA
\* application and the signal strength are not: nothing sets them.
AnswerAsSent ==
    part = "mock" => Mock!AnswerAsSent

\* A successful answer with data is laid out the way libril's response function
\* for that request reads it.
LibrilReads ==
    part = "mock" => Mock!LibrilReads

\* Requests of one component keep their order: once none waits, the screen
\* state is the one of the last SCREEN_STATE.
LastScreenWins ==
    part = "mock ends" => MockLive!LastScreenWins

\* A request handed to onRequest is in exactly one place: the request queue,
\* the queue of one worker, or answered, once.
OnePlace ==
    /\ part = "mock" => Mock!OnePlace
    /\ part = "mock queues" => MockQueues!OnePlace
    /\ part = "mock ends" => MockLive!OnePlace

\* numberActiveCalls counts the calls of the array, whatever requests and late
\* state changes come between; addCall relies on it to find a free element.
CountMatches ==
    /\ part = "calls" => Voice!CountMatches
    /\ part = "ringing" => Ringing!CountMatches

\* There is one call at most that rings, whichever way its state came about.
OneIncoming ==
    /\ part = "calls" => Voice!OneIncoming
    /\ part = "ringing" => Ringing!OneIncoming

\* The phone rings for a call that is incoming or waiting, or for one that the six
\* handlers named there have ended without a look at the ring.
NoPhantomRing ==
    /\ part = "calls" => Voice!NoPhantomRing
    /\ part = "ringing" => Ringing!NoPhantomRing

\* A call that is incoming or waiting keeps ringing, unless a hang-up of held
\* calls stopped short of it.
RingsUntilAnswered ==
    /\ part = "calls" => Voice!RingsUntilAnswered
    /\ part = "ringing" => Ringing!RingsUntilAnswered

\* The answers of a client of the control server that waits for them are to
\* commands it sent, none is answered twice, and their tokens are unmodified but
\* for those JavaScript rounds because no double holds them.
TokensReturned ==
    part = "ctrl" => Ctrl!TokensReturned

\* The two parts of an answer arrive one after the other, whatever threads
\* write to the socket, and also when clients leave and the server is stopped.
FramesWhole ==
    /\ part = "ctrl" => Ctrl!FramesWhole
    /\ part = "ctrl stops" => CtrlStops!FramesWhole

\* Commands and requests get their own answers, with all of their lines and
\* values, through the AT channel, the conversions and queues of the mock RIL and
\* the control server; each but the requests of Miscounted once.
CommandsAnswered ==
    /\ AnswersOwn /\ LinesInOrder /\ PduOnce /\ AnsweredOnce /\ ErrorsSurvive
    /\ DataArrives /\ AnswerAsSent /\ LibrilReads /\ LastScreenWins
    /\ OnePlace /\ TokensReturned /\ FramesWhole

\* The radio is not reported on, or its SIM ready, when it is not, but for what
\* was overtaken, lost with the channel or unlocked after its report: see the
\* parts.
RadioAsReported ==
    /\ ClosedUnavailable /\ RadioFollows /\ TechTold /\ StateFollowsModem
    /\ SmsRouted /\ ChangesReported

\* The calls of the simulated radio are counted and one at most rings; the phone
\* rings while one does, and after that only where the code forgets to stop it.
CallsConsistent ==
    /\ CountMatches /\ OneIncoming /\ NoPhantomRing /\ RingsUntilAnswered

\* Something that must end has begun: a wait for an answer, a closed channel,
\* requests and polls, the n-th request to the mock RIL, the n-th call that is
\* dialled, the n-th command of a client of the control server.
Begun(n) ==
    CASE part = "at ends" -> IF n = 1 THEN AtLive!Waiting ELSE n = 2 /\ s_closed
      [] part = "older ends" -> IF n = 1 THEN s_closed ELSE n = 2 /\ ~OlderLive!Over
      [] part = "mock ends" -> n \in DOMAIN made
      [] part = "calls settle" -> VoiceLive!Dialling(n)
      [] part = "ctrl" -> served = "a" /\ Len(asked["a"]) = n
      [] OTHER -> FALSE

\* It has ended: the command returned, the channel is open or the process gone,
\* all is answered and at rest, the call is active or over, the client has its
\* answer or left.
Ended(n) ==
    CASE part = "at ends" -> IF n = 1 THEN ~AtLive!Waiting ELSE ~s_closed \/ AtLive!Crashed
      [] part = "older ends" -> IF n = 1 THEN ~s_closed ELSE OlderLive!Over
      [] part = "mock ends" -> MockLive!Occurrences(answers, n) > 0
      [] part = "calls settle" -> VoiceLive!Settled(n)
      [] part = "ctrl" -> conn["a"] = "closed" \/ Len(got["a"]) >= 2 * n
      [] OTHER -> FALSE

\* Nobody waits for a channel that is closed; requests are answered and polls
\* of the SIM end; a dialled call becomes active or ends; a client that waits
\* for its answers gets them.
EverythingEnds ==
    \A n \in 1 .. 2 : Begun(n) ~> Ended(n)
==============================================================================
