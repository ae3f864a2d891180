----------------------------- MODULE AtChannel -----------------------------
(***************************************************************************)
(* The AT channel of the reference RIL (atchannel.c) with the threads of   *)
(* reference-ril.c that use it:                                            *)
(*                                                                         *)
(*   - a reader thread per opened channel (readerLoop), which gives every  *)
(*     line of the modem to the pending command or to onUnsolicited;       *)
(*   - the command thread (libril's event loop), which runs                *)
(*     initializeCallback after every opening and then the requests'       *)
(*     commands, one at a time, and waits for the final response;          *)
(*   - the thread of mainLoop, which opens the channel, waits until it is  *)
(*     closed and opens it again.                                          *)
(*                                                                         *)
(* Commands are numbered in the order in which they are written, and every *)
(* line carries the number of the command the modem answers with it (0 for *)
(* a line it sends by itself): the numbers are bookkeeping of the model,   *)
(* the code tells lines apart by what they begin with, which is the kind.  *)
(* A section under s_commandmutex or s_state_mutex is one step; what the   *)
(* code does outside of them is a step of its own.                         *)
(***************************************************************************)
EXTENDS Naturals, Sequences, SequencesExt, Scenario

\* The instances.
InitCommands == <<"single">>  \* the kinds of command initializeCallback sends
\* the kinds of command the requests send
RequestKinds == InRun([
     safety |-> {"sms", "multi"},
     further |-> {"multi"},
     progress |-> {"multi"}])
\* the kinds of line the modem sends by itself
Notices == InRun([
     safety |-> {"notice", "prefix", "cmt"},
     further |-> {"notice", "cmt"},
     progress |-> {"notice"}])
Retries == 2  \* HANDSHAKE_RETRY_COUNT
MaxCommands == InRun([safety |-> 4, further |-> 3, progress |-> 2])  \* bound: commands written
\* bound: handshake commands that time out
MaxTimeouts == InRun([safety |-> 0, progress |-> 1])
\* bound: times the channel is opened
MaxOpens == InRun([safety |-> 1, further |-> 2, progress |-> 2])
\* bound: lines the modem sends by itself
MaxLines == InRun([safety |-> 2, further |-> 1, progress |-> 0])

Kinds == {"handshake", "none", "single", "multi", "sms"}

VARIABLES
  s_fd,            \* the open channel's number, 0 for -1
  s_readerClosed,
  sp_response,     \* <<>> for NULL, <<r>> for the pending command's response
  s_smsPDU,        \* TRUE while a PDU waits for the prompt
  s_closed,
  sState,
  reader,          \* reader[g]: where the reader of channel g is
  held,            \* held[g]: the line it has read, <<>> or <<line>>
  stream,          \* stream[g]: lines on their way, the last one may be EOF
  command,         \* where the command thread is
  program,         \* what initializeCallback has still to send
  tries,           \* commands of this handshake so far
  signalled,       \* the condition was signalled since the thread waits
  result,          \* what the last command returned
  main,            \* where mainLoop is
  posted,          \* initializeCallbacks not run yet
  modem,           \* commands the modem has received and not answered
  written,         \* written[n]: the kind of command n
  pdus,            \* pdus[n]: how often the PDU of command n was written
  prompts,         \* prompts[n]: how often the modem asked for it
  opens, timeouts, lines

channel == <<s_fd, s_readerClosed, sp_response, s_smsPDU, result>>
ril     == <<s_closed, sState>>
modemv  == <<modem, written, pdus, prompts>>
vars == <<channel, ril, reader, held, stream, command, program, tries,
          signalled, main, posted, modemv, opens, timeouts, lines>>

Line(kind, n, i) == [kind |-> kind, of |-> n, index |-> i]
EOF == Line("eof", 0, 0)

Crashed == command = "crashed"

\* The command thread keeps s_commandmutex from the start of a handshake to
\* its end, the pause included, except while it waits for an answer.
MutexFree == command \notin {"shake", "pause", "crashed"}

Waiting == command \in {"handshaking", "waiting"}

ResponseNew == [final |-> <<>>, inter |-> <<>>]

Init ==
  /\ s_fd = 0 /\ s_readerClosed = FALSE /\ sp_response = <<>> /\ s_smsPDU = FALSE
  /\ s_closed = FALSE /\ sState = "UNAVAILABLE"
  /\ reader = [g \in 1 .. MaxOpens |-> "none"] /\ held = [g \in 1 .. MaxOpens |-> <<>>]
  /\ stream = [g \in 1 .. MaxOpens |-> <<>>]
  /\ command = "idle" /\ program = <<>> /\ tries = 0 /\ signalled = FALSE
  /\ result = <<>>
  /\ main = "open" /\ posted = 0
  /\ modem = <<>> /\ written = <<>> /\ pdus = <<>> /\ prompts = <<>>
  /\ opens = 0 /\ timeouts = 0 /\ lines = 0

---------------------------------------------------------------------------
(* The radio state (reference-ril.c) *)

\* A change of state wakes mainLoop, and so does every call once the channel
\* is closed, whether the state changes or not.
setRadioState(new) ==
  LET state == IF s_closed THEN "UNAVAILABLE" ELSE new IN
  /\ sState' = state
  /\ main' = IF main = "waiting" /\ (sState # state \/ s_closed) THEN "woken" ELSE main

\* mainLoop opens the channel, and asks for initializeCallback.
mainLoop ==
  /\ main = "open" /\ opens < MaxOpens
  /\ opens' = opens + 1
  /\ s_closed' = FALSE
  /\ s_fd' = opens' /\ s_readerClosed' = FALSE
  /\ sp_response' = <<>> /\ s_smsPDU' = FALSE
  /\ reader' = [reader EXCEPT ![opens'] = "read"]
  /\ modem' = <<>>
  /\ posted' = posted + 1
  /\ main' = "sleep"
  /\ UNCHANGED <<sState, held, stream, command, program, tries, signalled, result,
                 written, pdus, prompts, timeouts, lines>>

waitForClose ==
  /\ main \in {"sleep", "woken"}
  /\ main' = IF s_closed THEN "open" ELSE "waiting"
  /\ UNCHANGED <<channel, ril, reader, held, stream, command, program, tries,
                 signalled, posted, modemv, opens, timeouts, lines>>

---------------------------------------------------------------------------
(* The reader thread *)

Signal == signalled' = (signalled \/ Waiting)

\* The first of the two lines of a message that came in.
isSMSUnsolicited(line) == line.kind = "cmt"

\* readline, and the second line of an SMS. What follows goes to processLine.
readline(g) ==
  /\ reader[g] = "read" /\ stream[g] # <<>>
  /\ LET line == Head(stream[g]) rest == Tail(stream[g]) IN
     \/ /\ line = EOF
        /\ stream' = [stream EXCEPT ![g] = rest]
        /\ reader' = [reader EXCEPT ![g] = "ended"]
        /\ UNCHANGED held
     \/ /\ isSMSUnsolicited(line) /\ rest # <<>>
        /\ stream' = [stream EXCEPT ![g] = Tail(rest)]
        /\ reader' = [reader EXCEPT ![g] = IF Head(rest) = EOF THEN "ended" ELSE "read"]
        /\ UNCHANGED held
     \/ /\ line # EOF /\ ~isSMSUnsolicited(line)
        /\ stream' = [stream EXCEPT ![g] = rest]
        /\ held' = [held EXCEPT ![g] = <<line>>]
        /\ reader' = [reader EXCEPT ![g] = "line"]
  /\ UNCHANGED <<channel, ril, command, program, tries, signalled, main, posted,
                 modemv, opens, timeouts, lines>>

pending == sp_response[1]

\* The type of a command is the type it was written with.
s_type == written[Len(written)]

\* addIntermediate puts the line at the head, reverseIntermediates turns the
\* list round again.
addIntermediate(r, line) == [r EXCEPT !.inter = <<line>> \o @]
reverseIntermediates(r) == [r EXCEPT !.inter = Reverse(@)]

isFinalResponse(line) == line.kind \in {"OK", "ERROR"}

handleFinalResponse(line) ==
  /\ sp_response' = <<[pending EXCEPT !.final = <<line>>]>>
  /\ Signal

\* What a line that belongs to the pending command does to its response.
TakesIntermediate(line) ==
  /\ line.kind = "prefix"
  /\ \/ s_type = "multi"
     \/ s_type \in {"single", "sms"} /\ pending.inter = <<>>

\* A prompt is answered with the PDU, once.
PromptAnswered ==
  /\ pdus' = [pdus EXCEPT ![Len(written)] = @ + 1]
  /\ s_smsPDU' = FALSE

processLine(g) ==
  /\ reader[g] = "line" /\ MutexFree
  /\ reader' = [reader EXCEPT ![g] = "read"]
  /\ held' = [held EXCEPT ![g] = <<>>]
  /\ LET line == held[g][1] IN
     \/ /\ sp_response = <<>>
        /\ UNCHANGED <<sp_response, signalled, s_smsPDU, pdus>>
     \/ /\ sp_response # <<>> /\ isFinalResponse(line)
        /\ handleFinalResponse(line)
        /\ UNCHANGED <<s_smsPDU, pdus>>
     \/ /\ sp_response # <<>> /\ line.kind = "prompt" /\ s_smsPDU
        /\ PromptAnswered
        /\ UNCHANGED <<sp_response, signalled>>
     \/ /\ sp_response # <<>> /\ ~isFinalResponse(line)
        /\ ~(line.kind = "prompt" /\ s_smsPDU)
        /\ sp_response' = IF TakesIntermediate(line) THEN <<addIntermediate(pending, line)>>
                          ELSE sp_response
        /\ UNCHANGED <<signalled, s_smsPDU, pdus>>
  /\ UNCHANGED <<s_fd, s_readerClosed, result, ril, stream, command, program, tries,
                 main, posted, modem, written, prompts, opens, timeouts, lines>>

\* The reader leaves its loop, marks the channel closed and wakes the command.
onReaderClosed(g) ==
  /\ reader[g] = "ended" /\ MutexFree
  /\ IF s_readerClosed
     THEN /\ reader' = [reader EXCEPT ![g] = "gone"]
          /\ UNCHANGED <<s_readerClosed, signalled>>
     ELSE /\ reader' = [reader EXCEPT ![g] = "notify"]
          /\ s_readerClosed' = TRUE
          /\ Signal
  /\ UNCHANGED <<s_fd, sp_response, s_smsPDU, result, ril, held, stream, command,
                 program, tries, main, posted, modemv, opens, timeouts, lines>>

\* onATReaderClosed: at_close, s_closed, and then setRadioState.
onATReaderClosed(g) ==
  /\ reader[g] = "notify" /\ MutexFree
  /\ s_fd' = 0 /\ s_readerClosed' = TRUE
  /\ Signal
  /\ s_closed' = TRUE
  /\ reader' = [reader EXCEPT ![g] = "unavailable"]
  /\ UNCHANGED <<sp_response, s_smsPDU, result, sState, held, stream, command, program,
                 tries, main, posted, modemv, opens, timeouts, lines>>

readerUnavailable(g) ==
  /\ reader[g] = "unavailable"
  /\ setRadioState("UNAVAILABLE")
  /\ reader' = [reader EXCEPT ![g] = "gone"]
  /\ UNCHANGED <<channel, s_closed, held, stream, command, program, tries, signalled,
                 posted, modemv, opens, timeouts, lines>>

---------------------------------------------------------------------------
(* The command thread *)

\* initializeCallback begins: the radio is off until the modem says more.
initializeCallback ==
  /\ command = "idle" /\ posted > 0
  /\ posted' = posted - 1
  /\ setRadioState("OFF")
  /\ command' = "shake" /\ tries' = 0
  /\ program' = InitCommands
  /\ UNCHANGED <<channel, s_closed, reader, held, stream, signalled, modemv, opens,
                 timeouts, lines>>

HungUp == s_fd # 0 /\ EOF \in Range(stream[s_fd])

writelineFails == s_fd = 0 \/ s_readerClosed \/ HungUp

Failed(err) == [of |-> 0, err |-> err, response |-> ResponseNew]

\* at_send_command_full_nolock up to its wait. Only this thread sends, so no
\* other command is pending here. The write may fail once the modem is gone.
SendFails ==
  /\ writelineFails
  /\ result' = <<Failed("CHANNEL_CLOSED")>>
  /\ sp_response' = <<>> /\ s_smsPDU' = FALSE
  /\ UNCHANGED <<signalled, modemv>>

Sends(kind) ==
  /\ s_fd # 0 /\ ~s_readerClosed /\ Len(written) < MaxCommands
  /\ written' = Append(written, kind)
  /\ pdus' = Append(pdus, 0) /\ prompts' = Append(prompts, 0)
  /\ modem' = Append(modem, Len(written'))
  /\ sp_response' = <<ResponseNew>> /\ s_smsPDU' = (kind = "sms")
  /\ signalled' = FALSE
  /\ UNCHANGED result

\* One round of the loop of at_handshake.
NextTry ==
  /\ tries' = tries + 1
  /\ command' = IF tries' < Retries THEN "shake" ELSE "next"

at_handshake ==
  /\ command = "shake"
  /\ \/ SendFails /\ NextTry
     \/ Sends("handshake") /\ command' = "handshaking" /\ UNCHANGED tries
  /\ UNCHANGED <<s_fd, s_readerClosed, ril, reader, held, stream, program, main, posted,
                 opens, timeouts, lines>>

\* pthread_cond_timedwait ends with ETIMEDOUT: the command is given up.
handshakeTimeout ==
  /\ command = "handshaking" /\ timeouts < MaxTimeouts
  /\ timeouts' = timeouts + 1
  /\ result' = <<Failed("TIMEOUT")>>
  /\ sp_response' = <<>> /\ s_smsPDU' = FALSE /\ signalled' = FALSE
  /\ NextTry
  /\ UNCHANGED <<s_fd, s_readerClosed, ril, reader, held, stream, program, main, posted,
                 modemv, opens, lines>>

\* The pause after the handshake, with s_commandmutex held.
handshakePause ==
  /\ command = "pause"
  /\ command' = "next"
  /\ UNCHANGED <<channel, ril, reader, held, stream, program, tries, signalled, main,
                 posted, modemv, opens, timeouts, lines>>

\* The next command of initializeCallback. Its last one is isRadioOn's.
AfterInit == IF Len(program) > 1 THEN "next" ELSE "radio"

initCommand ==
  /\ command = "next"
  /\ \/ SendFails /\ command' = AfterInit /\ program' = Tail(program)
     \/ Sends(Head(program)) /\ command' = "waiting" /\ UNCHANGED program
  /\ UNCHANGED <<s_fd, s_readerClosed, ril, reader, held, stream, tries, main, posted,
                 opens, timeouts, lines>>

Succeeded ==
  /\ result # <<>> /\ result[1].err = "NONE"
  /\ result[1].response.final[1].kind = "OK"

\* The end of initializeCallback: the radio is on if the modem says so.
isRadioOn ==
  /\ command = "radio"
  /\ command' = "idle"
  /\ \/ Succeeded /\ setRadioState("ON")
     \/ UNCHANGED <<sState, main>>
  /\ UNCHANGED <<channel, s_closed, reader, held, stream, program, tries, signalled,
                 posted, modemv, opens, timeouts, lines>>

\* A request's command, on a channel onRequest finds available.
at_send_command(kind) ==
  /\ command = "idle" /\ sState # "UNAVAILABLE"
  /\ \/ SendFails /\ UNCHANGED command
     \/ Sends(kind) /\ command' = "waiting"
  /\ UNCHANGED <<s_fd, s_readerClosed, ril, reader, held, stream, program, tries, main,
                 posted, opens, timeouts, lines>>

\* What a command returns once its wait is over: an answer that is a success
\* but lacks the line asked for is refused.
Returned ==
  LET r == reverseIntermediates(pending)
      lacking == /\ s_type \in {"single", "sms"} /\ r.inter = <<>>
                 /\ r.final # <<>> /\ r.final[1].kind = "OK" IN
  [of |-> Len(written), response |-> r,
   err |-> IF s_readerClosed THEN "CHANNEL_CLOSED"
           ELSE IF lacking THEN "INVALID_RESPONSE" ELSE "NONE"]

\* The waiting thread has the mutex again and looks at the condition, which
\* holds whenever it was signalled; without a response to look at it
\* dereferences NULL.
Wake ==
  /\ Waiting /\ signalled
  /\ signalled' = FALSE
  /\ \/ /\ sp_response = <<>>
        /\ command' = "crashed"
        /\ UNCHANGED <<sp_response, s_smsPDU, result, program, tries>>
     \/ /\ sp_response # <<>>
        /\ pending.final # <<>> \/ s_readerClosed
        /\ result' = <<Returned>>
        /\ sp_response' = <<>> /\ s_smsPDU' = FALSE
        /\ \/ /\ command = "handshaking" /\ s_readerClosed
              /\ NextTry /\ UNCHANGED program
           \/ /\ command = "handshaking" /\ ~s_readerClosed
              /\ command' = "pause" /\ UNCHANGED <<tries, program>>
           \/ /\ command = "waiting" /\ program # <<>>
              /\ command' = AfterInit /\ program' = Tail(program) /\ UNCHANGED tries
           \/ /\ command = "waiting" /\ program = <<>>
              /\ command' = "idle" /\ UNCHANGED <<tries, program>>
  /\ UNCHANGED <<s_fd, s_readerClosed, ril, reader, held, stream, main, posted, modemv,
                 opens, timeouts, lines>>

---------------------------------------------------------------------------
(* The modem (external) answers the commands in the order it receives them, *)
(* sends lines of its own, and may hang up.                                 *)

Sent(line) == stream' = [stream EXCEPT ![s_fd] = Append(@, line)]
Connected == s_fd # 0 /\ ~HungUp

modemRest == <<channel, ril, reader, held, command, program, tries, signalled, main,
               posted, opens, timeouts>>

ModemLine ==
  /\ Connected /\ modem # <<>> /\ written[modem[1]] \in {"single", "multi", "sms"}
  /\ written[modem[1]] = "sms" => pdus[modem[1]] > 0
  /\ lines < MaxLines /\ lines' = lines + 1
  /\ Sent(Line("prefix", modem[1], lines'))
  /\ UNCHANGED <<modemRest, modemv>>

ModemPrompt ==
  /\ Connected /\ modem # <<>> /\ written[modem[1]] = "sms"
  /\ prompts[modem[1]] < 2
  /\ prompts' = [prompts EXCEPT ![modem[1]] = @ + 1]
  /\ Sent(Line("prompt", modem[1], 0))
  /\ UNCHANGED <<modemRest, modem, written, pdus, lines>>

ModemFinal(kind) ==
  /\ Connected /\ modem # <<>>
  /\ written[modem[1]] = "sms" /\ kind = "OK" => pdus[modem[1]] > 0
  /\ Sent(Line(kind, modem[1], 0))
  /\ modem' = Tail(modem)
  /\ UNCHANGED <<modemRest, written, pdus, prompts, lines>>

\* A notice of one line, or a message with its PDU on a second one.
ModemUnsolicited(kind) ==
  /\ Connected /\ lines < MaxLines /\ lines' = lines + 1
  /\ stream' = [stream EXCEPT ![s_fd] =
                  @ \o IF kind = "cmt" THEN <<Line("cmt", 0, lines'), Line("pdu", 0, lines')>>
                       ELSE <<Line(kind, 0, lines')>>]
  /\ UNCHANGED <<modemRest, modemv>>

ModemHangup ==
  /\ Connected /\ opens < MaxOpens
  /\ Sent(EOF)
  /\ UNCHANGED <<modemRest, modemv, lines>>

---------------------------------------------------------------------------

readerLoop ==
  \E g \in 1 .. MaxOpens :
    \/ readline(g) \/ processLine(g)
    \/ onReaderClosed(g) \/ onATReaderClosed(g) \/ readerUnavailable(g)

CommandThread ==
  \/ initializeCallback \/ at_handshake \/ handshakePause \/ initCommand
  \/ isRadioOn \/ Wake

ModemStep ==
  \/ ModemLine \/ ModemPrompt \/ \E kind \in {"OK", "ERROR"} : ModemFinal(kind)

Next ==
  /\ ~Crashed
  /\ \/ mainLoop \/ waitForClose \/ readerLoop \/ CommandThread \/ handshakeTimeout
     \/ \E kind \in RequestKinds : at_send_command(kind)
     \/ ModemStep \/ ModemHangup
     \/ \E kind \in Notices : ModemUnsolicited(kind)

Spec == Init /\ [][Next]_vars

---------------------------------------------------------------------------

TypeOK ==
  /\ s_fd \in 0 .. MaxOpens /\ s_readerClosed \in BOOLEAN
  /\ Len(sp_response) \in 0 .. 1 /\ s_smsPDU \in BOOLEAN
  /\ s_closed \in BOOLEAN /\ sState \in {"UNAVAILABLE", "OFF", "ON"}
  /\ reader \in [1 .. MaxOpens -> {"none", "read", "line", "ended", "notify",
                                   "unavailable", "gone"}]
  /\ command \in {"idle", "shake", "handshaking", "pause", "next", "waiting", "radio",
                  "crashed"}
  /\ main \in {"open", "sleep", "waiting", "woken"}
  /\ written \in Seq(Kinds) /\ Len(pdus) = Len(written) /\ Len(prompts) = Len(written)
  /\ tries \in 0 .. Retries /\ posted \in 0 .. MaxOpens

\* The final response a command returns with is the one the modem sent for
\* that command (handleFinalResponse has nothing but the order to go by); the
\* commands of a handshake are all the same and may take each other's.
AnswersOwn ==
  result # <<>> /\ result[1].err = "NONE" =>
    \/ result[1].response.final[1].of = result[1].of
    \/ written[result[1].of] = "handshake"

\* The lines a command is given with its answer are in the order in which the
\* modem sent them (addIntermediate and reverseIntermediates).
LinesInOrder ==
  \A n \in DOMAIN result : LET got == result[n].response.inter IN
    \A i, j \in DOMAIN got : i < j => got[i].index < got[j].index

\* The PDU of a message goes to the modem once, however often it asks.
PduOnce == \A n \in DOMAIN pdus : pdus[n] <= 1

\* Once the thread that closed the channel has set the state, the radio is
\* unavailable until the channel is open again, whatever the command thread
\* sets meanwhile (setRadioState, reference-ril.c).
ClosedUnavailable ==
  s_closed /\ (\A g \in 1 .. MaxOpens : reader[g] # "unavailable") => sState = "UNAVAILABLE"
=============================================================================
