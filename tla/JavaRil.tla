--------------------------------- MODULE JavaRil ---------------------------------
(****************************************************************************)
(* SamsungRIL, the framework's side of the RIL socket: requests by serial     *)
(* number and what their callers are told of the answers, and the SIM         *)
(* toolkit's proactive commands that come before anybody listens for them.    *)
(*                                                                            *)
(* The receiver thread handles what comes over the socket, the main thread    *)
(* makes requests and registers the listener.                                 *)
(****************************************************************************)
EXTENDS Integers, Sequences, FiniteSets, SequencesExt, Scenario

\* The instances.
\* kinds of request of the run
Kinds == InRun([
     safety |-> {"ENTER_SIM_PIN", "SEND_SMS", "RADIO_POWER", "UNRECOGNIZED"},
     progress |-> {"ENTER_SIM_PIN", "UNRECOGNIZED"}])
MaxRequests == 2
MaxProactive == InRun([safety |-> 1, progress |-> 1])  \* proactive commands the SIM sends
RilEnabled == InRun([safety |-> FALSE, progress |-> TRUE])  \* persist.ril.enable

VARIABLES
    requests,       \* the kinds of the requests made, by serial number
    mRequestsList,  \* serial numbers that wait for an answer
    socket,         \* what the RIL has sent and the receiver has not read
    told,           \* what each caller was told, by serial number
    status,         \* serials for which mIccStatusChangedRegistrants was notified
    proactive,      \* proactive commands sent
    mCatProCmdRegistrant, mCatProCmdBuffer,
    cat,            \* the commands the listener got
    receiver,       \* a command the receiver has found nobody registered for
    registering     \* where setOnCatProactiveCmd is

solicited == <<requests, mRequestsList, told, status>>
catVars == <<mCatProCmdRegistrant, mCatProCmdBuffer, cat, receiver>>
vars == <<solicited, socket, proactive, catVars, registering>>

Null == 0
Errors == {0, -1, 2}
Payloads == {"none", "good", "bad"}

Init ==
    /\ requests = <<>> /\ mRequestsList = {} /\ socket = <<>> /\ told = <<>> /\ status = {}
    /\ proactive = 0 /\ mCatProCmdRegistrant = FALSE /\ mCatProCmdBuffer = Null
    /\ cat = <<>> /\ receiver = Null /\ registering = "no"

-----------------------------------------------------------------------------
(* The main thread makes a request.  setRadioPower does nothing at all where  *)
(* the RIL is disabled.                                                       *)
Request(kind) ==
    /\ Len(requests) < MaxRequests
    /\ requests' = Append(requests, kind) /\ told' = Append(told, <<>>)
    /\ IF kind = "RADIO_POWER" /\ ~RilEnabled
       THEN UNCHANGED mRequestsList
       ELSE mRequestsList' = mRequestsList \cup {Len(requests) + 1}
    /\ UNCHANGED <<status, socket, proactive, catVars, registering>>

(* The RIL answers a request it has, and forwards the SIM's commands.         *)
RilAnswers(serial, error, payload) ==
    /\ serial \in mRequestsList
    /\ \A i \in 1 .. Len(socket) : socket[i].serial # serial
    /\ socket' = Append(socket, [serial |-> serial, error |-> error, payload |-> payload])
    /\ UNCHANGED <<solicited, proactive, catVars, registering>>

SimCommands ==
    /\ proactive < MaxProactive
    /\ proactive' = proactive + 1
    /\ socket' = Append(socket, [serial |-> Null, command |-> proactive + 1])
    /\ UNCHANGED <<solicited, catVars, registering>>

-----------------------------------------------------------------------------
(* What a payload parses to: no exception, unless it or the request is bad.   *)
Parses(kind, payload) == payload # "bad" /\ kind # "UNRECOGNIZED"

NotifiesStatus == {"ENTER_SIM_PIN"}

ToldSilent(kind, answer) ==
    IF (answer.error = 0 \/ answer.payload # "none") /\ ~Parses(kind, answer.payload)
    THEN <<>>
    ELSE IF answer.error = 0 THEN <<"value">> ELSE <<"exception">>

(* What the caller is told of an answer.  An answer with a payload is parsed  *)
(* even if it is an error; the error -1 of SEND_SMS is taken for a success.   *)
Told(kind, answer) ==
    IF (answer.error = 0 \/ answer.payload # "none") /\ ~Parses(kind, answer.payload)
    THEN <<"exception">>
    ELSE IF answer.error = 0 \/ (answer.error = -1 /\ kind = "SEND_SMS")
         THEN <<"value">>
         ELSE <<"exception">>

processSolicited ==
    /\ socket # <<>> /\ receiver = Null /\ Head(socket).serial # Null
    /\ LET answer == Head(socket)
           serial == answer.serial
           kind == requests[serial]
       IN  IF serial \in mRequestsList
           THEN /\ mRequestsList' = mRequestsList \ {serial}
                /\ told' = [told EXCEPT ![serial] = @ \o Told(kind, answer)]
                /\ status' = IF answer.error # 0 /\ kind \in NotifiesStatus
                                /\ (answer.payload # "none" => Parses(kind, answer.payload))
                             THEN status \cup {serial} ELSE status
           ELSE UNCHANGED <<mRequestsList, told, status>>
    /\ socket' = Tail(socket)
    /\ UNCHANGED <<requests, proactive, catVars, registering>>

(* The RIL's socket closes: the superclass fails what is outstanding.         *)
Disconnected ==
    /\ receiver = Null /\ mRequestsList # {}
    /\ told' = [s \in DOMAIN told |-> IF s \in mRequestsList THEN Append(told[s], "exception") ELSE told[s]]
    /\ mRequestsList' = {} /\ socket' = <<>>
    /\ UNCHANGED <<requests, status, proactive, catVars, registering>>

-----------------------------------------------------------------------------
(* A proactive command: to the listener, or, if there is none, ...            *)
processProactive ==
    /\ socket # <<>> /\ receiver = Null /\ Head(socket).serial = Null
    /\ LET command == Head(socket).command
       IN  IF mCatProCmdRegistrant
           THEN cat' = Append(cat, command) /\ UNCHANGED receiver
           ELSE receiver' = command /\ UNCHANGED cat
    /\ socket' = Tail(socket)
    /\ UNCHANGED <<solicited, proactive, mCatProCmdRegistrant, mCatProCmdBuffer, registering>>

(* ... into the buffer.                                                       *)
bufferCommand ==
    /\ receiver # Null
    /\ mCatProCmdBuffer' = receiver /\ receiver' = Null
    /\ UNCHANGED <<solicited, socket, proactive, mCatProCmdRegistrant, cat, registering>>

(* setOnCatProactiveCmd sets the listener, gives it what is in the buffer,    *)
(* and clears the buffer.                                                     *)
setOnCatProactiveCmd ==
    /\ registering = "no"
    /\ mCatProCmdRegistrant' = TRUE /\ registering' = "check"
    /\ UNCHANGED <<solicited, socket, proactive, mCatProCmdBuffer, cat, receiver>>

checkBuffer ==
    /\ registering = "check"
    /\ IF mCatProCmdBuffer # Null
       THEN cat' = Append(cat, mCatProCmdBuffer) /\ registering' = "clear"
       ELSE registering' = "done" /\ UNCHANGED cat
    /\ UNCHANGED <<solicited, socket, proactive, mCatProCmdRegistrant, mCatProCmdBuffer, receiver>>

clearBuffer ==
    /\ registering = "clear"
    /\ mCatProCmdBuffer' = Null /\ registering' = "done"
    /\ UNCHANGED <<solicited, socket, proactive, mCatProCmdRegistrant, cat, receiver>>

-----------------------------------------------------------------------------
Receiver == processSolicited \/ processProactive \/ bufferCommand
Registration == setOnCatProactiveCmd \/ checkBuffer \/ clearBuffer
Answers(serial) == \E error \in Errors, payload \in Payloads : RilAnswers(serial, error, payload)

Next ==
    \/ Receiver \/ Registration \/ SimCommands \/ Disconnected
    \/ \E kind \in Kinds : Request(kind)
    \/ \E serial \in mRequestsList : Answers(serial)

Spec == Init /\ [][Next]_vars

-----------------------------------------------------------------------------
(* The serial numbers and the commands.                                       *)
TypeOK ==
    /\ requests \in Seq(Kinds) /\ Len(told) = Len(requests)
    /\ mRequestsList \subseteq 1 .. Len(requests) /\ status \subseteq 1 .. Len(requests)
    /\ mCatProCmdBuffer \in 0 .. MaxProactive /\ receiver \in 0 .. MaxProactive
    /\ registering \in {"no", "check", "clear", "done"}
    /\ mCatProCmdRegistrant = (registering # "no")

(* A request is taken off the list when its caller is told, and told once.    *)
ToldOnce ==
    \A serial \in 1 .. Len(requests) :
        /\ Len(told[serial]) <= 1
        /\ serial \in mRequestsList => told[serial] = <<>>

(* A step that tells a caller of the answer at the head of the socket: an     *)
(* answer that is an error reaches its caller as one, but for a message that  *)
(* was not sent, and one whose payload is bad never as a success.             *)
FailureReported ==
    \A serial \in mRequestsList \ mRequestsList' :
        LET answer == Head(socket)
        IN  (IF socket = <<>> THEN FALSE ELSE answer.serial = serial /\ Len(socket') = Len(socket) - 1)
            => (told'[serial] = <<"value">> =>
                    /\ answer.payload # "bad"
                    /\ answer.error = 0 \/ requests[serial] = "SEND_SMS")

(* The listener gets no command twice.                                        *)
CatOnce == IsInjective(cat)
================================================================================
