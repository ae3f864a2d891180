------------------------------- MODULE Clients -------------------------------
(***************************************************************************)
(* The two client threads of Samsung-RIL that talk to the modem (client.c, *)
(* ipc.c), their event descriptors (utils.c) and the power of the modem    *)
(* they share.                                                             *)
(*                                                                         *)
(* Each thread polls its modem device and its event descriptor, receives   *)
(* and dispatches messages, and after a failure closes and opens its       *)
(* client again.  FMT power cycles the modem except after a first failure; *)
(* RFS switches it off whenever it closes and never on.  RIL_LOCK is held  *)
(* over receiving, dispatching, sending, closing and opening.              *)
(***************************************************************************)
EXTENDS Integers, FiniteSets, Scenario

\* The instances.
RetryCount == InRun([safety |-> 4, progress |-> 3])  \* RIL_CLIENT_RETRY_COUNT

Client == {"FMT", "RFS"}

\* The values written to an event descriptor.  It is a counter: writing adds
\* to it, reading returns and clears it, and only a counter above zero is
\* reported by poll.
IPC_CLIENT_CLOSE == 0
IPC_CLIENT_IO_ERROR == 1

VARIABLES
    modem,      \* the modem is "on" or "off"
    inbox,      \* messages of the modem each client has not received, 0 or 1
    pc,         \* where each client thread is
    failures,   \* client->failures
    available,  \* client->available
    event,      \* the counter of each client's event descriptor
    sending,    \* a failed send is about to write its event
    radio,      \* the radio state: "out" (UNAVAILABLE) or "present"
    init,       \* what RIL_Init does: the client it creates or opens, or its
                \* result, "done" (the radio functions) or "null"
    tries       \* failures of RIL_Init to open that client

modemVars == <<modem, inbox>>
initVars == <<init, tries>>
vars == <<modemVars, pc, failures, available, event, sending, radio, initVars>>

\* RIL_Init has returned and nobody is sending: both hold RIL_LOCK.
LockFree ==
    /\ init \in {"done", "null"}
    /\ \A c \in Client : ~sending[c]

Init ==
    /\ modem = "off" /\ radio = "out"
    /\ inbox = [c \in Client |-> 0]
    /\ pc = [c \in Client |-> "none"]
    /\ failures = [c \in Client |-> 0]
    /\ available = [c \in Client |-> FALSE]
    /\ event = [c \in Client |-> 0]
    /\ sending = [c \in Client |-> FALSE]
    /\ init = "create" /\ tries = 0

-----------------------------------------------------------------------------
(* RIL_Init creates the clients, opens one after the other and starts its  *)
(* thread at once, all under RIL_LOCK.  If a step fails it returns NULL and *)
(* leaves the threads it started running.                                  *)

\* ipc_fmt_create and ipc_rfs_create: the event descriptor and the client of
\* the library; whatever fails, what was made is taken back.
FmtCreate ==
    /\ pc["FMT"] = "none"
    /\ pc' = [pc EXCEPT !["FMT"] = "created"]
    /\ UNCHANGED init

RfsCreate ==
    /\ pc["FMT"] = "created"
    /\ pc' = [pc EXCEPT !["RFS"] = "created"]
    /\ init' = "FMT"

Create ==
    /\ init = "create"
    /\ FmtCreate \/ RfsCreate \/ (init' = "null" /\ UNCHANGED pc)
    /\ UNCHANGED <<modemVars, failures, available, event, sending, radio, tries>>

\* The client that RIL_Init opens is open and its thread polls.
InitOpen(c) ==
    /\ init = c
    /\ modem' = IF c = "FMT" THEN "on" ELSE modem
    /\ inbox' = IF c = "FMT" THEN [d \in Client |-> 0] ELSE inbox
    /\ pc' = [pc EXCEPT ![c] = "poll"]
    /\ available' = [available EXCEPT ![c] = TRUE]
    /\ init' = IF c = "FMT" THEN "RFS" ELSE "done"
    /\ tries' = 0
    /\ UNCHANGED <<failures, event, sending, radio>>

\* Opening it failed; after RIL_CLIENT_RETRY_COUNT failures, or if the thread
\* cannot be started, RIL_Init fails.
InitOpenFails(c) ==
    /\ init = c
    /\ modem' \in IF c = "FMT" THEN {modem, "on"} ELSE {modem}
    /\ tries' = tries + 1
    /\ init' = IF tries + 1 < RetryCount THEN init ELSE "null"
    /\ UNCHANGED <<inbox, pc, failures, available, event, sending, radio>>
InitThreadFails(c) ==
    /\ init = c
    /\ modem' = IF c = "FMT" THEN "on" ELSE modem
    /\ available' = [available EXCEPT ![c] = TRUE]
    /\ init' = "null"
    /\ UNCHANGED <<inbox, pc, failures, event, sending, radio, tries>>

-----------------------------------------------------------------------------
(* The loop of a client thread: ipc_fmt_loop, ipc_rfs_loop.                *)

\* The loop returns -1 and ril_client_thread counts the failure; FMT reports
\* the radio as unavailable.
LoopError(c) ==
    /\ pc' = [pc EXCEPT ![c] = "failed"]
    /\ failures' = [failures EXCEPT ![c] = @ + 1]
    /\ radio' = IF c = "FMT" THEN "out" ELSE radio

\* ipc_client_poll reports the event descriptor, or only the modem device ...
Poll(c) ==
    /\ pc[c] = "poll"
    /\ event[c] > 0 \/ inbox[c] > 0
    /\ pc' = [pc EXCEPT ![c] = IF event[c] > 0 THEN "event" ELSE "recv"]
    /\ UNCHANGED <<modemVars, failures, available, event, sending, radio, initVars>>

\* ... or fails, as it does when the modem is off; FMT takes RIL_LOCK for the
\* radio state then.
PollFails(c) ==
    /\ pc[c] = "poll"
    /\ c = "FMT" => LockFree
    /\ LoopError(c)
    /\ UNCHANGED <<modemVars, available, event, sending, initVars>>

\* eventfd_recv: an I/O error ends the loop, and so does a descriptor that a
\* failed send has emptied meanwhile; a close ends it for good; with any other
\* value the loop goes on to receive, message or not.
RecvEvent(c) ==
    /\ pc[c] = "event"
    /\ \/ /\ event[c] \in {0, IPC_CLIENT_IO_ERROR}
          /\ c = "FMT" => LockFree
          /\ LoopError(c)
       \/ /\ event[c] \notin {IPC_CLIENT_CLOSE, IPC_CLIENT_IO_ERROR}
          /\ pc' = [pc EXCEPT ![c] = "recv"]
          /\ UNCHANGED <<failures, radio>>
    /\ event' = [event EXCEPT ![c] = 0]
    /\ UNCHANGED <<modemVars, available, sending, initVars>>

\* ipc_client_recv under RIL_LOCK: the device is not blocking, so that a
\* receive without message, or from a modem that is off, fails.
Recv(c) ==
    /\ pc[c] = "recv" /\ LockFree
    /\ \/ /\ inbox[c] > 0
          /\ inbox' = [inbox EXCEPT ![c] = @ - 1]
          /\ pc' = [pc EXCEPT ![c] = "dispatch"]
          /\ UNCHANGED <<failures, radio>>
       \/ inbox[c] = 0 /\ LoopError(c) /\ UNCHANGED inbox
    /\ UNCHANGED <<modem, available, event, sending, initVars>>

\* A message that was dispatched clears the failures.
Dispatched(c) ==
    /\ pc' = [pc EXCEPT ![c] = "poll"]
    /\ failures' = [failures EXCEPT ![c] = 0]

\* ipc_fmt_dispatch: a message may report the modem as powered up.
FmtDispatch ==
    /\ pc["FMT"] = "dispatch" /\ LockFree
    /\ \/ Dispatched("FMT") /\ radio' \in {radio, "present"}
       \/ LoopError("FMT")
    /\ UNCHANGED <<modemVars, available, event, sending, initVars>>

\* ipc_rfs_dispatch
RfsDispatch ==
    /\ pc["RFS"] = "dispatch" /\ LockFree
    /\ \/ Dispatched("RFS") /\ UNCHANGED radio
       \/ LoopError("RFS")
    /\ UNCHANGED <<modemVars, available, event, sending, initVars>>

-----------------------------------------------------------------------------
(* ipc_fmt_send, ipc_rfs_send that fail, by whoever holds RIL_LOCK.        *)

\* eventfd_send clears the counter (nobody sends through a client whose thread
\* RIL_Init could not start) ...
SendFails(c) ==
    /\ LockFree /\ available[c] /\ pc[c] # "created"
    /\ sending' = [sending EXCEPT ![c] = TRUE]
    /\ event' = [event EXCEPT ![c] = 0]
    /\ UNCHANGED <<modemVars, pc, failures, available, radio, initVars>>

\* ... and writes it.
SendEvent(c) ==
    /\ sending[c]
    /\ sending' = [sending EXCEPT ![c] = FALSE]
    /\ event' = [event EXCEPT ![c] = @ + IPC_CLIENT_IO_ERROR]
    /\ UNCHANGED <<modemVars, pc, failures, available, radio, initVars>>

-----------------------------------------------------------------------------
(* ril_client_thread: closing and opening under RIL_LOCK.                  *)

Retrying(c) ==
    pc[c] \in {"failed", "closed"} /\ failures[c] < RetryCount /\ LockFree

\* What ipc_fmt_close does to the modem: it runs on after a first failure; and
\* ipc_rfs_close, which always switches it off.
FmtClosed == IF failures["FMT"] = 1 THEN modem ELSE "off"
RfsClosed == "off"
Closed(c) == IF c = "FMT" THEN FmtClosed ELSE RfsClosed

\* What closing and opening do to it: FMT boots it unless it let it run.
FmtOpened == IF failures["FMT"] = 1 THEN FmtClosed ELSE "on"
Opened(c) == IF c = "FMT" THEN FmtOpened ELSE RfsClosed

\* ril_client_close and ril_client_open: both flush the event descriptor, and
\* a modem that was switched off forgets its messages.
Reopen(c) ==
    /\ Retrying(c)
    /\ modem' = Opened(c)
    /\ inbox' = IF Closed(c) = "off" THEN [d \in Client |-> 0]
                ELSE [inbox EXCEPT ![c] = 0]
    /\ pc' = [pc EXCEPT ![c] = "poll"]
    /\ available' = [available EXCEPT ![c] = TRUE]
    /\ event' = [event EXCEPT ![c] = 0]
    /\ UNCHANGED <<failures, sending, initVars>>

\* ipc_fmt_open and ipc_rfs_open: only FMT has a word on the radio state.
FmtReopen ==
    /\ Reopen("FMT")
    /\ radio' = IF failures["FMT"] = 1 THEN "present" ELSE radio
RfsReopen == Reopen("RFS") /\ UNCHANGED radio

\* One of them fails: closing the device or switching the modem off, booting
\* or switching it on, or opening the device.
ReopenFails(c) ==
    /\ Retrying(c)
    /\ modem' \in {modem, Closed(c), Opened(c)}
    /\ inbox' \in {inbox, [d \in Client |-> 0]}
    /\ modem' # modem => inbox' = [d \in Client |-> 0]
    /\ pc' = [pc EXCEPT ![c] = "closed"]
    /\ failures' = [failures EXCEPT ![c] = @ + 1]
    /\ available' = [available EXCEPT ![c] = FALSE]
    /\ event' = [event EXCEPT ![c] = 0]
    /\ UNCHANGED <<sending, radio, initVars>>

\* The thread ends: the client is closed and destroyed.
GiveUp(c) ==
    /\ pc[c] \in {"failed", "closed"} /\ failures[c] >= RetryCount /\ LockFree
    /\ pc' = [pc EXCEPT ![c] = "dead"]
    /\ modem' \in {modem, Closed(c)}
    /\ inbox' = [d \in Client |->
          IF modem' = "off" \/ d = c THEN 0 ELSE inbox[d]]
    /\ available' = [available EXCEPT ![c] = FALSE]
    /\ event' = [event EXCEPT ![c] = 0]
    /\ UNCHANGED <<failures, sending, radio, initVars>>

-----------------------------------------------------------------------------
\* The modem has a message for a client.
ModemSends(c) ==
    /\ modem = "on" /\ inbox[c] = 0
    /\ pc[c] \notin {"none", "created", "dead"}
    /\ inbox' = [inbox EXCEPT ![c] = 1]
    /\ UNCHANGED <<modem, pc, failures, available, event, sending, radio, initVars>>

LoopStep(c) ==
    \/ Poll(c) \/ RecvEvent(c) \/ Recv(c)
    \/ c = "FMT" /\ FmtDispatch
    \/ c = "RFS" /\ RfsDispatch

RetryStep(c) ==
    \/ c = "FMT" /\ FmtReopen
    \/ c = "RFS" /\ RfsReopen
    \/ ReopenFails(c) \/ GiveUp(c)

InitStep(c) == InitOpen(c) \/ InitOpenFails(c) \/ InitThreadFails(c)

Next ==
    \/ Create
    \/ \E c \in Client :
        \/ InitStep(c) \/ LoopStep(c) \/ PollFails(c) \/ RetryStep(c)
        \/ SendFails(c) \/ SendEvent(c) \/ ModemSends(c)

Spec == Init /\ [][Next]_vars

-----------------------------------------------------------------------------
(* Properties.                                                             *)

TypeOK ==
    /\ modem \in {"on", "off"} /\ radio \in {"out", "present"}
    /\ inbox \in [Client -> {0, 1}]
    /\ init \in {"create", "done", "null"} \cup Client /\ tries \in 0 .. RetryCount
    /\ pc \in [Client -> {"none", "created", "poll", "event", "recv", "dispatch",
                          "failed", "closed", "dead"}]
    /\ failures \in [Client -> 0 .. RetryCount]
    /\ available \in [Client -> BOOLEAN]
    /\ event \in [Client -> {IPC_CLIENT_CLOSE, IPC_CLIENT_IO_ERROR}]
    /\ sending \in [Client -> BOOLEAN]

\* The radio is reported as present only while the FMT client is open and
\* its thread is in its loop, whatever the RFS client does to the modem.
PresentIsOpen ==
    radio = "present" => pc["FMT"] \notin {"failed", "closed", "dead"}
=============================================================================
