------------------------------ MODULE IpcClient ------------------------------
(***************************************************************************)
(* The clients of libsamsung-ipc (ipc.c and the handlers of the devices)   *)
(* and the file descriptors behind them, as Samsung-RIL uses them          *)
(* (samsung-ril.c, client.c, ipc.c).                                       *)
(*                                                                         *)
(* Two clients, the SRS server and the C library share one table of file   *)
(* descriptors, in which a number that was closed is used again at once.   *)
(* A client remembers its descriptor as a number in its transport data:    *)
(* what it does with a number that is no longer, or was never, its own     *)
(* happens to somebody else.                                               *)
(***************************************************************************)
EXTENDS Integers

\* The instances.
RetryCount == 3  \* RIL_CLIENT_RETRY_COUNT
MaxFd == 5  \* the largest descriptor of the process

(* The handlers of the devices: which handler opens, which one closes, and *)
(* what those that boot the modem and power it on and off can return.      *)
(* Reading, writing and polling are alike on all of them, activating GPRS  *)
(* has no state, and only the FMT client boots.                            *)

Fallible == {0, -1}
aries_handlers == [open |-> "socket", close |-> "checked",
    boot |-> Fallible, power_on |-> Fallible, power_off |-> Fallible]
crespo_handlers == [open |-> "device", close |-> "checked",
    boot |-> Fallible, power_on |-> Fallible, power_off |-> Fallible]

\* Those with a sec modem are powered on by their boot.
galaxys2_handlers == [open |-> "sec_modem", close |-> "sec_modem",
    boot |-> Fallible, power_on |-> {0}, power_off |-> Fallible]
maguro_handlers == [open |-> "sec_modem", close |-> "sec_modem",
    boot |-> Fallible, power_on |-> {0}, power_off |-> Fallible]
piranha_handlers == [open |-> "sec_modem", close |-> "sec_modem",
    boot |-> Fallible, power_on |-> {0}, power_off |-> Fallible]
i9300_handlers == [open |-> "sec_modem", close |-> "sec_modem",
    boot |-> Fallible, power_on |-> {0}, power_off |-> Fallible]
n7100_handlers == [open |-> "sec_modem", close |-> "sec_modem",
    boot |-> Fallible, power_on |-> {0}, power_off |-> Fallible]

ipc_devices == [aries |-> aries_handlers, crespo |-> crespo_handlers,
    galaxys2 |-> galaxys2_handlers, maguro |-> maguro_handlers,
    piranha |-> piranha_handlers, i9300 |-> i9300_handlers,
    n7100 |-> n7100_handlers]

VARIABLES
    device,     \* the name of the device in ipc_devices
    table,      \* to whom each descriptor belongs, or "free"
    transport,  \* the descriptor in the transport data of a client, or NULL
    pc,         \* what the thread of each client does next
    lock,       \* who holds RIL_LOCK, or "free"
    failures,   \* client->failures; the failures of RIL_Init before that
    reached,    \* how far the last retry of each client came
    half,       \* aries: the clients of which an open has failed
    strayed     \* a client closed or used a descriptor that was not its own

\* client->handlers
handlers == ipc_devices[device]

Client == {"FMT", "RFS"}
Fd == 0 .. MaxFd

\* No transport data.
NULL == -2

vars == <<device, table, transport, pc, lock, failures, reached, half, strayed>>

\* The event descriptors of the clients.
Event(c) == IF c = "FMT" THEN 1 ELSE 2

\* ipc_fmt_create and ipc_rfs_create: an event descriptor each, and transport
\* data of zeros.
Init ==
    /\ device \in {"crespo", "n7100", "aries"}
    /\ table = [fd \in Fd |-> CASE fd = 0 -> "stdin"
                                [] fd \in {1, 2} -> "event"
                                [] OTHER -> "free"]
    /\ transport = [c \in Client |-> 0]
    /\ pc = [c \in Client |-> "init"]
    /\ lock = "init"
    /\ failures = [c \in Client |-> 0]
    /\ reached = [c \in Client |-> "open"]
    /\ half = {} /\ strayed = FALSE

-----------------------------------------------------------------------------
(* The table of descriptors (external).                                    *)

Free == {fd \in Fd : table[fd] = "free"}
Lowest == CHOOSE fd \in Free : \A other \in Free : fd <= other

\* close(fd) by client c, which may be somebody else's descriptor.
CloseFd(c, fd) ==
    /\ table' = [table EXCEPT ![fd] = "free"]
    /\ strayed' = (strayed \/ table[fd] # c)

\* open or socket by client c.
OpenFd(c) ==
    /\ Free # {}
    /\ table' = [table EXCEPT ![Lowest] = c]

-----------------------------------------------------------------------------
(* The open handlers: rc is what the handler returns.                      *)

\* aries: the transport data is cleared first; the socket is recorded once it
\* is bound, and nothing closes it when a step behind socket() fails.
SocketOpen(c, rc) ==
    /\ \/ /\ rc = -1
          /\ transport' = [transport EXCEPT ![c] = 0]
          /\ UNCHANGED table \/ OpenFd(c)
       \/ OpenFd(c) /\ transport' = [transport EXCEPT ![c] = Lowest]
    /\ half' = IF rc = 0 THEN half ELSE half \cup {c}

\* crespo: a device that cannot be opened leaves the descriptor as it was.
DeviceOpen(c, rc) ==
    \/ rc = -1 /\ UNCHANGED <<table, transport>>
    \/ rc = 0 /\ OpenFd(c) /\ transport' = [transport EXCEPT ![c] = Lowest]

\* The others record whatever xmm626_sec_modem_open returns.
SecModemOpen(c, rc) ==
    \/ rc = -1 /\ UNCHANGED table /\ transport' = [transport EXCEPT ![c] = -1]
    \/ rc = 0 /\ OpenFd(c) /\ transport' = [transport EXCEPT ![c] = Lowest]

ipc_client_open(c, rc) ==
    CASE handlers.open = "socket" -> SocketOpen(c, rc)
      [] handlers.open = "device" -> DeviceOpen(c, rc) /\ UNCHANGED half
      [] handlers.open = "sec_modem" -> SecModemOpen(c, rc) /\ UNCHANGED half

-----------------------------------------------------------------------------
(* The close handlers.                                                     *)

\* Mutant of CheckedClose: the number is kept.
CloseKeeps(c, rc) ==
    /\ rc = IF transport[c] < 0 THEN -1 ELSE 0
    /\ UNCHANGED transport
    /\ IF rc < 0 THEN UNCHANGED <<table, strayed>> ELSE CloseFd(c, transport[c])
\* aries, crespo: a client without descriptor cannot be closed.
CheckedClose(c, rc) ==
    /\ rc = IF transport[c] < 0 THEN -1 ELSE 0
    /\ transport' = [transport EXCEPT ![c] = -1]
    /\ IF rc < 0 THEN UNCHANGED <<table, strayed>> ELSE CloseFd(c, transport[c])

\* The others ignore what xmm626_sec_modem_close returns.
SecModemClose(c, rc) ==
    /\ rc = 0
    /\ transport' = [transport EXCEPT ![c] = -1]
    /\ IF transport[c] < 0 THEN UNCHANGED <<table, strayed>>
       ELSE CloseFd(c, transport[c])

ipc_client_close(c, rc) ==
    CASE handlers.close = "checked" -> CheckedClose(c, rc)
      [] handlers.close = "sec_modem" -> SecModemClose(c, rc)

-----------------------------------------------------------------------------
(* Reading, writing and polling: the kernel is asked about the number in   *)
(* the transport data, unless it is negative.  What the handlers return.   *)

AriesIo(c) == IF transport[c] < 0 THEN {-1} ELSE Fallible
CrespoIo(c) == IF transport[c] < 0 THEN {-1} ELSE Fallible

\* Also -1 when the modem is neither online nor booting.
SecModemIo(c) == IF transport[c] < 0 THEN {-1} ELSE Fallible

\* ipc_client_poll, ipc_client_recv, ipc_client_send
Io(c) ==
    CASE handlers.open = "socket" -> AriesIo(c)
      [] handlers.open = "device" -> CrespoIo(c)
      [] handlers.open = "sec_modem" -> SecModemIo(c)

-----------------------------------------------------------------------------
(* ril_client_open: what ipc_fmt_open and ipc_rfs_open call.               *)

\* FMT boots the modem first, unless this is its first failure, and a boot
\* that fails is the end of it.
RilOpen(c, first, rc) ==
    \/ /\ c = "FMT" /\ ~first /\ rc = -1
       /\ -1 \in handlers.boot \cup handlers.power_on
       /\ UNCHANGED <<table, transport, half>>
    \/ ipc_client_open(c, rc)

\* RIL_Init opens FMT and then RFS, each as often as it takes, and starts
\* their threads; after RetryCount failures it returns NULL.
InitOpen(c) ==
    /\ lock = "init" /\ pc[c] = "init" /\ (c = "RFS" => pc["FMT"] = "loop")
    /\ \E rc \in {0, -1} :
        /\ RilOpen(c, FALSE, rc)
        /\ pc' = [pc EXCEPT ![c] = IF rc = 0 THEN "loop"
                                   ELSE IF failures[c] + 1 < RetryCount
                                        THEN "init" ELSE "null"]
        /\ failures' = [failures EXCEPT ![c] = IF rc = 0 THEN 0 ELSE @ + 1]
    /\ lock' = IF pc'["RFS"] = "loop" \/ pc'[c] = "null" THEN "free" ELSE lock
    /\ UNCHANGED <<reached, strayed>>

\* The loop of a client polls, receives or sends.  A message clears the
\* failures.
Loop(c) ==
    /\ pc[c] = "loop" /\ lock = "free"
    /\ strayed' = (strayed \/ (transport[c] >= 0 /\ table[transport[c]] # c))
    /\ \E rc \in Io(c) :
        /\ failures' = [failures EXCEPT ![c] = IF rc = 0 THEN 0 ELSE @ + 1]
        /\ pc' = [pc EXCEPT ![c] = IF rc = 0 THEN "loop" ELSE "retry"]
    /\ UNCHANGED <<table, transport, lock, reached, half>>

\* A retry: ril_client_close, under RIL_LOCK.  RFS always switches the modem
\* off, FMT unless this is its first failure.
Retry(c) ==
    /\ pc[c] = "retry" /\ lock = "free" /\ failures[c] < RetryCount
    /\ \E rc \in {0, -1}, off \in handlers.power_off :
        LET off_too == c = "RFS" \/ failures[c] # 1
            closed == rc = 0 /\ (off_too => off = 0) IN
        /\ ipc_client_close(c, rc)
        /\ reached' = [reached EXCEPT ![c] = IF rc = 0 THEN "modem" ELSE "close"]
        /\ pc' = [pc EXCEPT ![c] = IF closed THEN "reopen" ELSE "retry"]
        /\ lock' = IF closed THEN c ELSE lock
        /\ failures' = [failures EXCEPT ![c] = IF closed THEN @ ELSE @ + 1]
    /\ UNCHANGED half

\* ... and ril_client_open.
Reopen(c) ==
    /\ pc[c] = "reopen" /\ lock = c
    /\ \E rc \in {0, -1} :
        /\ RilOpen(c, failures[c] = 1, rc)
        /\ pc' = [pc EXCEPT ![c] = IF rc = 0 THEN "loop" ELSE "retry"]
        /\ failures' = [failures EXCEPT ![c] = IF rc = 0 THEN @ ELSE @ + 1]
    /\ lock' = "free"
    /\ reached' = [reached EXCEPT ![c] = "open"]
    /\ UNCHANGED strayed

\* The end of the thread: ril_client_close, whatever it returns, and
\* ril_client_destroy, which closes the event descriptor and frees the
\* transport data (ipc_client_data_destroy, ipc_client_destroy).
GiveUp(c) ==
    /\ pc[c] = "retry" /\ lock = "free" /\ failures[c] >= RetryCount
    /\ \E rc \in {0, -1} : ipc_client_close(c, rc)
    /\ lock' = c
    /\ pc' = [pc EXCEPT ![c] = "closed"]
    /\ UNCHANGED <<failures, reached, half>>
Destroy(c) ==
    /\ pc[c] = "closed"
    /\ table' = [table EXCEPT ![Event(c)] = "free"]
    /\ transport' = [transport EXCEPT ![c] = NULL]
    /\ pc' = [pc EXCEPT ![c] = "dead"]
    /\ lock' = "free"
    /\ UNCHANGED <<failures, reached, half, strayed>>

\* Everybody else in the process: the SRS server opens a connection, or
\* closes it.
OtherOpens ==
    /\ Free # {} /\ \A fd \in Fd : table[fd] # "srs"
    /\ table' = [table EXCEPT ![Lowest] = "srs"]
    /\ UNCHANGED <<transport, pc, lock, failures, reached, half, strayed>>
OtherCloses ==
    /\ \E fd \in Fd :
        /\ table[fd] = "srs"
        /\ table' = [table EXCEPT ![fd] = "free"]
    /\ UNCHANGED <<transport, pc, lock, failures, reached, half, strayed>>

Next ==
    /\ \/ OtherOpens \/ OtherCloses
       \/ \E c \in Client :
            InitOpen(c) \/ Loop(c) \/ Retry(c) \/ Reopen(c) \/ GiveUp(c) \/ Destroy(c)
    /\ UNCHANGED device

Spec == Init /\ [][Next]_vars
-----------------------------------------------------------------------------
(* Properties.                                                             *)

TypeOK ==
    /\ table \in [Fd -> {"free", "stdin", "event", "srs"} \cup Client]
    /\ transport \in [Client -> {NULL, -1} \cup Fd]
    /\ pc \in [Client -> {"init", "null", "loop", "retry", "reopen", "closed", "dead"}]
    /\ lock \in {"init", "free"} \cup Client
    /\ failures \in [Client -> 0 .. RetryCount]
    /\ reached \in [Client -> {"close", "modem", "open"}]
    /\ half \subseteq Client
    /\ strayed \in BOOLEAN

\* No client closes, polls, reads or writes a descriptor it did not open
\* itself, in whatever order the two clients and the SRS server open, fail
\* and close: the close handlers forget the number they closed. On aries that
\* ends with the first open that fails: it leaves 0 in the transport data,
\* and the retry closes descriptor 0, whoever has it (aries.c 499, 566-575).
OwnDescriptors == strayed => half # {}

\* A descriptor a client has opened is in its transport data until it is
\* closed, but for the sockets of aries: an open that fails behind socket()
\* loses its own (aries.c 522-555).
NoneLost ==
    half = {} => \A fd \in Fd : table[fd] \in Client => transport[table[fd]] = fd

\* A client is given up only after retries that reached the modem: its own
\* close handler never uses up the retries of ril_client_thread. Those of aries
\* and crespo do: they fail for a client that has no descriptor.
RetriesReachModem ==
    handlers.close # "checked" => \A c \in Client : pc[c] = "dead" => reached[c] # "close"
=============================================================================
