------------------------------ MODULE ModemTool ------------------------------
(***************************************************************************)
(* The command line tools of libsamsung-ipc that boot a modem and bring it *)
(* to its normal mode: ipc-modem, and its older version modemctrl.         *)
(*                                                                         *)
(* The arguments are commands, done one after the other; "start" boots the *)
(* modem, opens it and handles what it sends until receiving fails.  The   *)
(* modem sends what it likes, in any order.                                *)
(***************************************************************************)
EXTENDS Integers, Sequences, Scenario

\* The instances.
Tool == InRun([safety |-> "ipc-modem", further |-> "modemctrl"])  \* "ipc-modem" or "modemctrl"
\* of the device: how it opens, and whether a failed receive is reported
Device == InRun([safety |-> "aries", further |-> "galaxys2"])
MaxArgs == 2  \* at most so many commands on the command line
Pin == TRUE  \* whether --pin was given
SeqMax == 7  \* the largest sequence number, 0xff

(* The handlers of the devices, as far as the tools tell them apart.       *)
aries_handlers == [open |-> "socket", hides |-> FALSE]
crespo_handlers == [open |-> "device", hides |-> FALSE]
sec_modem_handlers == [open |-> "sec_modem", hides |-> FALSE]

\* The older library: xmm6260_ipc_fmt_client_recv returns 0 when the read
\* failed, and leaves all but the data of the message as it was.
aries_default_handlers == [open |-> "socket", hides |-> FALSE]
crespo_default_handlers == [open |-> "device", hides |-> FALSE]
xmm6260_default_handlers == [open |-> "device", hides |-> TRUE]

devices ==
    IF Tool = "ipc-modem"
    THEN [aries |-> aries_handlers, crespo |-> crespo_handlers,
          galaxys2 |-> sec_modem_handlers]
    ELSE [aries |-> aries_default_handlers, crespo |-> crespo_default_handlers,
          galaxys2 |-> xmm6260_default_handlers]

Command == {"power-on", "power-off", "boot", "start"}

\* Without a command main prints its help.
CommandLine == UNION {[1 .. n -> Command \cup {"unknown"}] : n \in 1 .. MaxArgs}

\* The states of the modem the tool knows; whatever else the four bytes of a
\* one byte answer make is Garbage.
LPM == 0
NORMAL == 2
SIM_OK == 4
Garbage == 99

\* What the modem sends, and that of which no handler looks at the data.
Message == {"PWR_UP", "PHONE_STATE", "SMS_DEVICE_READY", "PIN1_REQ",
            "SIM_INIT", "SIM_OTHER", "CALL_INCOMING", "CALL_LIST", "DIALING",
            "CONNECTED", "RELEASED", "DISP", "NET"}
Unread == {"PWR_UP", "SMS_DEVICE_READY", "CALL_INCOMING", "CALL_LIST", "DISP"}

VARIABLES
    pc,         \* "args", "read", "failed" after a receive that failed,
                \* "stop" after a start that failed, "exit" or "crash"
    args,       \* the command line
    optind,     \* the argument in turn
    fd,         \* the descriptor of the client: "null" without data, "zero"
                \* before it was opened, "own" or "closed"
    power,      \* the modem is "on" or "off"
    state,      \* the global variables of the tool
    seq,
    in_call,
    resp        \* the message in the buffer of the loop, or "none"

toolVars == <<state, seq, in_call, resp>>
vars == <<pc, args, optind, fd, power, toolVars>>

Init ==
    /\ pc = "args" /\ args \in CommandLine /\ optind = 1
    /\ fd = "null" /\ power = "off"
    /\ state = LPM /\ seq = 0 /\ in_call = FALSE
    /\ resp = "none"

-----------------------------------------------------------------------------
(* Sending.                                                                *)

\* seq after n more calls of seq_get.
seq_get(n) == IF n = 0 THEN seq ELSE ((seq + n - 1) % SeqMax) + 1

Send(n) == seq' = seq_get(n)

-----------------------------------------------------------------------------
(* The handlers of the messages; each sends so many messages itself.       *)

modem_response_pwr(m) ==
    /\ m \in {"PWR_UP", "PHONE_STATE"}
    /\ \/ m = "PWR_UP" /\ state' = LPM
       \/ m = "PHONE_STATE" /\ state' \in {LPM, NORMAL, Garbage}
    /\ Send(0)
    /\ UNCHANGED in_call

\* A SIM that is ready counts only in the normal mode.
modem_response_sec(m) ==
    /\ m \in {"PIN1_REQ", "SIM_INIT", "SIM_OTHER"}
    /\ Send(IF m = "PIN1_REQ" /\ Pin THEN 1 ELSE 0)
    /\ state' = IF m = "SIM_INIT" /\ state = NORMAL THEN SIM_OK ELSE state
    /\ UNCHANGED in_call

\* modem_exec_power_normal or modem_set_sms_device_ready
modem_response_sms(m) ==
    /\ m = "SMS_DEVICE_READY"
    /\ Send(IF state \in {LPM, SIM_OK} THEN 1 ELSE 0)
    /\ UNCHANGED <<state, in_call>>

\* modem_get_call_list is two messages, with the one against a muted
\* microphone; dialing is the clock, volume, path and the call list.
modem_response_call(m) ==
    /\ m \in {"CALL_INCOMING", "CALL_LIST", "DIALING", "CONNECTED", "RELEASED"}
    /\ Send(CASE m = "CALL_INCOMING" -> 2 [] m = "CALL_LIST" -> 0
              [] m = "DIALING" -> 5 [] OTHER -> 1)
    /\ in_call' = (in_call \/ m = "CALL_INCOMING")
    /\ UNCHANGED state

modem_response_net(m) ==
    /\ m = "NET"
    /\ UNCHANGED <<seq, state, in_call>>

modem_response_disp(m) ==
    /\ m = "DISP"
    /\ Send(IF in_call THEN 1 ELSE 0)
    /\ UNCHANGED <<state, in_call>>

modem_response_handle(m) ==
    \/ modem_response_net(m) \/ modem_response_pwr(m) \/ modem_response_sec(m)
    \/ modem_response_sms(m) \/ modem_response_call(m) \/ modem_response_disp(m)

-----------------------------------------------------------------------------
(* The loop.                                                               *)

\* A message is received and handled.
Receive(m) ==
    /\ pc = "read"
    /\ modem_response_handle(m)
    /\ resp' = m
    /\ UNCHANGED <<pc, args, optind, fd, power>>

\* Mutant of ReceiveFails: the loop goes on.
ReceiveFailsOn ==
    /\ pc = "read" /\ ~devices[Device].hides
    /\ resp' = "none"
    /\ UNCHANGED <<pc, args, optind, fd, power, state, seq, in_call>>

\* Receiving fails and ends the loop ...
ReceiveFails ==
    /\ pc = "read" /\ ~devices[Device].hides
    /\ pc' = "failed"
    /\ UNCHANGED <<args, optind, fd, power, toolVars>>

\* ... or is hidden: the last message is handled again, its data a null
\* pointer that a handler which looks at it follows.
ReceiveHides ==
    /\ pc = "read" /\ devices[Device].hides
    /\ \/ resp \in Unread /\ modem_response_handle(resp) /\ UNCHANGED pc
       \/ /\ resp \in Message \ Unread
          /\ pc' = "crash"
          /\ UNCHANGED <<state, seq, in_call>>
       \/ resp = "none" /\ UNCHANGED <<pc, state, seq, in_call>>
    /\ UNCHANGED <<args, optind, fd, power, resp>>

-----------------------------------------------------------------------------
(* The commands.                                                           *)

Closed == IF fd \in {"own", "zero"} THEN "closed" ELSE fd

\* Powering off may fail; a descriptor of zero is closed as well.
modem_stop ==
    /\ power' \in {power, "off"}
    /\ fd' = Closed

\* New transport data, and the boot, the open and the power, one of which may
\* fail: "stop" is next then.
modem_start ==
    /\ \/ pc' = "read" /\ fd' = "own" /\ power' = "on"
       \/ /\ pc' = "stop"
          /\ fd' \in {"zero", "own"} \cup
                 (IF devices[Device].open = "sec_modem" THEN {"closed"} ELSE {})
          /\ power' \in {power, "on"}
    /\ UNCHANGED <<args, optind, toolVars>>

\* That of modemctrl goes on after a boot that failed.
modem_start_old ==
    /\ \/ pc' = "read" /\ fd' = "own" /\ power' \in {power, "on"}
       \/ pc' = "stop" /\ fd' \in {"zero", "own"} /\ power' \in {power, "on"}
    /\ UNCHANGED <<args, optind, toolVars>>

\* The commands of main: the power commands are the last that is done.
Argument ==
    /\ pc = "args" /\ optind <= Len(args)
    /\ \/ /\ args[optind] = "power-on"
          /\ power' \in {power, "on"} /\ pc' = "exit"
          /\ UNCHANGED <<args, optind, fd, toolVars>>
       \/ /\ args[optind] = "power-off"
          /\ power' \in {power, "off"} /\ pc' = "exit"
          /\ UNCHANGED <<args, optind, fd, toolVars>>
       \/ /\ args[optind] = "boot"
          /\ power' \in {power, "on"} /\ optind' = optind + 1
          /\ fd' = IF Tool = "modemctrl" THEN "zero" ELSE fd
          /\ UNCHANGED <<pc, args, toolVars>>
       \/ /\ args[optind] = "start"
          /\ IF Tool = "ipc-modem" THEN modem_start ELSE modem_start_old
       \/ /\ args[optind] \notin Command
          /\ pc' = "exit"
          /\ UNCHANGED <<args, optind, fd, power, toolVars>>

\* The modem is stopped after the loop, which ends when receiving fails, and
\* the tool exits if the modem did not start.
Stop ==
    /\ pc \in {"failed", "stop"}
    /\ modem_stop
    /\ IF pc = "failed" THEN pc' = "args" /\ optind' = optind + 1
       ELSE pc' = "exit" /\ UNCHANGED optind
    /\ UNCHANGED <<args, toolVars>>

\* After the last argument ipc-modem is done.  modemctrl compares opt_i, not
\* optind, with argc: it looks at the null pointer that ends argv.
NoMoreArguments ==
    /\ pc = "args" /\ optind > Len(args)
    /\ pc' = IF Tool = "ipc-modem" THEN "exit" ELSE "crash"
    /\ UNCHANGED <<args, optind, fd, power, toolVars>>

Next ==
    \/ Argument \/ NoMoreArguments \/ Stop
    \/ ReceiveFails \/ ReceiveHides \/ \E m \in Message : Receive(m)

Spec == Init /\ [][Next]_vars

-----------------------------------------------------------------------------
(* Properties.                                                             *)

TypeOK ==
    /\ pc \in {"args", "read", "failed", "stop", "exit", "crash"}
    /\ args \in CommandLine /\ optind \in 1 .. Len(args) + 1
    /\ fd \in {"null", "zero", "own", "closed"} /\ power \in {"on", "off"}
    /\ state \in {LPM, NORMAL, SIM_OK, Garbage} /\ seq \in 0 .. SeqMax
    /\ in_call \in BOOLEAN /\ resp \in Message \cup {"none"}

\* The tool does what its help says ("boot modem only", "bootstrap modem
\* only") and ends, without following a null pointer.
NoCrash == pc # "crash"

\* However the commands end, the device of the modem is not left open.
LeavesClosed == pc = "exit" => fd # "own"
=============================================================================
