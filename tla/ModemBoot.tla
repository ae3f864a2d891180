------------------------------- MODULE ModemBoot -------------------------------
(****************************************************************************)
(* Booting a modem with libsamsung-ipc.  The host runs the sequence of       *)
(* operations of its device (BootSequences) against a modem that takes       *)
(* commands in the order its boot loader wants them, answers when it gets to *)
(* it, may answer each ATAT it sees, and may stop, refuse or be slow.  A     *)
(* failed boot is tried again, as the ril's client loop does, with the modem *)
(* left as it is.                                                            *)
(****************************************************************************)
EXTENDS BootSequences, Scenario

\* The instances.
\* the devices of the run
Devices == InRun([
     safety |-> {"i9300", "n7100", "galaxys2", "maguro", "piranha", "crespo", "aries"},
     further |-> {"old_galaxys2", "old_maguro", "old_aries", "old_crespo", "old_piranha"},
     progress |-> {"i9300", "galaxys2", "crespo", "old_maguro", "old_crespo", "old_piranha"}])
AtMax == 2  \* ATAT is given up after this many (51 in the code)
AckMax == 7  \* units read in search of an acknowledgement (50 in the code)
MaxAttempts == 3  \* boots tried
MaxFaults == 2  \* operations and answers that go wrong
\* the modem may answer each ATAT it sees, not only the first
AnswersEach == Run = "safety"

VARIABLES
    device,
    boot,       \* its sequence of operations, ops->boot
    rom,        \* what its modem's loader takes and answers
    pc,         \* position in the device's sequence
    waiting,    \* an ATAT was written and its answer is waited for
    tries,      \* ATATs written in vain
    reads,      \* units read in search of an acknowledgement
    fds,        \* descriptors open
    stray,      \* a descriptor was closed that the boot had not opened
    result,     \* "none" while the boot runs; "ok" or "failed", as its caller sees it
    attempt,
    faults,     \* faults so far
    faulty,     \* one of them hit this boot
    modem,      \* [on, next: the command it wants next, dead]
    link,       \* the host side of the link is powered
    inbox,      \* written to the modem, not taken yet
    line,       \* sent by the modem, not read yet
    early       \* the modem got a command it was not ready for, since it was last turned on

host == <<pc, waiting, tries, reads, fds, stray, result>>
board == <<device, boot, rom>>
vars == <<board, host, attempt, faults, faulty, modem, link, inbox, line, early>>

-----------------------------------------------------------------------------
(* Nothing but the last reset, which no answer confirms, may be missing. *)
Needed == Cardinality({i \in 1 .. Len(rom) : rom[i].cmd # "hwReset"})

(* The command the modem wants next. *)
Wants(cmd) == modem.next <= Len(rom) /\ rom[modem.next].cmd = cmd

op == boot[pc]
AtOp(call) == result = "none" /\ pc <= Len(boot) /\ op.op = call

(* The descriptors the end of a boot closes.  The newer code closes those that *)
(* are open; the older loaders start from a zeroed record and so close what    *)
(* they have not come to opening too, descriptor 0, unless the open itself     *)
(* failed; the oldest close nothing after an error.                            *)
OpenFailed == IF AtOp("open") THEN {op.arg} ELSE {}

Closes(d) ==
    CASE d \in {"i9300", "n7100", "galaxys2"} -> {"image", "boot", "link"} \cap fds
      [] d \in {"maguro", "piranha"} -> {"image", "boot"} \cap fds
      [] d = "crespo" -> {"serial", "ctl"} \cap fds
      [] d = "aries" -> {"serial", "onedram"} \cap fds
      [] d \in {"old_galaxys2", "old_piranha"} -> {"image", "boot", "link"} \ OpenFailed
      [] d = "old_maguro" -> (fds \cup {"boot"}) \ OpenFailed
      [] d \in {"old_aries", "old_crespo"} -> {}

(* The boot returns. *)
Finish(r) ==
    /\ result' = r
    /\ stray' = (stray \/ ~(Closes(device) \subseteq fds))
    /\ fds' = fds \ Closes(device)
    /\ line' = <<>>
    /\ UNCHANGED <<pc, waiting, tries, reads>>

GoOn(n) ==
    /\ pc' = pc + n
    /\ waiting' = FALSE /\ reads' = 0
    /\ UNCHANGED <<tries, fds, stray, result>>

(* What the code does with an operation that went wrong. *)
Outcome(o) ==
    \/ o[1] \in {"error", "either"} /\ Finish("failed")
    \/ o[1] = "claim" /\ Finish("ok")
    \/ o[1] \in {"go", "either"} /\ GoOn(o[2]) /\ UNCHANGED line
    \/ o[1] = "retry" /\ tries < AtMax /\ pc' = pc - 1 /\ tries' = tries + 1 /\ reads' = 0
         /\ UNCHANGED <<waiting, fds, stray, result, line>>
    \/ o[1] = "retry" /\ tries = AtMax /\ Finish("failed")

Fault == faults < MaxFaults /\ faults' = faults + 1 /\ faulty' = TRUE
NoFault == UNCHANGED <<faults, faulty>>

-----------------------------------------------------------------------------
(* The operations. *)
Complete ==
    /\ result = "none" /\ pc > Len(boot)
    /\ Finish("ok") /\ NoFault
    /\ UNCHANGED <<board, attempt, modem, link, inbox, early>>

(* open, close, mmap, loading a file: on the host alone. *)
OpenOrHost ==
    /\ \E call \in {"open", "close", "host"} : AtOp(call)
    /\ pc' = pc + 1
    /\ fds' = CASE op.op = "open" -> fds \cup {op.arg} [] op.op = "close" -> fds \ {op.arg} [] OTHER -> fds
    /\ NoFault
    /\ UNCHANGED <<board, waiting, tries, reads, stray, result, attempt, modem, link, inbox, line, early>>

(* A call that fails, other than one that waits. *)
CallFails ==
    /\ \E call \in {"open", "host", "send", "put", "at"} : AtOp(call)
    /\ Fault /\ Outcome(op.fail)
    /\ UNCHANGED <<board, attempt, modem, link, inbox, early>>

(* Power and link controls; turning the modem on starts its boot ROM. *)
Powered(calls) ==
    [on |-> calls \cap {"modemOff", "ctlOff"} = {}, next |-> 1, dead |-> FALSE]

Restarts(calls) ==
    \/ calls \cap {"modemOff", "ctlOff", "modemOn", "modemReset"} # {}
    \/ "ctlOn" \in calls /\ ~modem.on

ApplyPower(calls) ==
    /\ modem' = IF Restarts(calls) THEN Powered(calls) ELSE modem
    /\ link' = CASE calls \cap {"hciOff"} # {} -> FALSE [] calls \cap {"hciOn"} # {} -> TRUE [] OTHER -> link
    /\ inbox' = IF Restarts(calls) THEN <<>> ELSE inbox
    /\ early' = (early /\ ~Restarts(calls))

xmm626_sec_modem_power ==
    /\ AtOp("power")
    /\ \/ ApplyPower(op.arg) /\ GoOn(1) /\ NoFault /\ line' = IF Restarts(op.arg) THEN <<>> ELSE line
       \/ \E done \in SUBSET op.arg : done # op.arg /\ ApplyPower(done) /\ Fault /\ Outcome(op.fail)
    /\ UNCHANGED <<board, attempt>>

(* Polling, with the outcome of its last poll. *)
Holds(condition) ==
    /\ modem.on /\ ~modem.dead
    /\ condition = "linkConnected" => link
    /\ condition = "online" => modem.next > Len(rom)
Stuck == modem.dead \/ ~modem.on \/ inbox = <<>>

xmm626_sec_modem_wait ==
    /\ AtOp("wait")
    /\ \/ Holds(op.arg) /\ GoOn(1) /\ NoFault /\ UNCHANGED line
       \/ ~Holds(op.arg) /\ Stuck /\ Outcome(op.late) /\ NoFault
       \/ Fault /\ Outcome(op.late)
    /\ UNCHANGED <<board, attempt, modem, link, inbox, early>>

(* What is written reaches a modem that is on. *)
Written(cmd) == inbox' = IF modem.on THEN Append(inbox, cmd) ELSE inbox

Send ==
    /\ AtOp("send")
    /\ Written(op.arg) /\ GoOn(1) /\ NoFault
    /\ UNCHANGED <<board, attempt, modem, link, line, early>>

(* A copy into memory the modem reads its images from. *)
Put ==
    /\ AtOp("put")
    /\ GoOn(1) /\ NoFault
    /\ modem' = IF Wants(op.arg) THEN [modem EXCEPT !.next = @ + 1] ELSE modem
    /\ UNCHANGED <<board, attempt, link, inbox, line, early>>

(* The ATAT loop: the count is looked at after the answer. *)
AtWrite ==
    /\ AtOp("at") /\ ~waiting
    /\ waiting' = TRUE
    /\ Written("AT") /\ NoFault
    /\ UNCHANGED <<board, pc, tries, reads, fds, stray, result, attempt, modem, link, line, early>>

AtSelectUnbounded ==
    /\ AtOp("at") /\ waiting
    /\ IF line # <<>> THEN GoOn(1) /\ UNCHANGED line
       ELSE waiting' = FALSE /\ tries' = tries + 1 /\ UNCHANGED <<pc, reads, fds, stray, result, line>>
    /\ NoFault
    /\ UNCHANGED <<board, attempt, modem, link, inbox, early>>

AtSelect ==
    /\ AtOp("at") /\ waiting
    /\ IF tries > AtMax THEN Finish("failed") /\ NoFault
       ELSE IF line # <<>> THEN GoOn(1) /\ NoFault /\ UNCHANGED line
       ELSE /\ waiting' = FALSE /\ tries' = tries + 1
            /\ IF tries < AtMax \/ Stuck THEN NoFault ELSE Fault
            /\ UNCHANGED <<pc, reads, fds, stray, result, line>>
    /\ UNCHANGED <<board, attempt, modem, link, inbox, early>>

(* Units read from the line: one, or one acknowledgement's. *)
Chunk(n) == SubSeq(line, 1, IF Len(line) < n THEN Len(line) ELSE n)
Left(n) == SubSeq(line, n + 1, Len(line))

Read ==
    /\ AtOp("read") \/ AtOp("peek")
    /\ line # <<>>
    /\ GoOn(1) /\ NoFault
    /\ line' = IF op.op = "read" THEN Tail(line) ELSE line
    /\ UNCHANGED <<board, attempt, modem, link, inbox, early>>

AckRead ==
    /\ AtOp("ack") /\ line # <<>>
    /\ LET got == Chunk(Len(op.arg)) IN
       IF got = op.arg
       THEN GoOn(1) /\ line' = Left(Len(op.arg))
       ELSE IF reads + 1 < AckMax
       THEN /\ reads' = reads + 1 /\ line' = Left(Len(op.arg))
            /\ UNCHANGED <<pc, waiting, tries, fds, stray, result>>
       ELSE Outcome(op.odd)
    /\ NoFault
    /\ UNCHANGED <<board, attempt, modem, link, inbox, early>>

(* A unit that must be the expected one. *)
ReplyRead ==
    /\ AtOp("exact") \/ AtOp("reply")
    /\ line # <<>>
    /\ IF Head(line) = op.arg THEN GoOn(1) /\ line' = Tail(line) ELSE Outcome(op.odd)
    /\ NoFault
    /\ UNCHANGED <<board, attempt, modem, link, inbox, early>>

(* Nothing arrives in time: the modem has nothing to say, or is slow. *)
Timeout ==
    /\ \E call \in {"read", "peek", "ack", "exact", "reply"} : AtOp(call)
    /\ line = <<>>
    /\ IF Stuck THEN NoFault ELSE Fault
    /\ Outcome(op.late)
    /\ UNCHANGED <<board, attempt, modem, link, inbox, early>>

-----------------------------------------------------------------------------
(* The modem takes a command (external).  One it does not want it ignores;   *)
(* an ATAT that follows the first it may answer again.                       *)
ModemTakes ==
    /\ modem.on /\ ~modem.dead /\ inbox # <<>>
    /\ inbox' = Tail(inbox)
    /\ LET cmd == Head(inbox) IN
       \/ /\ Wants(cmd)
          /\ modem' = [modem EXCEPT !.next = @ + 1]
          /\ line' = line \o rom[modem.next].answer
          /\ NoFault /\ UNCHANGED early
       \/ /\ ~Wants(cmd)
          /\ early' = (early \/ cmd # "AT")
          /\ line' \in IF AnswersEach /\ cmd = "AT" /\ modem.next = 2 THEN {line, line \o rom[1].answer} ELSE {line}
          /\ NoFault /\ UNCHANGED modem
       \/ /\ Wants(cmd) /\ cmd # "AT"
          /\ line' = Append(line, "refused")
          /\ Fault /\ UNCHANGED <<modem, early>>
       \/ /\ Wants(cmd) /\ Len(rom[modem.next].answer) > 1
          /\ line' = Append(line, Head(rom[modem.next].answer))
          /\ modem' = [modem EXCEPT !.dead = TRUE]
          /\ Fault /\ UNCHANGED early
    /\ UNCHANGED <<board, host, attempt, link>>

ModemDies ==
    /\ modem.on /\ ~modem.dead /\ result = "none"
    /\ modem' = [modem EXCEPT !.dead = TRUE]
    /\ Fault
    /\ UNCHANGED <<board, host, attempt, link, inbox, line, early>>

(* The client loop tries again. *)
BootAgain ==
    /\ result = "failed" /\ attempt < MaxAttempts
    /\ attempt' = attempt + 1
    /\ pc' = 1 /\ waiting' = FALSE /\ tries' = 0 /\ reads' = 0 /\ fds' = {} /\ stray' = FALSE
    /\ result' = "none" /\ faulty' = FALSE /\ early' = FALSE
    /\ UNCHANGED <<board, faults, modem, link, inbox, line>>

Init ==
    /\ device \in Devices /\ boot = ipc_client_boot[device] /\ rom = Rom[device]
    /\ pc = 1 /\ waiting = FALSE /\ tries = 0 /\ reads = 0
    /\ fds = {} /\ stray = FALSE /\ result = "none"
    /\ attempt = 1 /\ faults = 0 /\ faulty = FALSE
    /\ modem = [on |-> FALSE, next |-> 1, dead |-> FALSE]
    /\ link = FALSE /\ inbox = <<>> /\ line = <<>> /\ early = FALSE

HostStep ==
    \/ Complete \/ OpenOrHost \/ CallFails \/ xmm626_sec_modem_power \/ xmm626_sec_modem_wait
    \/ Send \/ Put \/ AtWrite \/ AtSelect \/ Read \/ AckRead \/ ReplyRead \/ Timeout

Next == HostStep \/ ModemTakes \/ ModemDies \/ BootAgain

Spec == Init /\ [][Next]_vars

-----------------------------------------------------------------------------
(* Every variable has its type. *)
TypeOK ==
    /\ device \in Devices
    /\ pc \in 1 .. Len(boot) + 1
    /\ waiting \in BOOLEAN /\ stray \in BOOLEAN /\ faulty \in BOOLEAN /\ link \in BOOLEAN /\ early \in BOOLEAN
    /\ tries \in 0 .. AtMax + 1 /\ reads \in 0 .. AckMax
    /\ result \in {"none", "ok", "failed"}
    /\ modem.next \in 1 .. Len(rom) + 1

(* A boot that returns success has loaded the modem: it took and confirmed *)
(* every image and command up to the reset, whatever failed on the way.    *)
(* Those of the older Galaxy S2, Galaxy Nexus and Galaxy Tab loaders return *)
(* 0 after some failures too.                                              *)
Overlooks == {"old_galaxys2", "old_maguro", "old_piranha"}
BootedIsLoaded ==
    result = "ok" => modem.next > Needed \/ (device \in Overlooks /\ faulty)

(* A modem that answers is booted, also after a boot that failed at any    *)
(* point, and when it answers several of the ATATs sent to it: only a      *)
(* fault during this boot makes it fail.  aries_boot turns the modem off   *)
(* after it has turned it on, and never boots it.                          *)
HealthyModemBoots == result = "failed" => faulty \/ device = "aries"

(* A boot without a fault has sent the modem it restarted no command before *)
(* the modem was ready for it.                                             *)
NeverEarly == result # "none" /\ early => faulty

(* A boot that has returned has closed what it opened, and nothing else.   *)
(* The oldest close nothing when they fail; the older ones that start from *)
(* a zeroed record close descriptor 0 in the place of what they have not   *)
(* come to opening, that of the Galaxy Tab after every boot.               *)
DescriptorsBalanced ==
    result # "none" =>
        /\ fds = {} \/ (device \in {"old_aries", "old_crespo"} /\ faulty)
        /\ ~stray \/ device = "old_piranha" \/ (device \in {"old_galaxys2", "old_maguro"} /\ faulty)

(* The one wait without an end is the older Galaxy Tab loader's, for the rest *)
(* of a reply.                                                               *)
WaitsForever == AtOp("read") /\ op.late = Go(0) /\ modem.dead
================================================================================
