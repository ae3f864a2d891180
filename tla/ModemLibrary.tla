---------------------------- MODULE ModemLibrary -----------------------------
(***************************************************************************)
(* libsamsung-ipc and its tools, one component at a time: the boot of each *)
(* device's modem, the transports, the descriptors of the clients, the modem*)
(* tools, the messages, the NV data (of this and the older library) and the*)
(* RFS handlers.  A behaviour is one of one component; the variables of the*)
(* others have no value.                                                   *)
(***************************************************************************)
EXTENDS BootSequences

CONSTANTS
    None,  \* no value
    Parts  \* the components of the run

VARIABLES
    part,  \* the component this behaviour is of
    \* The state of the components, by their own names.
    device, boot, rom, pc, waiting, tries, reads, fds, stray, result, attempt, faults, faulty,
    modem, link, inbox, line, early, transport, channel, sent, pieces, rx, handed, broken, tx,
    accepted, stream, table, lock, failures, reached, half, strayed, args, optind, fd, power, state,
    seq, in_call, resp, kind, given, message, behind, phase, index, passed, entry, offset,
    received, disk, buf, item, writes, crashes, backed, base, items, confirmed, stack, up, nv,
    requests, responses, issued, open, believed, silent

vars ==
    <<part, device, boot, rom, pc, waiting, tries, reads, fds, stray, result, attempt, faults,
      faulty, modem, link, inbox, line, early, transport, channel, sent, pieces, rx, handed,
      broken, tx, accepted, stream, table, lock, failures, reached, half, strayed, args, optind, fd,
      power, state, seq, in_call, resp, kind, given, message, behind, phase, index, passed,
      entry, offset, received, disk, buf, item, writes, crashes, backed, base, items, confirmed,
      stack, up, nv, requests, responses, issued, open, believed, silent>>

Boot == INSTANCE ModemBoot WITH Run <- "safety"
OldBoot == INSTANCE ModemBoot WITH Run <- "further"
BootLive == INSTANCE ModemBoot WITH Run <- "progress"
Wire == INSTANCE Transport
Ipc == INSTANCE IpcClient
Tool == INSTANCE ModemTool WITH Run <- "safety"
Ctl == INSTANCE ModemTool WITH Run <- "further"
Msg == INSTANCE IpcMessages
Nv == INSTANCE NvData WITH Run <- "safety"
NvFaults == INSTANCE NvData WITH Run <- "further"
OldNv == INSTANCE NvDataOld
Rfs == INSTANCE RfsItems

\* The variables of the other components have no value.
Idle ==
    /\ part \notin {"boot", "old boot", "boot ends", "ipc client"} =>
         device = None
    /\ part \notin {"boot", "old boot", "boot ends"} =>
         boot = None /\ rom = None /\ waiting = None /\ tries = None /\ reads = None
         /\ fds = None /\ stray = None /\ result = None /\ attempt = None /\ faulty = None
         /\ modem = None /\ link = None /\ inbox = None /\ line = None /\ early = None
    /\ part \notin {"boot", "old boot", "boot ends", "ipc client", "tool", "modemctrl", "nv", "nv faults"} =>
         pc = None
    /\ part \notin {"boot", "old boot", "boot ends", "transport", "nv", "nv faults", "rfs"} =>
         faults = None
    /\ part \notin {"transport", "ipc client"} =>
         transport = None
    /\ part # "transport" =>
         channel = None /\ sent = None /\ pieces = None /\ rx = None /\ handed = None
         /\ broken = None /\ tx = None /\ accepted = None /\ stream = None
    /\ part # "ipc client" =>
         table = None /\ lock = None /\ failures = None /\ reached = None /\ half = None
         /\ strayed = None
    /\ part \notin {"tool", "modemctrl"} =>
         args = None /\ optind = None /\ fd = None /\ power = None /\ state = None
         /\ seq = None /\ in_call = None /\ resp = None
    /\ part # "messages" =>
         kind = None /\ given = None /\ message = None /\ behind = None /\ phase = None
         /\ index = None /\ passed = None /\ entry = None /\ offset = None /\ received = None
    /\ part \notin {"nv", "nv faults", "old nv"} =>
         disk = None /\ item = None /\ writes = None /\ crashes = None /\ base = None
         /\ items = None /\ confirmed = None
    /\ part \notin {"nv", "nv faults"} =>
         buf = None /\ backed = None
    /\ part # "old nv" =>
         stack = None /\ up = None
    /\ part # "rfs" =>
         nv = None /\ requests = None /\ responses = None /\ issued = None /\ open = None
         /\ believed = None /\ silent = None

\* They keep having none.
Still ==
    /\ part \notin {"boot", "old boot", "boot ends", "ipc client"} =>
         UNCHANGED device
    /\ part \notin {"boot", "old boot", "boot ends"} =>
         UNCHANGED <<boot, rom, waiting, tries, reads, fds, stray, result, attempt, faulty,
           modem, link, inbox, line, early>>
    /\ part \notin {"boot", "old boot", "boot ends", "ipc client", "tool", "modemctrl", "nv", "nv faults"} =>
         UNCHANGED pc
    /\ part \notin {"boot", "old boot", "boot ends", "transport", "nv", "nv faults", "rfs"} =>
         UNCHANGED faults
    /\ part \notin {"transport", "ipc client"} =>
         UNCHANGED transport
    /\ part # "transport" =>
         UNCHANGED <<channel, sent, pieces, rx, handed, broken, tx, accepted, stream>>
    /\ part # "ipc client" =>
         UNCHANGED <<table, lock, failures, reached, half, strayed>>
    /\ part \notin {"tool", "modemctrl"} =>
         UNCHANGED <<args, optind, fd, power, state, seq, in_call, resp>>
    /\ part # "messages" =>
         UNCHANGED <<kind, given, message, behind, phase, index, passed, entry, offset, received>>
    /\ part \notin {"nv", "nv faults", "old nv"} =>
         UNCHANGED <<disk, item, writes, crashes, base, items, confirmed>>
    /\ part \notin {"nv", "nv faults"} =>
         UNCHANGED <<buf, backed>>
    /\ part # "old nv" =>
         UNCHANGED <<stack, up>>
    /\ part # "rfs" =>
         UNCHANGED <<nv, requests, responses, issued, open, believed, silent>>

Init ==
    /\ part \in Parts
    /\ part = "boot" => Boot!Init
    /\ part = "old boot" => OldBoot!Init
    /\ part = "boot ends" => BootLive!Init
    /\ part = "transport" => Wire!Init
    /\ part = "ipc client" => Ipc!Init
    /\ part = "tool" => Tool!Init
    /\ part = "modemctrl" => Ctl!Init
    /\ part = "messages" => Msg!Init
    /\ part = "nv" => Nv!Init
    /\ part = "nv faults" => NvFaults!Init
    /\ part = "old nv" => OldNv!Init
    /\ part = "rfs" => Rfs!Init
    /\ Idle

Next ==
    /\ \/ part = "boot" /\ Boot!Next
       \/ part = "old boot" /\ OldBoot!Next
       \/ part = "boot ends" /\ BootLive!Next
       \/ part = "transport" /\ Wire!Next
       \/ part = "ipc client" /\ Ipc!Next
       \/ part = "tool" /\ Tool!Next
       \/ part = "modemctrl" /\ Ctl!Next
       \/ part = "messages" /\ Msg!Next
       \/ part = "nv" /\ Nv!Next
       \/ part = "nv faults" /\ NvFaults!Next
       \/ part = "old nv" /\ OldNv!Next
       \/ part = "rfs" /\ Rfs!Next
    /\ UNCHANGED part /\ Still

Spec == Init /\ [][Next]_vars

\* Every wait of the boot code has a timeout and the modem's boot loader runs;
\* the threads and the tool that read and write go on, reading fails again and
\* again in the end, and the library continues what it does to a file.
FairSpec ==
    /\ Spec
    /\ WF_(BootLive!vars)(part = "boot ends" /\ BootLive!HostStep)
    /\ WF_(BootLive!vars)(part = "boot ends" /\ BootLive!ModemTakes)
    /\ WF_(Wire!vars)(part = "transport" /\ Wire!HostStep)
    /\ WF_(Tool!vars)(part = "tool" /\ (Tool!Argument \/ Tool!NoMoreArguments \/ Tool!Stop))
    /\ SF_(Tool!vars)(part = "tool" /\ (Tool!ReceiveFails \/ Tool!ReceiveHides))
    /\ WF_(Msg!vars)(part = "messages" /\ (Msg!LoopTurn \/ Msg!LoopEnd))
    /\ WF_(NvFaults!vars)(part = "nv faults" /\ (NvFaults!LoadStep \/ NvFaults!FileStep))
    /\ WF_(Rfs!vars)(part = "rfs" /\ Rfs!Handle)
    /\ WF_(Rfs!vars)(part = "rfs" /\ Rfs!Respond)

-----------------------------------------------------------------------------
(* Properties.                                                             *)

\* The variables of the component have their types.
TypeOK ==
    /\ part = "boot" => Boot!TypeOK
    /\ part = "old boot" => OldBoot!TypeOK
    /\ part = "boot ends" => BootLive!TypeOK
    /\ part = "transport" => Wire!TypeOK
    /\ part = "ipc client" => Ipc!TypeOK
    /\ part = "tool" => Tool!TypeOK
    /\ part = "modemctrl" => Ctl!TypeOK
    /\ part = "messages" => Msg!TypeOK
    /\ part = "nv" => Nv!TypeOK
    /\ part = "nv faults" => NvFaults!TypeOK
    /\ part = "old nv" => OldNv!TypeOK
    /\ part = "rfs" => Rfs!TypeOK

\* A boot that returns success has loaded the modem: it took and confirmed
\* every image and command up to the reset, whatever failed on the way. Three
\* loaders of the older library return 0 after some failures too
\* (ModemBoot!Overlooks).
BootedIsLoaded ==
    /\ part = "boot" => Boot!BootedIsLoaded
    /\ part = "old boot" => OldBoot!BootedIsLoaded

\* A modem that answers is booted, also after a boot that failed at any point
\* and when it answers several of the ATATs sent to it: only a fault during
\* this boot makes it fail, but for aries, whose boot turns the modem off.
HealthyModemBoots ==
    /\ part = "boot" => Boot!HealthyModemBoots
    /\ part = "old boot" => OldBoot!HealthyModemBoots

\* A boot without a fault has sent the modem it restarted no command before the
\* modem was ready for it.
NeverEarly ==
    /\ part = "boot" => Boot!NeverEarly
    /\ part = "old boot" => OldBoot!NeverEarly

\* A boot that has returned has closed what it opened, and nothing else. The
\* oldest close nothing when they fail, and those of the older library that
\* start from a zeroed record close descriptor 0 as well.
DescriptorsBalanced ==
    /\ part = "boot" => Boot!DescriptorsBalanced
    /\ part = "old boot" => OldBoot!DescriptorsBalanced

\* What recv hands its caller is a message as the modem sent it, whatever
\* pieces it came in and wherever an earlier recv failed.
HandedWhole ==
    part = "transport" => Wire!HandedWhole

\* No message is handed up twice or after a later one.
HandedInOrder ==
    part = "transport" => Wire!HandedInOrder

\* A send that reports success has written the message as one.
AcceptedWritten ==
    part = "transport" => Wire!AcceptedWritten

\* No client closes, polls, reads or writes a descriptor it did not open
\* itself, in whatever order the two clients and the SRS server open, fail and
\* close; on aries, until an open fails, which leaves a 0 to be closed.
OwnDescriptors ==
    part = "ipc client" => Ipc!OwnDescriptors

\* A descriptor a client has opened is in its transport data until it is
\* closed, but for the sockets of aries: an open that fails half way loses one.
NoneLost ==
    part = "ipc client" => Ipc!NoneLost

\* A client is given up only after retries that reached the modem: its own close
\* handler never uses them up, but on aries and crespo, where it fails for a
\* client without descriptor.
RetriesReachModem ==
    part = "ipc client" => Ipc!RetriesReachModem

\* ipc-modem runs through the commands its help names and ends, without
\* following a null pointer.
NoCrash ==
    part = "tool" => Tool!NoCrash

\* However the commands of ipc-modem and modemctrl end, the device of the modem
\* is not left open.
LeavesClosed ==
    /\ part = "tool" => Tool!LeavesClosed
    /\ part = "modemctrl" => Ctl!LeavesClosed

\* The modem finds in a message what the caller of its setup function gave, up
\* to the size of its field and as long as its length is a byte.
ModemGetsGiven ==
    part = "messages" => Msg!ModemGetsGiven

\* What the modem sent with a length in front is extracted whole or not at all,
\* however the message is cut and whatever lies behind it; but an IMSI, whose
\* length is not compared with the size, ends with what lies behind.
WholeOrNothing ==
    part = "messages" => Msg!WholeOrNothing

\* The entry extracted from a list is the one at the index, all in the message,
\* although the loop reads lengths behind it.
EntriesWhole ==
    part = "messages" => Msg!EntriesWhole

\* A PDU is the same after it was a text, and a text of an odd number of digits
\* gets a zero in front.
TextsRoundTrip ==
    part = "messages" => Msg!TextsRoundTrip

\* Whatever crashes there were, the modem is given the NV data it started from,
\* or that was restored, with every item confirmed to it since and nothing of
\* an item but the whole, whatever calls failed; in the older library with
\* one crash.
ItemsWhole ==
    /\ part = "nv" => Nv!ItemsWhole
    /\ part = "nv faults" => NvFaults!ItemsWhole
    /\ part = "old nv" => OldNv!ItemsWhole

\* Once a backup is complete the NV data can always be loaded again: a crash or
\* a failing call in the middle of anything leaves the data or the backup
\* intact.
Recoverable ==
    part = "nv faults" => NvFaults!Recoverable

\* What a response to the modem carries of its NV items is what it wrote last and
\* had confirmed, or has sent since or had refused: no confirmed write is lost,
\* also over an outage.
ReadsSeeWrites ==
    part = "rfs" => Rfs!ReadsSeeWrites

\* Only what a write message holds gets into the NV file.
HeldOnly ==
    part = "rfs" => Rfs!HeldOnly

\* A response to the modem answers what was asked, and responses come in the
\* order of the requests.
AnswersFit ==
    part = "rfs" => Rfs!AnswersFit

\* Whatever fails on the way, a boot that succeeds has loaded the modem and one
\* of a healthy modem succeeds; and the boot, the clients and the tools close
\* what they opened, nothing else, and lose no descriptor: all but the loaders of
\* the older library and the handlers of aries and crespo that the parts name.
BootsAndCloses ==
    /\ BootedIsLoaded /\ HealthyModemBoots /\ NeverEarly
    /\ DescriptorsBalanced /\ OwnDescriptors /\ NoneLost /\ RetriesReachModem
    /\ NoCrash /\ LeavesClosed

\* A message passes between the modem and the user of the library whole and in
\* order, and its fields are read and written within it, except a cut IMSI.
MessagesWhole ==
    /\ HandedWhole /\ HandedInOrder /\ AcceptedWritten /\ ModemGetsGiven
    /\ WholeOrNothing /\ EntriesWhole /\ TextsRoundTrip

\* What the modem stored and had confirmed is not lost, over crashes, failing
\* calls and outages: it is loaded at the next boot, and it is what the answers
\* to the modem's reads carry, those that are not refused.
StorageHolds ==
    /\ ItemsWhole /\ Recoverable /\ ReadsSeeWrites /\ HeldOnly /\ AnswersFit

\* Something that must end has begun: a boot, the n-th message or request of
\* the modem, the loop of ipc-modem, an extraction from a list, or an attempt
\* to boot from NV data of which there is a backup.
Begun(n) ==
    CASE part = "boot ends" -> result = "none"
      [] part = "transport" -> Wire!UnderWay(n)
      [] part = "tool" -> pc = "read"
      [] part = "messages" -> phase = "loop"
      [] part = "nv faults" -> backed /\ pc = "off"
      [] part = "rfs" -> Rfs!Asked(n)
      [] OTHER -> FALSE

\* It has ended: the boot has returned or waits where nothing ends its wait,
\* the message was handed up, receiving has failed, the entry was read (the
\* loop's counter did not wrap around), the modem is up, the request was
\* answered.
Ended(n) ==
    CASE part = "boot ends" -> result # "none" \/ BootLive!WaitsForever
      [] part = "transport" -> Wire!Arrived(n)
      [] part = "tool" -> pc = "failed"
      [] part = "messages" -> phase = "read"
      [] part = "nv faults" -> pc = "up"
      [] part = "rfs" -> Rfs!Answered(n)
      [] OTHER -> TRUE

\* Every boot ends, whatever the modem does; what the modem sends is handed up
\* and its requests are answered; the tool's loop and every extraction end; and
\* once there is a backup the modem boots, however often loading its data is
\* interrupted.
EverythingEnds ==
    \A n \in 1 .. 2 : Begun(n) ~> Ended(n)
==============================================================================
