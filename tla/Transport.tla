-------------------------------- MODULE Transport --------------------------------
(****************************************************************************)
(* Messages to and from the modem: the fmt and rfs send and receive          *)
(* functions of libsamsung-ipc's transports, over a driver that gives a      *)
(* message in one or more pieces and takes one in one or more writes.        *)
(*                                                                           *)
(* A message is a sequence of units <<number, position>>; its first Header   *)
(* units are its header, from which its number and length can be told.       *)
(****************************************************************************)
EXTENDS Integers, Sequences, FiniteSets, SequencesExt

\* The instances.
\* the transports of the run
Transports == {"xmm626", "aries", "crespo", "old xmm6260", "old aries", "old crespo"}
Channels == {"fmt", "rfs"}  \* "fmt", "rfs"
Header == 2  \* units of a header
Buffer == 3  \* units of the first read (0x1000, 4032 or 0x50000 in the code)
Limit == 5  \* longest rfs message taken (0x80000 in the code)
Lengths == {2, 3, 5, 6}  \* lengths of the modem's messages
SendLengths == {2, 5}  \* lengths of the host's messages
MaxMessages == 2  \* messages the modem sends
MaxSends == 1  \* messages the host sends
MaxFaults == 1  \* calls of the driver that fail

VARIABLES
    transport, channel,
    sent,           \* lengths of the messages the modem sent
    pieces,         \* what the driver has for the host, one piece a read
    rx,             \* the message being received: its header's claims and the units it has
    handed,         \* what recv gave its caller: number, length, units
    broken,         \* recv or send failed and the client has not reopened the device yet
    tx,             \* the message being sent: its number, its length and the units written of it
    accepted,       \* messages send reported done
    stream,         \* units the modem has got
    faults

vars == <<transport, channel, sent, pieces, rx, handed, broken, tx, accepted, stream, faults>>
receiving == <<sent, pieces, rx, handed>>
sending == <<tx, accepted, stream>>

NoMessage == [number |-> 0, length |-> 0, units |-> <<>>]
Units(number, length) == [i \in 1 .. length |-> <<number, i>>]

-----------------------------------------------------------------------------
(* The receive functions: what they read after the first read, whether they  *)
(* refuse a header's length beyond the limit, whether a read that fails      *)
(* makes them fail, and how many pieces their board's driver makes of a      *)
(* message.                                                                  *)
Receives(asks, limited, hides, most) == [asks |-> asks, limited |-> limited, hides |-> hides, most |-> most]

xmm626_sec_modem_fmt_recv == Receives("missing", FALSE, FALSE, 3)
xmm626_sec_modem_rfs_recv == Receives("missing", TRUE, FALSE, 3)
aries_fmt_recv == Receives("chunk", FALSE, FALSE, 3)
aries_rfs_recv == Receives("chunk", TRUE, FALSE, 3)
crespo_fmt_recv == Receives("nothing", FALSE, FALSE, 1)
crespo_rfs_recv == Receives("nothing", FALSE, FALSE, 1)
xmm6260_ipc_fmt_client_recv == Receives("missing", FALSE, TRUE, 2)
xmm6260_ipc_rfs_client_recv == Receives("buffer", FALSE, FALSE, 3)
aries_ipc_fmt_client_recv == Receives("nothing", FALSE, FALSE, 1)
aries_ipc_rfs_client_recv == Receives("nothing", TRUE, FALSE, 1)
crespo_ipc_fmt_client_recv == Receives("nothing", FALSE, FALSE, 1)
crespo_ipc_rfs_client_recv == Receives("nothing", FALSE, FALSE, 1)

(* The send functions: whether they write until all is written, how much at  *)
(* most in one call, and whether a write that fails makes them fail.         *)
Sends(loops, chunked, hides) == [loops |-> loops, chunked |-> chunked, hides |-> hides]

xmm626_sec_modem_fmt_send == Sends(TRUE, FALSE, FALSE)
xmm626_sec_modem_rfs_send == Sends(TRUE, FALSE, FALSE)
aries_fmt_send == Sends(TRUE, TRUE, FALSE)
aries_rfs_send == Sends(TRUE, TRUE, FALSE)
crespo_fmt_send == Sends(FALSE, FALSE, FALSE)
crespo_rfs_send == Sends(FALSE, FALSE, FALSE)
xmm6260_ipc_fmt_client_send == Sends(FALSE, FALSE, TRUE)
xmm6260_ipc_rfs_client_send == Sends(FALSE, FALSE, FALSE)
aries_ipc_fmt_client_send == Sends(FALSE, FALSE, FALSE)
aries_ipc_rfs_client_send == Sends(FALSE, FALSE, FALSE)
crespo_ipc_fmt_client_send == Sends(FALSE, FALSE, FALSE)
crespo_ipc_rfs_client_send == Sends(FALSE, FALSE, FALSE)

(* ops->recv and ops->send. *)
Of(fmt, rfs) == IF channel = "fmt" THEN fmt ELSE rfs

recv ==
    CASE transport = "xmm626" -> Of(xmm626_sec_modem_fmt_recv, xmm626_sec_modem_rfs_recv)
      [] transport = "aries" -> Of(aries_fmt_recv, aries_rfs_recv)
      [] transport = "crespo" -> Of(crespo_fmt_recv, crespo_rfs_recv)
      [] transport = "old xmm6260" -> Of(xmm6260_ipc_fmt_client_recv, xmm6260_ipc_rfs_client_recv)
      [] transport = "old aries" -> Of(aries_ipc_fmt_client_recv, aries_ipc_rfs_client_recv)
      [] transport = "old crespo" -> Of(crespo_ipc_fmt_client_recv, crespo_ipc_rfs_client_recv)

send ==
    CASE transport = "xmm626" -> Of(xmm626_sec_modem_fmt_send, xmm626_sec_modem_rfs_send)
      [] transport = "aries" -> Of(aries_fmt_send, aries_rfs_send)
      [] transport = "crespo" -> Of(crespo_fmt_send, crespo_rfs_send)
      [] transport = "old xmm6260" -> Of(xmm6260_ipc_fmt_client_send, xmm6260_ipc_rfs_client_send)
      [] transport = "old aries" -> Of(aries_ipc_fmt_client_send, aries_ipc_rfs_client_send)
      [] transport = "old crespo" -> Of(crespo_ipc_fmt_client_send, crespo_ipc_rfs_client_send)

-----------------------------------------------------------------------------
(* The driver and the modem (external).  Aries has sockets, of which a read  *)
(* that takes less than a datagram drops the rest; crespo's calls take a     *)
(* message as one.                                                           *)
Datagrams == {"aries", "old aries"}
Fits == transport \in Datagrams \cup {"crespo", "old crespo"}

(* A message in pieces, of which the first has the header. *)
Cuts(length) == {c \in SUBSET (Header .. length - 1) : Cardinality(c) < recv.most}
PiecesOf(number, length, cut) ==
    LET ends == SetToSortSeq(cut \cup {length}, <)
        Piece(i) == SubSeq(Units(number, length), (IF i = 1 THEN 0 ELSE ends[i - 1]) + 1, ends[i])
    IN  [i \in 1 .. Len(ends) |-> Piece(i)]

ModemSends ==
    /\ Len(sent) < MaxMessages
    /\ \E length \in Lengths :
         /\ sent' = Append(sent, length)
         /\ \E cut \in Cuts(length) :
              LET all == PiecesOf(Len(sent) + 1, length, cut) IN
              /\ Fits => \A i \in 1 .. Len(all) : Len(all[i]) <= Buffer
              /\ pieces' = pieces \o all
    /\ UNCHANGED <<transport, channel, rx, handed, broken, faults, sending>>

(* A read of at most n units, which the driver's queue is left without. *)
Got(n) == SubSeq(Head(pieces), 1, IF Len(Head(pieces)) < n THEN Len(Head(pieces)) ELSE n)
After(n) ==
    IF transport \in Datagrams \/ Len(Head(pieces)) <= n THEN Tail(pieces)
    ELSE <<SubSeq(Head(pieces), n + 1, Len(Head(pieces)))>> \o Tail(pieces)

Fault == faults < MaxFaults /\ faults' = faults + 1

-----------------------------------------------------------------------------
(* recv and send run under the client's lock, one at a time.                *)
(* recv: the header, and with it as much of the data as the first read gave. *)
ClaimedLength(units) == sent[units[1][1]]

TooLong(length) == recv.limited /\ length > Limit

RecvFirst ==
    /\ rx = NoMessage /\ tx = NoMessage /\ ~broken /\ pieces # <<>>
    /\ LET units == Got(Buffer)  length == ClaimedLength(units) IN
       /\ pieces' = After(Buffer)
       /\ IF Len(units) < Header \/ TooLong(length)
          THEN broken' = TRUE /\ UNCHANGED rx
          ELSE rx' = [number |-> units[1][1], length |-> length, units |-> units] /\ UNCHANGED broken
    /\ UNCHANGED <<transport, channel, sent, handed, faults, sending>>

(* What the receive function goes on to read, if anything. *)
Missing == rx.length - Len(rx.units)
Asked ==
    CASE recv.asks = "missing" -> Missing
      [] recv.asks = "chunk" -> IF Missing < Buffer THEN Missing ELSE Buffer
      [] recv.asks = "buffer" -> Buffer
      [] recv.asks = "nothing" -> 0

(* One more read, as long as units are missing. *)
RecvMore ==
    /\ rx # NoMessage /\ Asked > 0 /\ Missing > 0 /\ pieces # <<>>
    /\ rx' = [rx EXCEPT !.units = @ \o Got(Asked)]
    /\ pieces' = After(Asked)
    /\ UNCHANGED <<transport, channel, sent, handed, broken, faults, sending>>

(* recv returns the message. *)
RecvDone ==
    /\ rx # NoMessage /\ (Asked = 0 \/ Missing <= 0)
    /\ handed' = Append(handed, rx) /\ rx' = NoMessage
    /\ UNCHANGED <<transport, channel, sent, pieces, broken, faults, sending>>

(* A read fails: the modem is not online, or the call returns an error, as   *)
(* it does when a piece has not come yet, the descriptors being nonblocking. *)
Reading == IF rx = NoMessage THEN tx = NoMessage /\ ~broken /\ pieces # <<>> ELSE Asked > 0 /\ Missing > 0

RecvFails ==
    /\ Reading /\ ~recv.hides
    /\ Fault
    /\ rx' = NoMessage /\ broken' = TRUE
    /\ UNCHANGED <<transport, channel, sent, pieces, handed, sending>>

(* The older fmt functions return 0 all the same, with what there is. *)
RecvFailsUnseen ==
    /\ Reading /\ recv.hides
    /\ Fault
    /\ handed' = Append(handed, rx) /\ rx' = NoMessage
    /\ UNCHANGED <<transport, channel, sent, pieces, broken, sending>>

-----------------------------------------------------------------------------
(* send: the header is set up with the length, and the whole is written in   *)
(* as many calls as the driver needs.                                        *)
SendStart ==
    /\ tx = NoMessage /\ rx = NoMessage /\ ~broken /\ Len(accepted) < MaxSends
    /\ \E length \in SendLengths :
         tx' = [number |-> Len(stream) + 1, length |-> length, units |-> <<>>]
    /\ UNCHANGED <<transport, channel, broken, accepted, stream, faults, receiving>>

ToWrite == SubSeq(Units(tx.number, tx.length), Len(tx.units) + 1, tx.length)
Offered == IF send.chunked /\ Len(ToWrite) > Buffer THEN Buffer ELSE Len(ToWrite)

(* The driver takes some of what it is offered; those whose send does not    *)
(* loop are not asked to take less than all.                                 *)
Taken == IF send.loops THEN {1, Offered} ELSE {Offered}

SendWrite ==
    /\ tx # NoMessage /\ ToWrite # <<>>
    /\ \E n \in Taken :
         /\ tx' = [tx EXCEPT !.units = @ \o SubSeq(ToWrite, 1, n)]
         /\ stream' = stream \o SubSeq(ToWrite, 1, n)
    /\ UNCHANGED <<transport, channel, broken, accepted, faults, receiving>>

SendDone ==
    /\ tx # NoMessage /\ ToWrite = <<>>
    /\ accepted' = Append(accepted, tx) /\ tx' = NoMessage
    /\ UNCHANGED <<transport, channel, broken, stream, faults, receiving>>

SendFails ==
    /\ tx # NoMessage /\ ToWrite # <<>> /\ ~send.hides
    /\ Fault
    /\ tx' = NoMessage /\ broken' = TRUE
    /\ UNCHANGED <<transport, channel, accepted, stream, receiving>>

SendFailsUnseen ==
    /\ tx # NoMessage /\ ToWrite # <<>> /\ send.hides
    /\ Fault
    /\ accepted' = Append(accepted, tx) /\ tx' = NoMessage
    /\ UNCHANGED <<transport, channel, broken, stream, receiving>>

(* The client closes the device and opens it again; the driver's queue is emptied. *)
Reopen ==
    /\ broken /\ rx = NoMessage /\ tx = NoMessage
    /\ broken' = FALSE /\ pieces' = <<>>
    /\ UNCHANGED <<transport, channel, sent, rx, handed, faults, sending>>

Init ==
    /\ transport \in Transports /\ channel \in Channels
    /\ sent = <<>> /\ pieces = <<>> /\ rx = NoMessage /\ handed = <<>> /\ broken = FALSE
    /\ tx = NoMessage /\ accepted = <<>> /\ stream = <<>> /\ faults = 0

HostStep == RecvFirst \/ RecvMore \/ RecvDone \/ SendWrite \/ SendDone \/ Reopen
Next == HostStep \/ ModemSends \/ RecvFails \/ RecvFailsUnseen \/ SendStart \/ SendFails \/ SendFailsUnseen

Spec == Init /\ [][Next]_vars

-----------------------------------------------------------------------------
(* Every variable has its type. *)
TypeOK ==
    /\ transport \in Transports /\ channel \in Channels
    /\ sent \in Seq(Lengths)
    /\ \A i \in 1 .. Len(pieces) : pieces[i] # <<>>
    /\ Len(rx.units) <= rx.length
    /\ broken \in BOOLEAN /\ faults \in 0 .. MaxFaults

(* The older xmm6260 fmt functions return success for calls that failed;     *)
(* what follows is not claimed of them from then on.                         *)
Excused == recv.hides /\ faults > 0

(* What recv hands its caller is a message as the modem sent it, its units   *)
(* all there and in order, whatever pieces it came in and wherever an        *)
(* earlier recv failed.                                                      *)
HandedWhole ==
    ~Excused =>
    \A i \in 1 .. Len(handed) :
        /\ handed[i].number \in 1 .. Len(sent)
        /\ handed[i].units = Units(handed[i].number, sent[handed[i].number])

(* No message is handed up twice or after a later one. *)
HandedInOrder ==
    ~Excused =>
    \A i, j \in 1 .. Len(handed) :
        i < j /\ handed[j].number # 0 => handed[i].number < handed[j].number

(* A send that reports success has written the message as one. *)
AcceptedWritten ==
    ~Excused =>
    \A i \in 1 .. Len(accepted) :
        LET units == Units(accepted[i].number, accepted[i].length)
            from == accepted[i].number - 1
        IN  \A k \in 1 .. Len(units) :
                from + k \in DOMAIN stream /\ stream[from + k] = units[k]

(* The message of a number is on its way to the host; it has arrived, unless *)
(* the device has to be reopened.                                            *)
UnderWay(n) == \E i \in 1 .. Len(pieces) : pieces[i][1][1] = n
Arrived(n) == broken \/ Excused \/ \E i \in 1 .. Len(handed) : handed[i].number = n
================================================================================
