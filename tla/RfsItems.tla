------------------------------- MODULE RfsItems --------------------------------
(***************************************************************************)
(* The handlers of the RFS client (rfs.c of samsung-ril, with the item      *)
(* helpers of libsamsung-ipc's rfs.c): the modem reads and writes pieces of *)
(* its NV data, which is a file of the host, by messages that are answered  *)
(* in their order.                                                         *)
(*                                                                         *)
(* The file is an array of places.  A message is its offset, its length and *)
(* the data that follows, all of one value; the checks at start-up and the  *)
(* sum of the file are NvData's.                                           *)
(***************************************************************************)
EXTENDS Integers, Sequences, FiniteSets, SequencesExt

\* The instances.
Size == 2  \* places of the NV data
MaxRequests == 2  \* requests of the modem
MaxFaults == 1  \* writes to the file, or links, that fail
\* what an uninitialised size may hold besides the right one
Garbage == {0, 4}

VARIABLES
    nv,         \* the file
    requests,   \* messages under way to the handler
    responses,  \* messages under way to the modem
    issued, faults,
    open,       \* requests of the modem that have no answer
    believed,   \* what the modem may find at a place, from what was confirmed
    silent      \* requests the handler does not answer

vars == <<nv, requests, responses, issued, faults, open, believed, silent>>

Place == 0 .. 2 * Size  \* the places requests reach: the file may grow
Value == 0 .. MaxRequests
Header == 1

Init ==
    /\ nv = [p \in 0 .. Size - 1 |-> 0] /\ requests = <<>> /\ responses = <<>> /\ issued = 0
    /\ faults = 0 /\ open = <<>> /\ believed = [p \in Place |-> {0}] /\ silent = {}

Places(m) == m.offset .. m.offset + m.length - 1
Faulty == faults < MaxFaults /\ faults' = faults + 1

\* The modem sends a request; the data of a write is its number, and is shorter
\* than the length says if the message is cut.
Issue(op, offset, length, held) ==
    /\ issued < MaxRequests /\ issued' = issued + 1
    /\ LET m == [op |-> op, aseq |-> issued + 1, offset |-> offset, length |-> length, held |-> held] IN
        /\ requests' = Append(requests, m) /\ open' = Append(open, m)
        /\ believed' = [p \in Place |-> IF op = "write" /\ p \in Places(m)
                                        THEN believed[p] \cup {m.aseq} ELSE believed[p]]
    /\ UNCHANGED <<nv, responses, faults, silent>>

-----------------------------------------------------------------------------
(* ipc_rfs_nv_read_item.                                                   *)

\* The file has the size of the NV data: looked at before every read and write.
ipc_nv_data_path_check == DOMAIN nv = 0 .. Size - 1

\* ipc_nv_data_read: all of the bytes, or nothing.
ipc_nv_data_read(m) == ipc_nv_data_path_check /\ m.length > 0 /\ Places(m) \subseteq DOMAIN nv

Confirm(m, bytes, size) ==
    [aseq |-> m.aseq, op |-> m.op, confirm |-> 1, offset |-> m.offset, length |-> m.length,
     bytes |-> bytes, size |-> size]

\* The header, or the response to a write, is all zero.
Refusal(m) == [Confirm(m, <<>>, Header) EXCEPT !.confirm = 0, !.offset = 0, !.length = 0]

Sent(m, r) ==
    \/ responses' = Append(responses, r) /\ UNCHANGED <<faults, silent>>
    \/ Faulty /\ silent' = silent \cup {m.aseq} /\ UNCHANGED responses

\* ipc_rfs_nv_data_item_size_setup: the size is added to itself, before it was
\* given a value.
ItemSizes(m) == {Header + n : n \in {m.length} \cup Garbage}

\* ipc_rfs_nv_read_item_setup copies the header and all of the data; the response
\* is as long as another call says, and carries no more of the data.
ReadFound(m) ==
    \E size \in ItemSizes(m) :
        LET carried == {k \in 1 .. m.length : k <= size - Header} IN
        Sent(m, Confirm(m, [k \in carried |-> nv[m.offset + k - 1]], size))

ReadFails(m) == Sent(m, Refusal(m))

ipc_rfs_nv_read_item(m) ==
    /\ IF ipc_nv_data_read(m) THEN ReadFound(m) ELSE ReadFails(m)
    /\ UNCHANGED nv

-----------------------------------------------------------------------------
(* ipc_rfs_nv_write_item.                                                  *)

First(m, n) == m.offset .. m.offset + n - 1
Stored(m, n, p) == IF p \in First(m, n) THEN m.aseq ELSE IF p \in DOMAIN nv THEN nv[p] ELSE 0

\* n bytes are written at the offset; the file grows, with zeros in a hole.
Written(m, n) ==
    [p \in DOMAIN nv \cup (IF n = 0 THEN {} ELSE 0 .. m.offset + n - 1) |-> Stored(m, n, p)]

\* ipc_nv_data_write succeeds.
WriteDone(m) ==
    /\ ipc_nv_data_path_check
    /\ nv' = Written(m, m.length) /\ Sent(m, Confirm(m, <<>>, Header))

\* Mutant of FailedWrite: a write that was cut short counts as done.
FailedWriteConfirmed(m) == Confirm(m, <<>>, Header)

FailedWrite(m) == Refusal(m)

\* It fails after some of the bytes are in the file, or with the sum of it.
WriteFails(m) ==
    /\ ipc_nv_data_path_check /\ Faulty
    /\ \E n \in 0 .. m.length : nv' = Written(m, n)
    /\ responses' = Append(responses, FailedWrite(m)) /\ UNCHANGED silent

\* The file has another size than the NV data, since a write went past the end.
WriteRefused(m) ==
    /\ ~ipc_nv_data_path_check
    /\ Sent(m, FailedWrite(m)) /\ UNCHANGED nv

\* ipc_rfs_nv_write_item_size_extract and _extract.
WholeItem(m) == m.length # 0 /\ m.length <= m.held

\* A message that does not hold its data is not answered at all.
ipc_rfs_nv_write_item(m) ==
    \/ WholeItem(m) /\ (WriteDone(m) \/ WriteFails(m) \/ WriteRefused(m))
    \/ ~WholeItem(m) /\ silent' = silent \cup {m.aseq} /\ UNCHANGED <<nv, responses, faults>>

\* ipc_rfs_dispatch.
Handle ==
    /\ requests # <<>> /\ requests' = Tail(requests)
    /\ LET m == Head(requests) IN
        \/ m.op = "read" /\ ipc_rfs_nv_read_item(m)
        \/ m.op = "write" /\ ipc_rfs_nv_write_item(m)
    /\ UNCHANGED <<issued, open, believed>>

-----------------------------------------------------------------------------
(* The modem takes a response.                                             *)

Later(r) == SelectSeq(open, LAMBDA m : m.aseq > r.aseq)

\* A confirmed write is what the modem will find, or what it has sent since.
Believes(r) ==
    [p \in Place |->
        IF r.op = "write" /\ r.confirm = 1 /\ p \in Places(r)
        THEN {r.aseq} \cup {m.aseq : m \in {w \in Range(Later(r)) : w.op = "write" /\ p \in Places(w)}}
        ELSE believed[p]]

Respond ==
    /\ responses # <<>> /\ responses' = Tail(responses)
    /\ LET r == Head(responses) IN
        /\ believed' = Believes(r)
        /\ open' = SelectSeq(open, LAMBDA m : m.aseq # r.aseq)
    /\ UNCHANGED <<nv, requests, issued, faults, silent>>

\* The link goes, and what was under way with it; the file stays.
Outage ==
    /\ Faulty /\ requests' = <<>> /\ responses' = <<>> /\ open' = <<>>
    /\ UNCHANGED <<nv, issued, believed, silent>>

Next ==
    \/ \E op \in {"read", "write"}, o \in 0 .. Size + 1, l, h \in 0 .. Size :
            (op = "write" \/ h = 0) /\ Issue(op, o, l, h)
    \/ Handle \/ Respond \/ Outage

Spec == Init /\ [][Next]_vars
-----------------------------------------------------------------------------
(* Properties.                                                             *)

\* The types of the variables.
TypeOK ==
    /\ \E n \in Place : nv \in [0 .. n -> Value]
    /\ believed \in [Place -> SUBSET Value]
    /\ \A r \in Range(responses) : r.confirm \in {0, 1} /\ Places(r) \subseteq Place
    /\ silent \subseteq 1 .. issued /\ faults \in 0 .. MaxFaults

\* What a response to a read carries is what the modem wrote last and had
\* confirmed, or what it has sent since or had refused: no confirmed write is
\* lost, also over an outage. The response may carry less than was read, or more
\* than the data: the size it is sent with was never set (rfs.c 667).
ReadsSeeWrites ==
    responses # <<>> /\ Head(responses).op = "read" =>
        LET r == Head(responses) IN
        \A k \in DOMAIN r.bytes : r.bytes[k] \in believed[r.offset + k - 1]

\* Only what the message holds gets into the file: a place has the value of a write
\* whose data reaches that far.
HeldOnly ==
    \A m \in Range(open) : m.op = "write" =>
        \A p \in DOMAIN nv : nv[p] = m.aseq => p < m.offset + m.held

\* A response answers what was asked, the place and the length too if it is
\* confirmed, in the order of the requests. A write past the end of the data is
\* confirmed, and refused is everything after it; that shows in no property.
AnswersFit ==
    \A j \in DOMAIN responses :
        LET r == responses[j] IN
        /\ \E m \in Range(open) : m.aseq = r.aseq /\ m.op = r.op
        /\ r.confirm = 1 => \E m \in Range(open) :
              m.aseq = r.aseq /\ m.offset = r.offset /\ m.length = r.length
        /\ \A k \in 1 .. j - 1 : responses[k].aseq < r.aseq

\* A request of the modem waits; it is answered, or its message was cut or the link lost.
Asked(a) == \E m \in Range(open) : m.aseq = a
Answered(a) == ~Asked(a) \/ a \in silent
=============================================================================
