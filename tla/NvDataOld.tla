------------------------------- MODULE NvDataOld ------------------------------
(***************************************************************************)
(* The NV data in the older libsamsung-ipc (rfs.c): checks that repair what *)
(* they find, a state file besides the data, the backup and their sums.     *)
(*                                                                         *)
(* Files are sequences of chunks and reach the disk in the order they are   *)
(* written, as in NvData; opening a file to write it empties it.  stack is  *)
(* the call stack: the label at its end is the next step of the innermost  *)
(* call.                                                                   *)
(***************************************************************************)
EXTENDS Integers, Sequences, FiniteSets, SequencesExt

CONSTANT None  \* no value

\* The instances.
Size == 2  \* chunks of the NV data
MaxWrites == 3  \* items the modem writes
MaxCrashes == 1  \* crashes of the phone
Absent == None  \* no such file

File == {"nv", "md5", "bak", "bakMd5", "state"}
Chunk == 1 .. Size

VARIABLES
    disk,       \* the files
    stack,      \* the call stack
    up,         \* the modem runs
    item,       \* the chunks of the item being written
    writes,     \* how many items were written, ever
    crashes,
    base, items, confirmed  \* as in NvData

ghost == <<base, items, confirmed>>
vars == <<disk, stack, up, item, writes, crashes, ghost>>

Factory == [c \in Chunk |-> 0]

\* A phone as it is delivered, or one that has lost some of its files.
Init ==
    /\ \E lost \in SUBSET File :
          disk = [f \in File |-> CASE f \in lost -> Absent
                                   [] f \in {"nv", "bak"} -> Factory
                                   [] f \in {"md5", "bakMd5"} -> <<Factory>>
                                   [] OTHER -> <<1>>]
    /\ stack = <<>> /\ up = FALSE /\ item = {}
    /\ writes = 0 /\ crashes = 0
    /\ base = Factory /\ items = {} /\ confirmed = {}

Exists(f) == disk[f] # Absent
Whole(f) == Exists(f) /\ Len(disk[f]) = Size

\* The sum of a file that is whole is compared; an empty sum never matches.
Matches(f, sum) == disk[sum] = <<disk[f]>>

At(l) == stack # <<>> /\ Last(stack) = l
Goto(l) == stack' = Append(Front(stack), l)
Call(f, l) == stack' = Front(stack) \o <<l, f>>
Return == stack' = Front(stack)
Stay == UNCHANGED <<disk, up, item, writes, crashes>>

-----------------------------------------------------------------------------
(* nv_data_check and nv_data_md5_check.                                    *)

\* Booting checks twice and loads the data; nothing else runs meanwhile.
Boot ==
    /\ ~ up /\ stack = <<>>
    /\ stack' = <<"md5Check", "check">>
    /\ Stay /\ UNCHANGED ghost

\* A file that is missing or too short is restored.  What a failed stat
\* leaves of the size of a missing file may be anything.
CheckData ==
    /\ At("check")
    /\ IF Exists("nv") THEN Goto("checkSize") ELSE Call("restore", "checkSize")
    /\ Stay /\ UNCHANGED ghost

CheckSize ==
    /\ At("checkSize")
    /\ \/ ~ Whole("nv") /\ Call("restore", "checkMd5")
       \/ (Whole("nv") \/ ~ Exists("nv")) /\ Goto("checkMd5")
    /\ Stay /\ UNCHANGED ghost

CheckMd5 ==
    /\ At("checkMd5")
    /\ IF Exists("md5") THEN Goto("checkBak") ELSE Call("restore", "checkBak")
    /\ Stay /\ UNCHANGED ghost

CheckBak ==
    /\ At("checkBak")
    /\ IF Exists("bak") /\ Exists("bakMd5") THEN Goto("checkState")
       ELSE Call("create", "checkState")
    /\ Stay /\ UNCHANGED ghost

\* Without a state file the check fails, after it has restored.
CheckState ==
    /\ At("checkState")
    /\ IF ~ Exists("state") THEN Call("restore", "fails")
       ELSE IF disk["state"] = <<1>> THEN Return
       ELSE stack' = Append(Front(stack), "restore")
    /\ Stay /\ UNCHANGED ghost

\* The caller gives up as well.
CheckFails ==
    /\ At("fails")
    /\ stack' = <<>>
    /\ Stay /\ UNCHANGED ghost

\* nv_data_md5_check restores data that does not match.
Md5Check ==
    /\ At("md5Check") /\ Exists("nv") /\ Exists("md5")
    /\ IF Whole("nv") /\ Matches("nv", "md5") THEN Goto("load")
       ELSE Call("restore", "load")
    /\ Stay /\ UNCHANGED ghost

\* Without a sum it fails, without data it crashes: neither boots the modem.
Md5CheckFails ==
    /\ At("md5Check") /\ ~ (Exists("nv") /\ Exists("md5"))
    /\ stack' = <<>>
    /\ Stay /\ UNCHANGED ghost

Load ==
    /\ At("load")
    /\ stack' = <<>> /\ up' = TRUE
    /\ UNCHANGED <<disk, item, writes, crashes, ghost>>

-----------------------------------------------------------------------------
(* nv_data_backup_create and nv_data_backup_restore.                       *)

\* The sums that do not match end both: the file of the sum is opened for
\* writing, and reading it then fails.
Create ==
    /\ At("create")
    /\ IF Whole("nv") /\ Exists("md5") /\ Matches("nv", "md5")
       THEN Goto("wrBak") ELSE Return
    /\ Stay /\ UNCHANGED ghost

\* Without a backup there is nothing to restore, and one is made.
Restore ==
    /\ At("restore")
    /\ \/ /\ ~ (Whole("bak") /\ Exists("bakMd5"))
          /\ Goto("create") /\ UNCHANGED ghost
       \/ /\ Whole("bak") /\ Exists("bakMd5") /\ ~ Matches("bak", "bakMd5")
          /\ Return /\ UNCHANGED ghost
       \/ /\ Whole("bak") /\ Matches("bak", "bakMd5")
          /\ Goto("wrNv")
          /\ base' = disk["bak"] /\ items' = {} /\ confirmed' = {}
    /\ Stay

\* Files that are written, and what.
Written == [wrBak |-> "bak", wrBakMd5 |-> "bakMd5", wrNv |-> "nv",
            wrMd5 |-> "md5", wrState |-> "state", wrItemMd5 |-> "md5"]
Contents(l) == CASE l = "wrBak" -> disk["nv"] [] l = "wrBakMd5" -> <<disk["bak"]>>
                 [] l = "wrNv" -> disk["bak"] [] l = "wrMd5" -> <<disk["nv"]>>
                 [] l = "wrItemMd5" -> <<disk["nv"]>> [] OTHER -> <<1>>

Writing == stack # <<>> /\ Last(stack) \in DOMAIN Written

\* open with O_TRUNC; then the file is filled.
Truncate ==
    /\ Writing
    /\ LET l == Last(stack)
       IN  /\ disk' = [disk EXCEPT ![Written[l]] = <<>>]
           /\ stack' = Front(stack) \o <<l, "fill">>
    /\ UNCHANGED <<up, item, writes, crashes, ghost>>

FillingFor == stack[Len(stack) - 1]

WriteChunk ==
    /\ At("fill")
    /\ LET f == Written[FillingFor]
       IN  /\ disk[f] # Contents(FillingFor)
           /\ disk' = [disk EXCEPT ![f] =
                 Append(@, Contents(FillingFor)[Len(@) + 1])]
    /\ UNCHANGED <<stack, up, item, writes, crashes, ghost>>

\* The sum follows the data, and the state both.
WriteEnds ==
    /\ At("fill") /\ disk[Written[FillingFor]] = Contents(FillingFor)
    /\ LET rest == SubSeq(stack, 1, Len(stack) - 2)
       IN  stack' = CASE FillingFor = "wrBak" -> Append(rest, "wrBakMd5")
                      [] FillingFor = "wrNv" -> Append(rest, "wrMd5")
                      [] FillingFor \in {"wrBakMd5", "wrMd5"}
                            -> Append(rest, "wrState")
                      [] OTHER -> rest
    /\ confirmed' = IF FillingFor = "wrItemMd5"
                    THEN confirmed \cup {writes} ELSE confirmed
    /\ UNCHANGED <<disk, up, item, writes, crashes, base, items>>

-----------------------------------------------------------------------------
(* nv_data_write: the check, the item in place, and nv_data_md5_generate.   *)

WriteItem ==
    /\ up /\ stack = <<>> /\ writes < MaxWrites
    /\ \E i, j \in Chunk : i <= j /\ item' = i .. j
    /\ stack' = <<"open", "check">>
    /\ UNCHANGED <<disk, up, writes, crashes, ghost>>

\* The check has passed: the item is counted when the file is open.
OpenItem ==
    /\ At("open") /\ Exists("nv")
    /\ Goto("wrItem")
    /\ writes' = writes + 1
    /\ items' = items \cup {<<writes + 1, item>>}
    /\ UNCHANGED <<disk, up, item, crashes, base, confirmed>>

ItemChunk ==
    /\ At("wrItem")
    /\ \E c \in item :
          /\ \A d \in item : disk["nv"][d] # writes => c <= d
          /\ disk["nv"][c] # writes
          /\ disk' = [disk EXCEPT !["nv"][c] = writes]
    /\ UNCHANGED <<stack, up, item, writes, crashes, ghost>>

ItemSum ==
    /\ At("wrItem") /\ \A c \in item : disk["nv"][c] = writes
    /\ Goto("wrItemMd5")
    /\ Stay /\ UNCHANGED ghost

\* A crash between two calls, or the modem switched off.
Crash ==
    /\ up \/ stack # <<>>
    /\ crashes < MaxCrashes
    /\ crashes' = crashes + 1
    /\ stack' = <<>> /\ up' = FALSE
    /\ UNCHANGED <<disk, item, writes, ghost>>

Shutdown ==
    /\ up /\ stack = <<>>
    /\ up' = FALSE
    /\ UNCHANGED <<disk, stack, item, writes, crashes, ghost>>

Next ==
    \/ Boot \/ CheckData \/ CheckSize \/ CheckMd5 \/ CheckBak \/ CheckState
    \/ CheckFails \/ Md5Check \/ Md5CheckFails \/ Load
    \/ Create \/ Restore \/ Truncate \/ WriteChunk \/ WriteEnds
    \/ WriteItem \/ OpenItem \/ ItemChunk \/ ItemSum \/ Crash \/ Shutdown

Spec == Init /\ [][Next]_vars
-----------------------------------------------------------------------------
(* Properties.                                                             *)

TypeOK ==
    /\ \A f \in {"nv", "bak"} : disk[f] # Absent => Len(disk[f]) <= Size
    /\ \A f \in {"md5", "bakMd5", "state"} : disk[f] # Absent => Len(disk[f]) <= 1
    /\ Len(stack) <= 4 /\ up \in BOOLEAN
    /\ writes <= MaxWrites /\ crashes <= MaxCrashes
    /\ confirmed \subseteq 1 .. writes

Applied(S) ==
    [c \in Chunk |->
        LET last == {n \in S : \E r \in items : r[1] = n /\ c \in r[2]}
        IN  IF last = {} THEN base[c]
            ELSE CHOOSE n \in last : \A k \in last : k <= n]

\* The data that is loaded is whole, holds no item in part and every item
\* confirmed since it was restored, with a crash at any step.  For two crashes
\* this rests on what rfs.c says of a sum that does not match: "Assume the
\* read string is the computated one".
ItemsWhole ==
    At("load") =>
        \E S \in SUBSET {r[1] : r \in items} :
            confirmed \subseteq S /\ disk["nv"] = Applied(S)
=============================================================================
