-------------------------------- MODULE NvData --------------------------------
(***************************************************************************)
(* The modem's NV data on the phone's file system (libsamsung-ipc rfs.c):   *)
(* the data file with its MD5 sum, a backup with its own sum, loading them  *)
(* when the modem boots and writing items while it runs, with crashes       *)
(* between any two system calls and calls that fail.                       *)
(*                                                                         *)
(* A file is a sequence of chunks, written one by one and reaching the      *)
(* disk in that order.  A chunk is the number of the write that it comes    *)
(* from, and a sum is a file of one chunk: the data it is the sum of.      *)
(***************************************************************************)
EXTENDS Integers, Sequences, FiniteSets, Scenario

\* The instances.
Size == InRun([safety |-> 3, further |-> 2])  \* chunks of the NV data
MaxWrites == InRun([safety |-> 3, further |-> 2])  \* items the modem writes
MaxCrashes == 2  \* crashes of the phone
MaxFaults == InRun([safety |-> 0, further |-> 2])  \* writes that fail
Absent == None  \* no such file

File == {"nv", "md5", "bak", "bakMd5"}
Chunk == 1 .. Size

VARIABLES
    disk,       \* the files
    pc,         \* where the library is
    buf,        \* what it is writing
    item,       \* the chunks of the item being written
    writes,     \* how many items were written, ever
    crashes, faults,
    \* What the files stand for, to state the properties:
    backed,     \* a backup was completed
    base,       \* the data the modem started from, or that is restored
    items,      \* the items written since then: number and chunks
    confirmed   \* those of them that were confirmed to the modem

ghost == <<backed, base, items, confirmed>>
vars == <<disk, pc, buf, item, writes, crashes, faults, ghost>>

Factory == [c \in Chunk |-> 0]

\* A phone as it is delivered: no backup yet.
Init ==
    /\ disk = [f \in File |-> CASE f = "nv" -> Factory
                                [] f = "md5" -> <<Factory>>
                                [] OTHER -> Absent]
    /\ pc = "off" /\ buf = <<>> /\ item = {}
    /\ writes = 0 /\ crashes = 0 /\ faults = 0
    /\ backed = FALSE /\ base = Factory /\ items = {} /\ confirmed = {}

\* ipc_nv_data_path_check, ipc_nv_data_backup_path_check and those of sums.
Whole(f) == disk[f] # Absent /\ Len(disk[f]) = Size
HasSum(f) == disk[f] # Absent /\ disk[f] # <<>>

\* ipc_nv_data_check, ipc_nv_data_backup_check.
Valid(f, sum) == Whole(f) /\ HasSum(sum) /\ disk[sum][1] = disk[f]

Goto(l) == pc' = l
Stay == UNCHANGED <<disk, buf, item, writes, crashes, faults>>

-----------------------------------------------------------------------------
(* ipc_nv_data_load, while the modem boots.                                *)

Boot ==
    /\ pc = "off"
    /\ Goto("check")
    /\ Stay /\ UNCHANGED ghost

\* Data that fails its check is restored from a backup that passes its own.
Check ==
    /\ pc = "check"
    /\ \/ /\ Valid("nv", "md5")
          /\ Goto("backup") /\ UNCHANGED <<buf, ghost>>
       \/ /\ ~ Valid("nv", "md5") /\ Valid("bak", "bakMd5")
          /\ Goto("rmNv") /\ buf' = disk["bak"]
          /\ base' = disk["bak"] /\ items' = {} /\ confirmed' = {}
          /\ UNCHANGED backed
       \/ /\ ~ Valid("nv", "md5") /\ ~ Valid("bak", "bakMd5")
          /\ Goto("off") /\ UNCHANGED <<buf, ghost>>
    /\ UNCHANGED <<disk, item, writes, crashes, faults>>

\* The check after restoring.
Recheck ==
    /\ pc = "recheck"
    /\ Goto(IF Valid("nv", "md5") THEN "backup" ELSE "off")
    /\ Stay /\ UNCHANGED ghost

\* ipc_nv_data_backup, unless there is a backup of the right size.
Backup ==
    /\ pc = "backup"
    /\ IF Whole("bak") THEN Goto("load") /\ UNCHANGED buf
       ELSE Goto("rmBak") /\ buf' = disk["nv"]
    /\ UNCHANGED <<disk, item, writes, crashes, faults, ghost>>

\* The data is handed to the modem, which runs.
Load ==
    /\ pc = "load"
    /\ Goto("up")
    /\ Stay /\ UNCHANGED ghost

-----------------------------------------------------------------------------
(* The files: unlink and file_data_write.                                  *)

Removed == [rmNv |-> "nv", rmMd5 |-> "md5", rmBak |-> "bak",
            rmBakMd5 |-> "bakMd5", rmItemMd5 |-> "md5"]
Written == [wrNv |-> "nv", wrMd5 |-> "md5", wrBak |-> "bak",
            wrBakMd5 |-> "bakMd5", wrItemMd5 |-> "md5"]

\* unlink: only writing an item minds that there is no file.
Unlink ==
    /\ pc \in DOMAIN Removed
    /\ LET f == Removed[pc]
       IN  /\ disk' = [disk EXCEPT ![f] = Absent]
           /\ Goto(CASE pc = "rmNv" -> "wrNv" [] pc = "rmMd5" -> "wrMd5"
                     [] pc = "rmBak" -> "wrBak" [] pc = "rmBakMd5" -> "wrBakMd5"
                     [] OTHER -> IF disk[f] = Absent THEN "up" ELSE "wrItemMd5")
    /\ UNCHANGED <<buf, item, writes, crashes, faults, ghost>>

\* file_data_write creates the file, then writes one chunk after the other.
WriteChunk ==
    /\ pc \in DOMAIN Written
    /\ LET f == Written[pc]
       IN  /\ disk[f] # buf
           /\ disk' = [disk EXCEPT ![f] =
                 IF @ = Absent THEN <<>> ELSE Append(@, buf[Len(@) + 1])]
    /\ UNCHANGED <<pc, buf, item, writes, crashes, faults, ghost>>

\* The file is written: the sum follows the data, and is read from the file
\* of the backup or was computed from the data.
WriteEnds ==
    /\ pc \in DOMAIN Written /\ disk[Written[pc]] = buf
    /\ Goto(CASE pc = "wrNv" -> "rmMd5" [] pc = "wrMd5" -> "recheck"
              [] pc = "wrBak" -> "rmBakMd5" [] pc = "wrBakMd5" -> "load"
              [] OTHER -> "up")
    /\ buf' = CASE pc = "wrNv" -> disk["bakMd5"]
                [] pc = "wrBak" -> <<disk["nv"]>>
                [] OTHER -> buf
    /\ backed' = (backed \/ pc = "wrBakMd5")
    /\ confirmed' = IF pc = "wrItemMd5" THEN confirmed \cup {writes} ELSE confirmed
    /\ UNCHANGED <<disk, item, writes, crashes, faults, base, items>>

\* A call fails: the restoring, the backup or the item is given up.  Loading
\* goes on without a backup.
WriteFails ==
    /\ pc \in DOMAIN Written \cup {"wrItem"} /\ faults < MaxFaults
    /\ faults' = faults + 1
    /\ Goto(CASE pc \in {"wrNv", "wrMd5"} -> "off"
              [] pc \in {"wrBak", "wrBakMd5"} -> "load"
              [] OTHER -> "up")
    /\ UNCHANGED <<disk, buf, item, writes, crashes, ghost>>

-----------------------------------------------------------------------------
(* ipc_nv_data_write, for ipc_rfs_nv_write_item of the modem.               *)

\* An item of one or several chunks; a file of the wrong size is refused.
WriteItem ==
    /\ pc = "up" /\ writes < MaxWrites /\ Whole("nv")
    /\ \E i, j \in Chunk :
          /\ i <= j
          /\ item' = i .. j
          /\ items' = items \cup {<<writes + 1, i .. j>>}
    /\ writes' = writes + 1
    /\ Goto("wrItem")
    /\ UNCHANGED <<disk, buf, crashes, faults, backed, base, confirmed>>

\* Its chunks are written in place, lowest first ...
ItemChunk ==
    /\ pc = "wrItem"
    /\ \E c \in item :
          /\ \A d \in item : disk["nv"][d] # writes => c <= d
          /\ disk["nv"][c] # writes
          /\ disk' = [disk EXCEPT !["nv"][c] = writes]
    /\ UNCHANGED <<pc, buf, item, writes, crashes, faults, ghost>>

\* ... and the sum of the file as it is now is computed.
ItemSum ==
    /\ pc = "wrItem" /\ \A c \in item : disk["nv"][c] = writes
    /\ buf' = <<disk["nv"]>>
    /\ Goto("rmItemMd5")
    /\ UNCHANGED <<disk, item, writes, crashes, faults, ghost>>

-----------------------------------------------------------------------------
\* The phone stops between two calls.
Crash ==
    /\ pc # "off" /\ crashes < MaxCrashes
    /\ crashes' = crashes + 1
    /\ Goto("off")
    /\ UNCHANGED <<disk, buf, item, writes, faults, ghost>>

\* The modem is switched off and booted again.
Shutdown ==
    /\ pc = "up"
    /\ Goto("off")
    /\ Stay /\ UNCHANGED ghost

LoadStep == Boot \/ Check \/ Recheck \/ Backup \/ Load
FileStep == Unlink \/ WriteChunk \/ WriteEnds \/ ItemChunk \/ ItemSum

Next ==
    \/ LoadStep \/ FileStep \/ WriteFails \/ WriteItem \/ Crash \/ Shutdown

Spec == Init /\ [][Next]_vars

-----------------------------------------------------------------------------
(* Properties.                                                             *)

TypeOK ==
    /\ \A f \in {"nv", "bak"} : disk[f] # Absent =>
          /\ Len(disk[f]) <= Size
          /\ \A i \in DOMAIN disk[f] : disk[f][i] \in 0 .. writes
    /\ \A f \in {"md5", "bakMd5"} : disk[f] # Absent => Len(disk[f]) <= 1
    /\ writes <= MaxWrites /\ crashes <= MaxCrashes /\ faults <= MaxFaults
    /\ item \subseteq Chunk /\ backed \in BOOLEAN
    /\ confirmed \subseteq 1 .. writes

\* The data after some of the items were written, in their order.
Applied(S) ==
    [c \in Chunk |->
        LET last == {n \in S : \E r \in items : r[1] = n /\ c \in r[2]}
        IN  IF last = {} THEN base[c]
            ELSE CHOOSE n \in last : \A k \in last : k <= n]

\* Whatever crashes there were, the modem is given the data it started from,
\* or that was restored, with every item that was confirmed to it since and
\* nothing of an item but the whole.
ItemsWhole ==
    pc = "load" =>
        \E S \in SUBSET {r[1] : r \in items} :
            confirmed \subseteq S /\ disk["nv"] = Applied(S)

\* Once a backup is complete the data can always be loaded again: a crash
\* or a failing call in the middle of anything leaves the data or the backup
\* intact.
Recoverable ==
    (backed /\ pc = "off") => Valid("nv", "md5") \/ Valid("bak", "bakMd5")
=============================================================================
