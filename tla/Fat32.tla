-------------------------------- MODULE Fat32 --------------------------------
(***************************************************************************)
(* Reading a FAT32 volume (src/drivers/fs/fat32.c) as the shell does it:   *)
(* fat32_mount at boot, then ls, cat, cd, disk and mkfs.fat32 of           *)
(* src/user/shell.c, and the prompt (build_path of src/kernel/utils.c).    *)
(*                                                                         *)
(* A disk is a function from LBA to sectors.  A sector is what the driver  *)
(* sees when it looks at it as a boot record, as a part of a FAT, as a     *)
(* part of a directory or as data, so a sector found by a wrong address is *)
(* read for what it is.  Sectors hold fewer entries than the real ones;    *)
(* all addresses are computed as in the code.  Any read may fail.          *)
(***************************************************************************)
EXTENDS Integers, Sequences, FiniteSets, FiniteSetsExt, SequencesExt

CONSTANTS
    Image,          \* the disks at boot: [drive -> [lba -> sector]]
    FatEntries,     \* FAT entries in a sector (128 in the code)
    DataUnits,      \* bytes in a sector (512)
    EOC,            \* end of chain (0x0FFFFFF8)
    NO_SECTOR,      \* no FAT sector is cached (0xFFFFFFFF)
    ListMax,        \* entries wanted by ls and cd (128, 64)
    ReadMax,        \* entries wanted by cat and build_path (128, 32)
    MaxDepth,       \* names in the prompt (32)
    MkfsReserved,   \* reserved sectors written by mkfs.fat32 (32)
    MkfsFatSize,    \* FAT size written by mkfs.fat32 (123)
    Paths,          \* arguments of cd
    Files,          \* arguments of cat
    DriveNums       \* arguments of disk

Drives == DOMAIN Image

\* The empty string, and all strings.
NoName == ""
Strings == STRING \cup {NoName}

\* The shape of a boot record, of a directory slot and of a sector.
Bpbs == [spc : Nat, reserved : Nat, tables : Nat, spf : Nat, root : Nat]
FatSectors == [0 .. FatEntries - 1 -> Nat]
DataSectors == [1 .. DataUnits -> Nat]
DirSlots == [kind : {"end", "lfn", "label", "dir", "file"}, name : Strings,
             first : Nat, size : Nat, ord : Nat, final : BOOLEAN, deleted : BOOLEAN]
Sectors == [signed : BOOLEAN, part : Nat, bpb : Bpbs, fat : FatSectors,
            dir : Seq(DirSlots), data : DataSectors]

\* Nothing is assumed of what the sectors hold.
ASSUME Fat32Assumption ==
    /\ FatEntries \in Nat \ {0} /\ DataUnits \in Nat \ {0}
    /\ EOC \in Nat /\ NO_SECTOR \in Nat
    /\ Image = [d \in Drives |-> Image[d]]
    /\ \A d \in Drives : Image[d] \in [DOMAIN Image[d] -> Sectors]
    /\ \A d \in Drives : NO_SECTOR \notin DOMAIN Image[d]
    /\ ListMax \in Nat /\ ReadMax \in Nat /\ MaxDepth \in Nat
    /\ MkfsReserved \in Nat /\ MkfsFatSize \in Nat
    /\ Paths \subseteq STRING /\ Files \subseteq STRING /\ DriveNums \subseteq Nat

VARIABLES
    disk,           \* the sectors of each drive
    fat32_bpb,      \* the boot record copied by fat32_mount
    fat_start,
    cluster_begin_lba,
    root_dir_first_cluster,
    current_dir_cluster,
    cached_fat_sector,
    fat_cache,      \* the FAT entries of the cached sector
    drive_num,      \* the drive the shell's commands are for
    op,             \* the call under way, its locals included
    cacheDrive,     \* history: the drive the cached sector was read from
    trail,          \* history: the directories entered, by their clusters
    lost            \* history: trail is void (no volume, mkfs, `cd ..' in the root,
                    \* a deleted directory entered)

geometry == <<fat32_bpb, fat_start, cluster_begin_lba, root_dir_first_cluster>>
cache == <<cached_fat_sector, fat_cache, cacheDrive>>
vars == <<disk, geometry, current_dir_cluster, cache, drive_num, op, trail, lost>>

-----------------------------------------------------------------------------
(* Sectors.                                                                *)

NoBpb == [spc |-> 0, reserved |-> 0, tables |-> 0, spf |-> 0, root |-> 0]
NoFat == [i \in 0 .. FatEntries - 1 |-> 0]
NoParts == [i \in 1 .. 20 |-> NoName]       \* lfn_parts, cleared
ZeroData == [i \in 1 .. DataUnits |-> 0]

\* kind: "end" (first byte 0), "lfn" (attribute 0x0F), "label" (0x08), "dir"
\* (0x10), "file"; deleted: the first byte is 0xE5 and the rest is as it was.
Slot(kind, name, first, size, ord, final) ==
    [kind |-> kind, name |-> name, first |-> first, size |-> size,
     ord |-> ord, final |-> final, deleted |-> FALSE]

\* A slot deleted.  In a part of a long name the first byte holds the number:
\* 0xE5 reads as number 5 (0xE5 & 0x1F) with the mark of the final part (0x40).
Erased(slot) == [slot EXCEPT !.deleted = TRUE, !.ord = 5, !.final = TRUE]
End == Slot("end", NoName, 0, 0, 0, FALSE)

\* signed: 0x55AA at the end; part: the LBA in the first entry of the
\* partition table of type 0x0B or 0x0C, 0 if there is none.
Sector(signed, part, bpb, fat, dir, data) ==
    [signed |-> signed, part |-> part, bpb |-> bpb, fat |-> fat,
     dir |-> dir, data |-> data]
ZeroSector == Sector(FALSE, 0, NoBpb, NoFat, <<End>>, ZeroData)

\* The static partition_lba: fat32_mount sets a local variable of this name.
partition_lba == 0

\* ata_read_sector succeeds only for a sector that is there; the caller may
\* also meet an error at any time.
Readable(d, lba) == d \in Drives /\ lba \in DOMAIN disk[d]

-----------------------------------------------------------------------------
(* Calls.  One call is under way at a time: `fn' says which loop it is in. *)

\* cmd: what asked for it; fn: "list" (fat32_list_dir), "read"
\* (fat32_read_dir), "file" (fat32_read_file), "idle" (the shell waits for a
\* line), "mount" (boot); faulty (history): a read has failed.
Call(cmd, fn, arg, drive, cl, max) ==
    [cmd |-> cmd, fn |-> fn, arg |-> arg, drive |-> drive, cl |-> cl, s |-> 0,
     max |-> max, parts |-> NoParts, present |-> 0, out |-> <<>>,
     slots |-> <<>>, want |-> 0, sector |-> ZeroData, cur |-> 0, parent |-> 0,
     path |-> <<>>,
     done |-> FALSE, error |-> FALSE, faulty |-> FALSE]

Idle == Call("none", "idle", NoName, 0, 0, 0)
Mount(d) == Call("boot", "mount", NoName, d, 0, 0)

Init ==
    /\ disk = Image
    /\ fat32_bpb = NoBpb
    /\ fat_start = 0
    /\ cluster_begin_lba = 0
    /\ root_dir_first_cluster = 2
    /\ current_dir_cluster = 2
    /\ cached_fat_sector = NO_SECTOR
    /\ fat_cache = NoFat
    /\ drive_num = 0
    /\ op = Mount(0)
    /\ cacheDrive = 0
    /\ trail = <<>>
    /\ lost = TRUE

-----------------------------------------------------------------------------
(* fat32_mount.                                                            *)

\* The boot record is taken into use.
Adopt(part, bpb) ==
    /\ fat32_bpb' = bpb
    /\ fat_start' = bpb.reserved
    /\ cluster_begin_lba' = part + bpb.reserved + bpb.tables * bpb.spf
    /\ root_dir_first_cluster' = IF bpb.root # 0 THEN bpb.root ELSE 2
    /\ current_dir_cluster' = root_dir_first_cluster'
    /\ cached_fat_sector' = NO_SECTOR
    /\ UNCHANGED <<fat_cache, cacheDrive>>

\* The code fat32_mount(d) returns if every read that can succeed does.
MountCode(d) ==
    IF ~Readable(d, 0) THEN 2
    ELSE LET mbr == disk[d][0] IN
      IF ~mbr.signed THEN 3
      ELSE IF mbr.part = 0 THEN 4
      ELSE IF ~Readable(d, mbr.part) THEN 5
      ELSE LET boot == disk[d][mbr.part] IN
        IF ~boot.signed THEN 6
        ELSE IF boot.bpb.spf = 0 THEN 7
        ELSE 0

\* kernel_main mounts drives 0 and 1 and ignores what fat32_mount returns.
AfterMount == IF op.drive = 0 THEN Mount(1) ELSE Idle

\* No memory, a failed read, or a check that refuses the disk; only the last
\* check comes after the boot record has been copied.
MountFails ==
    /\ op.fn = "mount"
    /\ \/ UNCHANGED fat32_bpb
       \/ /\ MountCode(op.drive) = 7
          /\ fat32_bpb' = disk[op.drive][disk[op.drive][0].part].bpb
    /\ op' = AfterMount
    /\ UNCHANGED <<disk, fat_start, cluster_begin_lba, root_dir_first_cluster,
                   current_dir_cluster, cache, drive_num, trail, lost>>

\* The drive is mounted.  With no sectors in a cluster the division for
\* total_clusters faults and the kernel is stopped: no step.
MountOk ==
    /\ op.fn = "mount"
    /\ MountCode(op.drive) = 0
    /\ LET part == disk[op.drive][0].part
           bpb  == disk[op.drive][part].bpb
       IN  bpb.spc # 0 /\ Adopt(part, bpb)
    /\ op' = AfterMount
    /\ lost' = (lost /\ op.drive # 0)
    /\ UNCHANGED <<disk, drive_num, trail>>

-----------------------------------------------------------------------------
(* The FAT.                                                                *)

\* Mutant of fat32_cluster_to_lba: clusters counted from 0.
LbaFromZero(cl) == partition_lba + cluster_begin_lba + cl * fat32_bpb.spc

fat32_cluster_to_lba(cl) ==
    partition_lba + cluster_begin_lba + cl * fat32_bpb.spc - 2 * fat32_bpb.spc

\* Mutant of fat32_get_next_cluster: the sector counts as cached before the
\* read is known to have succeeded.
NextCachedFirst(d, cl, next, failed) ==
    LET sector == partition_lba + fat_start + cl \div FatEntries
    IN  \/ /\ sector = cached_fat_sector
           /\ next = fat_cache[cl % FatEntries] /\ ~failed
           /\ UNCHANGED cache
        \/ /\ sector # cached_fat_sector /\ Readable(d, sector)
           /\ next = disk[d][sector].fat[cl % FatEntries] /\ ~failed
           /\ cached_fat_sector' = sector
           /\ fat_cache' = disk[d][sector].fat
           /\ cacheDrive' = d
        \/ /\ sector # cached_fat_sector
           /\ next = EOC /\ failed
           /\ cached_fat_sector' = sector
           /\ UNCHANGED <<fat_cache, cacheDrive>>

\* The entry of cl: from the cached sector, or from the disk into the cache;
\* a failed read is reported as the end of the chain.
fat32_get_next_cluster(d, cl, next, failed) ==
    LET sector == partition_lba + fat_start + cl \div FatEntries
    IN  \/ /\ sector = cached_fat_sector
           /\ next = fat_cache[cl % FatEntries] /\ ~failed
           /\ UNCHANGED cache
        \/ /\ sector # cached_fat_sector /\ Readable(d, sector)
           /\ next = disk[d][sector].fat[cl % FatEntries] /\ ~failed
           /\ cached_fat_sector' = sector
           /\ fat_cache' = disk[d][sector].fat
           /\ cacheDrive' = d
        \/ /\ sector # cached_fat_sector
           /\ next = EOC /\ failed
           /\ UNCHANGED cache

\* What it can return without a failure, and EOC.
NextValues(d, cl) ==
    LET sector == partition_lba + fat_start + cl \div FatEntries
    IN  {EOC, fat_cache[cl % FatEntries]}
        \cup (IF Readable(d, sector) THEN {disk[d][sector].fat[cl % FatEntries]} ELSE {})

-----------------------------------------------------------------------------
(* fat32_list_dir and fat32_read_dir: one step per sector, per slot of it  *)
(* and per cluster.                                                        *)

\* A finite set of numbers as a sequence, the least first.
Rank(S, i) == Cardinality({j \in S : j <= i})
InOrder(S) == [k \in 1 .. Cardinality(S) |-> Min({i \in S : Rank(S, i) = k})]

\* The parts of a long name put together, the one with the highest number
\* first, as the loop at line 253 does.
Glue(parts, present) ==
    LET idx == InOrder({i \in 1 .. present : parts[i] # NoName})
    IN  [k \in DOMAIN idx |-> parts[idx[Len(idx) + 1 - k]]]

\* What is kept of a slot; deleted is history, nothing in the code reads it.
Entry(slot, name) ==
    [name |-> name, kind |-> slot.kind, first |-> slot.first, size |-> slot.size,
     deleted |-> slot.deleted]

\* ent->name[0]==0xE5 where name is an array of char, which is signed on this
\* target: the byte 0xE5 is -27 there, so the comparison never succeeds.
SignedChar(byte) == IF byte < 128 THEN byte ELSE byte - 256
LooksDeleted(slot) == slot.deleted /\ SignedChar(229) = 229

\* A part with a number out of range is dropped; the final part, which comes
\* first, clears the others and sets their number.
PutPart(parts, slot) ==
    LET old == IF slot.final THEN NoParts ELSE parts
    IN  IF slot.ord \in DOMAIN old THEN [old EXCEPT ![slot.ord] = slot.name] ELSE old
LastPart(present, slot) ==
    IF slot.ord \in DOMAIN NoParts /\ slot.final THEN slot.ord ELSE present

NameOf(slot) ==
    IF op.present # 0 THEN Glue(op.parts, op.present) ELSE <<slot.name>>

\* Mutant of ListSlot: a full array does not stop the loop.
ListSlotNoLimit(slot) ==
    CASE slot.kind = "end" -> [op EXCEPT !.done = TRUE]
      [] slot.kind = "lfn" -> [op EXCEPT !.parts = PutPart(@, slot),
                                         !.present = LastPart(@, slot)]
      [] LooksDeleted(slot) \/ slot.kind = "label" -> [op EXCEPT !.present = 0]
      [] OTHER -> [op EXCEPT !.out = Append(@, Entry(slot, NameOf(slot))), !.present = 0]

\* Mutant of ListSlot: a label or an entry leaves its long name behind.
ListSlotKeepsLfn(slot) ==
    CASE slot.kind = "end" -> [op EXCEPT !.done = TRUE]
      [] slot.kind = "lfn" -> [op EXCEPT !.parts = PutPart(@, slot),
                                         !.present = LastPart(@, slot)]
      [] LooksDeleted(slot) \/ slot.kind = "label" -> op
      [] slot.kind \in {"dir", "file"} /\ Len(op.out) >= op.max -> [op EXCEPT !.done = TRUE]
      [] OTHER -> [op EXCEPT !.out = Append(@, Entry(slot, NameOf(slot)))]

\* One slot of a sector in fat32_list_dir.  The mark of a deleted slot is not
\* recognised: it is listed, under what is left of its long name.
ListSlot(slot) ==
    CASE slot.kind = "end" -> [op EXCEPT !.done = TRUE]
      [] slot.kind = "lfn" -> [op EXCEPT !.parts = PutPart(@, slot),
                                         !.present = LastPart(@, slot)]
      [] LooksDeleted(slot) \/ slot.kind = "label" -> [op EXCEPT !.present = 0]
      [] slot.kind \in {"dir", "file"} /\ Len(op.out) >= op.max -> [op EXCEPT !.done = TRUE]
      [] OTHER -> [op EXCEPT !.out = Append(@, Entry(slot, NameOf(slot))), !.present = 0]

\* One slot in fat32_read_dir: no long names, a label counts as a file, and a
\* deleted slot is copied too.
ReadSlot(slot) ==
    CASE slot.kind = "end" -> [op EXCEPT !.done = TRUE]
      [] slot.kind = "lfn" \/ LooksDeleted(slot) -> op
      [] slot.kind \in {"dir", "file", "label"} /\ Len(op.out) >= op.max ->
            [op EXCEPT !.done = TRUE]
      [] OTHER -> [op EXCEPT !.out = Append(@, Entry(slot, <<slot.name>>))]

Scanning == op.fn \in {"list", "read"} /\ ~op.done /\ op.cl < EOC
Scanned == op.fn \in {"list", "read"} /\ (op.done \/ op.cl >= EOC)

\* A sector of the directory is read; without memory for it, or when the read
\* fails, the call returns an error.
ScanSector ==
    /\ Scanning /\ op.slots = <<>> /\ op.s < fat32_bpb.spc
    /\ LET lba == fat32_cluster_to_lba(op.cl) + op.s
       IN  \/ /\ Readable(op.drive, lba)
              /\ op' = [op EXCEPT !.slots = disk[op.drive][lba].dir, !.s = @ + 1]
           \/ op' = [op EXCEPT !.done = TRUE, !.error = TRUE,
                               !.faulty = @ \/ Readable(op.drive, lba)]
    /\ UNCHANGED <<disk, geometry, current_dir_cluster, cache, drive_num, trail,
                   lost>>

\* One slot of the sector.
ScanSlot ==
    /\ Scanning /\ op.slots # <<>>
    /\ LET slot == Head(op.slots)
       IN  op' = [(IF op.fn = "list" THEN ListSlot(slot) ELSE ReadSlot(slot))
                    EXCEPT !.slots = Tail(@)]
    /\ UNCHANGED <<disk, geometry, current_dir_cluster, cache, drive_num, trail,
                   lost>>

\* The cluster is done; the next one is looked up in the FAT.
ScanNext ==
    /\ Scanning /\ op.slots = <<>> /\ op.s >= fat32_bpb.spc
    /\ \E next \in NextValues(op.drive, op.cl), failed \in BOOLEAN :
          /\ fat32_get_next_cluster(op.drive, op.cl, next, failed)
          /\ op' = [op EXCEPT !.cl = next, !.s = 0, !.faulty = @ \/ failed]
    /\ UNCHANGED <<disk, geometry, current_dir_cluster, drive_num, trail, lost>>

-----------------------------------------------------------------------------
(* The shell's loop: a command, then print_prompt.                         *)

\* Mutant of PathStep: the walk does not stop at the root.
PathStepPastRoot(cur, path) ==
    IF Len(path) >= MaxDepth
    THEN [Call("prompt", "shown", NoName, 0, cur, 0) EXCEPT !.path = path]
    ELSE [Call("prompt", "read", "self", 0, cur, ReadMax)
             EXCEPT !.cur = cur, !.path = path]

\* build_path's loop: it reads the directory `cur' to find its parent, always
\* from drive 0, until it is at the root or has MaxDepth names.
PathStep(cur, path) ==
    IF cur = root_dir_first_cluster \/ Len(path) >= MaxDepth
    THEN [Call("prompt", "shown", NoName, 0, cur, 0) EXCEPT !.path = path]
    ELSE [Call("prompt", "read", "self", 0, cur, ReadMax)
             EXCEPT !.cur = cur, !.path = path]

\* After a command the prompt is printed for the directory cwd.
AfterCommand(cwd) == op' = PathStep(cwd, <<>>)

Waiting == op.fn = "idle"

Entries == ToSet(op.out)

\* The first entry of the array that is wanted, or NoEntry; after an error
\* the count is negative and the array is not looked at.
NoEntry == [name |-> <<>>, kind |-> "none", first |-> 0, size |-> 0, deleted |-> FALSE]
FirstEntry(wanted) ==
    IF ~op.error /\ \E i \in DOMAIN op.out : op.out[i] \in wanted
    THEN op.out[Min({i \in DOMAIN op.out : op.out[i] \in wanted})] ELSE NoEntry

\* The cluster a `..' entry stands for: 0 is the root.
Parent(e) == IF e.first = 0 THEN root_dir_first_cluster ELSE e.first

\* build_path knows the parent and reads it.
PathSelf ==
    /\ Scanned /\ op.cmd = "prompt" /\ op.arg = "self"
    /\ LET up == Parent(FirstEntry({e \in Entries : e.name = <<"..">>}))
       IN  op' = [Call("prompt", "read", "parent", 0, up, ReadMax)
                    EXCEPT !.cur = op.cur, !.parent = up, !.path = op.path,
                           !.faulty = op.faulty]
    /\ UNCHANGED <<disk, geometry, current_dir_cluster, cache, drive_num, trail,
                   lost>>

\* build_path finds the name under which the parent holds the directory.
PathParent ==
    /\ Scanned /\ op.cmd = "prompt" /\ op.arg = "parent"
    /\ LET e == FirstEntry({x \in Entries : x.kind = "dir" /\ x.first = op.cur})
           n == IF e = NoEntry THEN NoName ELSE e.name[1]
       IN  op' = [PathStep(op.parent, Append(op.path, n)) EXCEPT !.faulty = op.faulty]
    /\ UNCHANGED <<disk, geometry, current_dir_cluster, cache, drive_num, trail,
                   lost>>

\* build_path gets no memory for a directory and stops.
PathNoMemory ==
    /\ op.cmd = "prompt" /\ op.fn = "read" /\ op.s = 0 /\ op.out = <<>>
    /\ op.cl = IF op.arg = "self" THEN op.cur ELSE op.parent
    /\ op' = [Call("prompt", "shown", NoName, 0, op.cur, 0)
                EXCEPT !.path = op.path, !.faulty = TRUE]
    /\ UNCHANGED <<disk, geometry, current_dir_cluster, cache, drive_num, trail,
                   lost>>

\* The prompt is shown and the shell waits for a line.
PathShown ==
    /\ op.fn = "shown"
    /\ op' = Idle
    /\ UNCHANGED <<disk, geometry, current_dir_cluster, cache, drive_num, trail,
                   lost>>

\* disk n: nothing is mounted and the directory stays what it was.
DiskCommand(n) ==
    /\ Waiting
    /\ drive_num' = n
    /\ AfterCommand(current_dir_cluster)
    /\ UNCHANGED <<disk, geometry, current_dir_cluster, cache, trail, lost>>

Ls ==
    /\ Waiting
    /\ op' = Call("ls", "list", NoName, drive_num, current_dir_cluster, ListMax)
    /\ UNCHANGED <<disk, geometry, current_dir_cluster, cache, drive_num, trail,
                   lost>>

\* The listing, or an error, is printed.
LsDone ==
    /\ Scanned /\ op.cmd = "ls"
    /\ AfterCommand(current_dir_cluster)
    /\ UNCHANGED <<disk, geometry, current_dir_cluster, cache, drive_num, trail,
                   lost>>

-----------------------------------------------------------------------------
(* cat: fat32_read_dir, then fat32_read_file.                              *)

Cat(f) ==
    /\ Waiting
    /\ op' = Call("cat", "read", f, drive_num, current_dir_cluster, ReadMax)
    /\ UNCHANGED <<disk, geometry, current_dir_cluster, cache, drive_num, trail,
                   lost>>

\* The entry that cat opens: the first that is not a directory (a label will
\* do) and has the name.
Wanted == FirstEntry({e \in Entries : e.kind # "dir" /\ e.name = <<op.arg>>})

\* No such file, an error, no memory, or no first cluster.
CatNothing ==
    /\ Scanned /\ op.cmd = "cat"
    /\ AfterCommand(current_dir_cluster)
    /\ UNCHANGED <<disk, geometry, current_dir_cluster, cache, drive_num, trail,
                   lost>>

\* fat32_read_file is called for as many bytes as the directory says.
CatOpen ==
    /\ Scanned /\ op.cmd = "cat"
    /\ Wanted # NoEntry /\ Wanted.first >= 2
    /\ op' = [Call("cat", "file", op.arg, op.drive, Wanted.first, 0)
                EXCEPT !.want = Wanted.size, !.faulty = op.faulty, !.cur = Wanted.first]
    /\ UNCHANGED <<disk, geometry, current_dir_cluster, cache, drive_num, trail,
                   lost>>

FileDone == op.fn = "file" /\ op.s = 0 /\ (op.cl >= EOC \/ Len(op.out) >= op.want)
FileReading == op.fn = "file" /\ ~FileDone

\* Mutant of CopyLen: the remainder, also when whole sectors are left.
CopyLenRemainder == (op.want - Len(op.out)) % DataUnits

\* How much of a sector is copied.
CopyLen == IF op.want - Len(op.out) > DataUnits THEN DataUnits
           ELSE op.want - Len(op.out)

\* A sector is copied; the result of the read is not looked at, and after an
\* error the buffer holds the sector before.
FileSector ==
    /\ FileReading /\ op.s < fat32_bpb.spc /\ Len(op.out) < op.want
    /\ LET lba == fat32_cluster_to_lba(op.cl) + op.s
       IN  \E failed \in BOOLEAN :
             /\ failed \/ Readable(op.drive, lba)
             /\ LET buf == IF failed THEN op.sector ELSE disk[op.drive][lba].data
                IN  op' = [op EXCEPT !.sector = buf, !.s = @ + 1,
                                     !.out = @ \o SubSeq(buf, 1, CopyLen),
                                     !.faulty = @ \/ failed]
    /\ UNCHANGED <<disk, geometry, current_dir_cluster, cache, drive_num, trail,
                   lost>>

\* The next cluster is looked up, also when the file is complete.
FileNext ==
    /\ FileReading /\ (op.s >= fat32_bpb.spc \/ Len(op.out) >= op.want)
    /\ \E next \in NextValues(op.drive, op.cl), failed \in BOOLEAN :
          /\ fat32_get_next_cluster(op.drive, op.cl, next, failed)
          /\ op' = [op EXCEPT !.cl = next, !.s = 0, !.faulty = @ \/ failed]
    /\ UNCHANGED <<disk, geometry, current_dir_cluster, drive_num, trail, lost>>

\* The contents are printed.
CatDone ==
    /\ FileDone
    /\ AfterCommand(current_dir_cluster)
    /\ UNCHANGED <<disk, geometry, current_dir_cluster, cache, drive_num, trail,
                   lost>>

-----------------------------------------------------------------------------
(* cd: fat32_resolve_path and fat32_change_dir.  The names of directories  *)
(* are compared with the whole path: it has no components.                 *)

\* cd \ and cd . need no directory.  A prefix X:\ has been taken off before,
\* whatever X is: Paths are what is left, and "/" when nothing is.
CdDirect(p) ==
    /\ Waiting /\ p \in {"/", "."}
    /\ current_dir_cluster' = IF p = "/" THEN root_dir_first_cluster
                              ELSE current_dir_cluster
    /\ trail' = IF p = "/" THEN <<>> ELSE trail
    /\ AfterCommand(current_dir_cluster')
    /\ UNCHANGED <<disk, geometry, cache, drive_num, lost>>

\* The directory is listed: two entries for `..', ListMax for a name.
CdList(p) ==
    /\ Waiting /\ p \notin {"/", "."}
    /\ op' = Call("cd", "list", p, drive_num, current_dir_cluster,
                  IF p = ".." THEN 2 ELSE ListMax)
    /\ UNCHANGED <<disk, geometry, current_dir_cluster, cache, drive_num, trail,
                   lost>>

\* The first directory listed under the name given, deleted or not.
Named == FirstEntry({e \in Entries : e.kind = "dir" /\ e.name = <<op.arg>>})

\* Mutant of Target: the first entry is taken for the parent.
TargetOffByOne ==
    IF op.arg = ".."
    THEN IF op.error \/ Len(op.out) < 2 THEN 0
         ELSE IF Parent(op.out[1]) = current_dir_cluster THEN root_dir_first_cluster
         ELSE Parent(op.out[1])
    ELSE Named.first

\* The cluster found, 0 if none: `..' is the second entry, whatever it is.
Target ==
    IF op.arg = ".."
    THEN IF op.error \/ Len(op.out) < 2 THEN 0
         ELSE IF Parent(op.out[2]) = current_dir_cluster THEN root_dir_first_cluster
         ELSE Parent(op.out[2])
    ELSE Named.first

CdFails ==
    /\ Scanned /\ op.cmd = "cd" /\ Target < 2
    /\ AfterCommand(current_dir_cluster)
    /\ UNCHANGED <<disk, geometry, current_dir_cluster, cache, drive_num, trail,
                   lost>>

-----------------------------------------------------------------------------
(* What is on the volume of drive 0, by the rules of FAT32 and not by the  *)
(* driver: the FAT lies inside the partition.  Used for trail and in the   *)
(* properties.                                                             *)

Volume(sectors) ==
    [sector |-> sectors,
     part   |-> sectors[0].part,
     bpb    |-> sectors[sectors[0].part].bpb]

FatOf(v, cl) ==
    v.sector[v.part + v.bpb.reserved + cl \div FatEntries].fat[cl % FatEntries]
LbaOf(v, cl) ==
    v.part + v.bpb.reserved + v.bpb.tables * v.bpb.spf + (cl - 2) * v.bpb.spc
ClustersOf(v) ==
    {cl \in 2 .. Cardinality(DOMAIN v.sector) : LbaOf(v, cl) \in DOMAIN v.sector}

\* The clusters of the chain that begins with cl; all are the volume's.
ChainOf(v, all, cl) ==
    LET f[i \in 1 .. Cardinality(all)] ==
          IF i = 1 THEN cl
          ELSE IF f[i - 1] \in all THEN FatOf(v, f[i - 1]) ELSE EOC
    IN  SelectSeq(f, LAMBDA c : c \in all)

\* The sectors of a chain, in order.
SectorsOf(v, chain) ==
    FlattenSeq([i \in DOMAIN chain |->
       [k \in 1 .. v.bpb.spc |-> v.sector[LbaOf(v, chain[i]) + k - 1]]])

\* The slots of a directory, and those of them before the end mark.
AllSlots(sectors) == FlattenSeq([i \in DOMAIN sectors |-> sectors[i].dir])
SlotsOf(sectors) ==
    LET all  == AllSlots(sectors)
        ends == {i \in DOMAIN all : all[i].kind = "end"}
    IN  IF ends = {} THEN all ELSE SubSeq(all, 1, Min(ends) - 1)

\* How many parts of a long name stand before slot i: numbers 1, 2, ... going
\* backwards, up to the one marked as final.
LfnParts(slots, i) ==
    LET ns == {n \in 1 .. i - 1 :
                 /\ \A j \in 1 .. n : slots[i - j].kind = "lfn" /\ slots[i - j].ord = j
                 /\ slots[i - n].final}
    IN  IF ns = {} THEN 0 ELSE Min(ns)

\* The name of the entry in slot i.  A deleted one has lost the numbers of its
\* parts: what is left of its long name is the part next to it, the first.
LongName(slots, i) ==
    IF slots[i].deleted
    THEN <<IF i > 1 /\ slots[i - 1].kind = "lfn" THEN slots[i - 1].name ELSE slots[i].name>>
    ELSE IF LfnParts(slots, i) = 0 THEN <<slots[i].name>>
    ELSE [j \in 1 .. LfnParts(slots, i) |-> slots[i - j].name]

\* A directory as its entries, the deleted ones too, long names in order.
EntriesOf(slots) ==
    LET idx == InOrder({i \in DOMAIN slots : slots[i].kind \in {"dir", "file"}})
    IN  [k \in DOMAIN idx |-> Entry(slots[idx[k]], LongName(slots, idx[k]))]

\* The volume in Image, by its clusters: chains, directories, contents.
Vol == Volume(Image[0])
Bpb == Vol.bpb
Clusters == ClustersOf(Vol)
Chain == [cl \in Clusters |-> ChainOf(Vol, Clusters, cl)]
Slots == [cl \in Clusters |-> SlotsOf(SectorsOf(Vol, Chain[cl]))]
Listing == [cl \in Clusters |-> EntriesOf(Slots[cl])]
Contents ==
    [cl \in Clusters |->
       LET sectors == SectorsOf(Vol, Chain[cl])
       IN  FlattenSeq([i \in DOMAIN sectors |-> sectors[i].data])]

\* The first cluster of the subdirectory called n of a directory; a deleted one
\* is none.
Child(listing, n) ==
    LET hits == {i \in DOMAIN listing : /\ listing[i].kind = "dir" /\ listing[i].name = <<n>>
                                         /\ ~listing[i].deleted}
    IN  IF hits = {} THEN 0 ELSE listing[Min(hits)].first

Cwd == IF trail = <<>> THEN Bpb.root ELSE Last(trail)

-----------------------------------------------------------------------------
(* Volumes that the driver reads right: one disk, directories of one       *)
(* cluster, long names complete.  They are what the theorems about the     *)
(* volume assume; the small disk of the runs is one of them.               *)

\* Where the driver looks for the FAT entry of cl, and what it finds there.
SeenAt(cl) == Bpb.reserved + cl \div FatEntries
NextSeen(cl) == Image[0][SeenAt(cl)].fat[cl % FatEntries]

\* The disk has every sector of the cluster.
Whole(cl) == \A k \in 1 .. Bpb.spc : LbaOf(Vol, cl) + k - 1 \in DOMAIN Image[0]

\* The driver sees where directory d ends: at an end mark, or because it
\* goes on to no cluster or to an empty one.
EndSeen(d) ==
    LET lba == LbaOf(Vol, NextSeen(d))
    IN  \/ Slots[d] # AllSlots(SectorsOf(Vol, Chain[d]))
        \/ SeenAt(d) \notin DOMAIN Image[0]
        \/ NextSeen(d) >= EOC
        \/ lba \in DOMAIN Image[0] /\ Image[0][lba].dir # <<>>
              /\ Head(Image[0][lba].dir).kind = "end"

\* Slot i follows the parts of its own long name, deleted with it, and no others.
NameWhole(slots, i) ==
    \E n \in 0 .. i - 1 :
       /\ n \in {0} \cup DOMAIN NoParts
       /\ \A j \in 1 .. n :
             LET part == slots[i - j]
             IN  /\ part.kind = "lfn" /\ part.name # NoName
                 /\ part.ord = IF slots[i].deleted THEN 5 ELSE j
                 /\ part.final = (slots[i].deleted \/ j = n)
       /\ n < i - 1 => slots[i - n - 1].kind # "lfn"

\* Directory c begins with the entries of itself and of its parent d.
ChildOf(c, d) ==
    /\ c \notin {d, Bpb.root} /\ Len(Slots[c]) >= 2
    /\ Slots[c][1].kind = "dir" /\ Slots[c][1].name = "."
    /\ Slots[c][2].kind = "dir" /\ Slots[c][2].name = ".."
    /\ Slots[c][2].first = IF d = Bpb.root THEN 0 ELSE d

\* dirs are the directories that Paths lead to; no FAT has a sector NO_SECTOR.
DirTree(dirs) ==
    /\ Drives = {0} /\ {0, Vol.part} \subseteq DOMAIN Image[0]
    /\ Bpb.spc # 0 /\ Bpb.reserved + EOC < NO_SECTOR
    /\ dirs \subseteq Clusters /\ Bpb.root \in dirs
    /\ \A d \in dirs :
          /\ d < EOC /\ Chain[d] = <<d>> /\ Whole(d) /\ EndSeen(d)
          /\ \A i \in DOMAIN Slots[d] :
                Slots[d][i].kind \in {"dir", "file"} => NameWhole(Slots[d], i)
          /\ \A p \in Paths \ {"/", ".", ".."} :
                LET c == Child(Listing[d], p)
                IN  c >= 2 => c \in dirs /\ ChildOf(c, d)

\* build_path reads all entries of a directory.
ReadableDirs(dirs) ==
    \A d \in dirs : Cardinality({i \in DOMAIN Slots[d] :
                          Slots[d][i].kind \in {"dir", "file", "label"}}) <= ReadMax

\* Every cluster of the file that begins with cl is there.
FileWhole(cl) ==
    /\ cl \in Clusters /\ cl < EOC
    /\ Chain[cl] \in Seq({c \in Clusters : Whole(c)})
    /\ Chain[cl] # <<>> /\ Head(Chain[cl]) = cl

\* The files that cat opens are whole; where the driver goes on from one of
\* more than a cluster it meets no end.
FilesSound(dirs, onward) ==
    /\ \A cl \in onward : cl < EOC /\ (SeenAt(cl) \in DOMAIN Image[0] => NextSeen(cl) \in onward)
    /\ \A d \in dirs : \A i \in DOMAIN Slots[d] :
          LET slot == Slots[d][i]
          IN  slot.kind \in {"file", "label"} /\ slot.name \in Files /\ slot.first >= 2 =>
                /\ FileWhole(slot.first)
                /\ slot.size > Bpb.spc * DataUnits => slot.first \in onward

-----------------------------------------------------------------------------

\* The directory is changed.  trail goes where the volume says; a `..' in the
\* root leads to the cluster of some entry, and a deleted directory that cd
\* finds is none of the volume's.
CdDone ==
    /\ Scanned /\ op.cmd = "cd" /\ Target >= 2
    /\ current_dir_cluster' = Target
    /\ IF lost \/ (IF op.arg = ".." THEN trail = <<>> ELSE Named.deleted)
       THEN lost' = TRUE /\ trail' = <<>>
       ELSE /\ trail' = IF op.arg = ".." THEN Front(trail)
                        ELSE Append(trail, Child(Listing[Cwd], op.arg))
            /\ UNCHANGED lost
    /\ AfterCommand(Target)
    /\ UNCHANGED <<disk, geometry, cache, drive_num>>

-----------------------------------------------------------------------------
(* mkfs.fat32.                                                             *)

MkfsBoot == Sector(TRUE, 0, [spc |-> 1, reserved |-> MkfsReserved, tables |-> 2,
                             spf |-> MkfsFatSize, root |-> 2], NoFat, <<End>>, ZeroData)
MkfsInfo == Sector(TRUE, 0, NoBpb, NoFat, <<End>>, ZeroData)

\* The sectors cleared after the boot record and FSInfo.
MkfsZeroed == MkfsReserved .. MkfsReserved + MkfsReserved + 2 * MkfsFatSize - 1

\* A failed write of the boot record or of FSInfo ends it.
MkfsFails ==
    /\ Waiting
    /\ \/ UNCHANGED <<disk, lost>>
       \/ /\ drive_num \in Drives
          /\ disk' = [disk EXCEPT ![drive_num][0] = MkfsBoot]
          /\ lost' = TRUE
    /\ AfterCommand(current_dir_cluster)
    /\ UNCHANGED <<geometry, current_dir_cluster, cache, drive_num, trail>>

\* The sectors are written, of those to be cleared as many as the drive takes
\* (errors are not looked at); what is in memory about the volume stays.
Mkfs ==
    /\ Waiting
    /\ drive_num \in Drives
    /\ \E cleared \in SUBSET (MkfsZeroed \cap DOMAIN disk[drive_num]) :
          disk' = [disk EXCEPT ![drive_num] =
                     [lba \in DOMAIN @ |-> IF lba = 0 THEN MkfsBoot
                                           ELSE IF lba = 1 THEN MkfsInfo
                                           ELSE IF lba \in cleared THEN ZeroSector
                                           ELSE @[lba]]]
    /\ lost' = TRUE
    /\ trail' = <<>>
    /\ AfterCommand(current_dir_cluster)
    /\ UNCHANGED <<geometry, current_dir_cluster, cache, drive_num>>

-----------------------------------------------------------------------------

\* A line is typed.
Command ==
    \/ \E n \in DriveNums : DiskCommand(n)
    \/ Ls
    \/ \E f \in Files : Cat(f)
    \/ \E p \in Paths : CdDirect(p) \/ CdList(p)
    \/ Mkfs \/ MkfsFails

\* The kernel works on it.
Work ==
    \/ MountOk \/ MountFails
    \/ ScanSector \/ ScanSlot \/ ScanNext
    \/ PathSelf \/ PathParent \/ PathNoMemory \/ PathShown
    \/ LsDone
    \/ CatNothing \/ CatOpen \/ FileSector \/ FileNext \/ CatDone
    \/ CdFails \/ CdDone

Next == Command \/ Work

Spec == Init /\ [][Next]_vars

\* The shell's thread is never left READY for ever (ReadyRuns in Threads).
FairSpec == Spec /\ WF_vars(Work)

-----------------------------------------------------------------------------
(* Properties.                                                             *)

\* The arrays given to fat32_list_dir and fat32_read_dir and the buffer given
\* to fat32_read_file are never overrun, whatever the disk holds.
BuffersHold ==
    /\ op.fn \in {"list", "read"} => Len(op.out) <= op.max
    /\ op.fn = "file" => Len(op.out) <= op.want

\* The cached FAT sector is what the drive holds, also after failed reads
\* (the order of the read and the assignment in fat32_get_next_cluster).
CacheCoherent ==
    cached_fat_sector # NO_SECTOR /\ disk = Image =>
        fat_cache = disk[cacheDrive][cached_fat_sector].fat

\* Any sequence of cd commands leads to the directory it names on the volume:
\* into subdirectories, back with `..' (whose entry holds 0 for the root) and
\* to the root, also when some of them fail.  Only until one of them finds a
\* deleted directory under its left-over name (DeletedSkipped) and goes there.
CwdOnTrail == ~lost => current_dir_cluster = Cwd

\* The name of directory number i of the trail: the short one of the first
\* slot of its parent that leads to it, which after a renaming may be the
\* deleted one.
TrailName(i) ==
    LET up == IF i = 1 THEN Bpb.root ELSE trail[i - 1]
        slots == Slots[up]
    IN  slots[Min({k \in DOMAIN slots :
                     slots[k].kind = "dir" /\ slots[k].first = trail[i]})].name

\* The prompt shows the path from the root to the current directory, the
\* last MaxDepth names of it (build_path walks up through the `..' entries).
PromptIsTrail ==
    op.fn = "shown" /\ ~lost /\ ~op.faulty =>
        /\ Len(op.path) = Min({Len(trail), MaxDepth})
        /\ \A i \in DOMAIN op.path : op.path[i] = TrailName(Len(trail) + 1 - i)

Listed == Scanned /\ op.cmd = "ls" /\ op.drive = 0 /\ ~lost /\ ~op.faulty

\* ls lists the slots of a directory of one cluster in order, each with its
\* own attributes, cluster and size: the label leaves no trace, long names of
\* one part belong to the entry that follows them, and a deleted entry, which
\* is listed like the others, has what is left of its own long name.
ListingRight ==
    Listed /\ Len(Chain[current_dir_cluster]) = 1 =>
        LET true == Listing[current_dir_cluster]
        IN  /\ ~op.error
            /\ Len(op.out) = Min({Len(true), op.max})
            /\ \A i \in DOMAIN op.out :
                  /\ Len(true[i].name) = 1 => op.out[i].name = true[i].name
                  /\ [op.out[i] EXCEPT !.name = <<>>] = [true[i] EXCEPT !.name = <<>>]

FileRead == FileDone /\ op.drive = 0 /\ ~lost /\ ~op.faulty

\* cat gets as many bytes as the file has, and those of the first cluster are
\* the file's.
FirstClusterRight ==
    FileRead => /\ Len(op.out) = op.want
                /\ \A i \in 1 .. Min({op.want, Bpb.spc * DataUnits}) :
                      op.out[i] = Contents[op.cur][i]

Mounted == fat32_bpb.spc # 0

\* Every command on a mounted volume comes back to the prompt, although the
\* chains it follows are not those of the volume (they lead to cluster 0,
\* which is the last but one part of the last FAT; it is empty in Image).
CommandEnds == (Mounted /\ ~Waiting) ~> Waiting

-----------------------------------------------------------------------------
(* What the code's comments and messages say and the code does not do.     *)

\* fat32_list_dir and fat32_read_dir pass over deleted slots.
DeletedSkipped == Scanned => \A i \in DOMAIN op.out : ~op.out[i].deleted

\* fat32_read_file reads the whole file.
WholeFileRead ==
    FileRead => op.out = SubSeq(Contents[op.cur], 1, op.want)

=============================================================================
