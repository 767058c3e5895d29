----------------------------- MODULE Fat32Proofs -----------------------------
(* Theorems about Fat32, for any disks, any limits and any commands.        *)
EXTENDS Fat32, SequenceTheorems, WellFoundedInduction, TLAPS

PartArrays == [1 .. 20 -> Strings]

\* The names an entry may have: a short one, or a long one put together.
Names == {<<>>} \cup {<<n>> : n \in Strings}
         \cup {Glue(parts, k) : parts \in PartArrays, k \in Nat}
EntryRecords == [name : Names,
                 kind : {"end", "lfn", "label", "dir", "file", "none"},
                 first : Nat, size : Nat, deleted : BOOLEAN]
PathNames == Strings \cup {n[1] : n \in Names}

CmdNames == {"none", "boot", "prompt", "ls", "cat", "cd"}
FnNames == {"idle", "mount", "list", "read", "file", "shown"}
Arguments == Strings \cup {"self", "parent"}
CallRecords ==
    [cmd : CmdNames, fn : FnNames, arg : Arguments,
     drive : Nat, cl : Nat, s : Nat, max : Nat, parts : PartArrays, present : Nat,
     out : Seq(EntryRecords \cup Nat), slots : Seq(DirSlots), want : Nat,
     sector : DataSectors, cur : Nat, parent : Nat, path : Seq(PathNames),
     done : BOOLEAN, error : BOOLEAN, faulty : BOOLEAN]

\* What mkfs.fat32 leaves in a sector it writes.
Formatted(lba) == IF lba = 0 THEN MkfsBoot ELSE IF lba = 1 THEN MkfsInfo ELSE ZeroSector

\* A sector holds what it held at boot, or what mkfs.fat32 writes there.
DiskInv ==
    /\ disk = [d \in Drives |-> disk[d]]
    /\ \A d \in Drives : disk[d] \in [DOMAIN Image[d] -> Sectors]
    /\ \A d \in Drives : \A lba \in DOMAIN Image[d] :
          disk[d][lba] \in {Image[d][lba], Formatted(lba)}

Fat32Type ==
    /\ fat32_bpb \in Bpbs
    /\ fat_start \in Nat /\ cluster_begin_lba \in Nat
    /\ root_dir_first_cluster \in Nat /\ current_dir_cluster \in Nat
    /\ cached_fat_sector \in Nat /\ fat_cache \in FatSectors
    /\ drive_num \in Nat
    /\ op \in CallRecords
    /\ op.fn # "file" => op.out \in Seq(EntryRecords)

Fat32Inv == DiskInv /\ Fat32Type /\ BuffersHold /\ CacheCoherent

-----------------------------------------------------------------------------
(* Sectors and calls. *)

LEMMA Sizes ==
    /\ FatEntries \in Nat \ {0} /\ DataUnits \in Nat \ {0} /\ EOC \in Nat /\ NO_SECTOR \in Nat
    /\ ListMax \in Nat /\ ReadMax \in Nat /\ MaxDepth \in Nat
    /\ MkfsReserved \in Nat /\ MkfsFatSize \in Nat
  BY Fat32Assumption DEF Fat32Assumption

LEMMA ConstantSectors ==
    /\ NoBpb \in Bpbs /\ NoFat \in FatSectors /\ ZeroData \in DataSectors
    /\ NoParts \in PartArrays
    /\ \A lba : Formatted(lba) \in Sectors
  <1>1. NoFat \in FatSectors
    BY DEF NoFat, FatSectors
  <1>2. NoBpb \in Bpbs /\ ZeroData \in DataSectors /\ NoParts \in PartArrays
    BY DEF NoBpb, Bpbs, ZeroData, DataSectors, NoParts, PartArrays, Strings
  <1>3. End \in DirSlots
    BY DEF End, Slot, DirSlots, Strings
  <1>4. <<End>> \in Seq(DirSlots)
    BY <1>3
  <1>5. [spc |-> 1, reserved |-> MkfsReserved, tables |-> 2, spf |-> MkfsFatSize,
         root |-> 2] \in Bpbs
    BY Sizes DEF Bpbs
  <1>6. \A bpb \in Bpbs, signed \in BOOLEAN :
          Sector(signed, 0, bpb, NoFat, <<End>>, ZeroData) \in Sectors
    BY <1>1, <1>2, <1>4 DEF Sector, Sectors
  <1> HIDE DEF NoFat, NoBpb, ZeroData, End
  <1>7. MkfsBoot \in Sectors /\ MkfsInfo \in Sectors /\ ZeroSector \in Sectors
    BY <1>2, <1>5, <1>6 DEF MkfsBoot, MkfsInfo, ZeroSector
  <1> QED
    BY <1>1, <1>2, <1>7 DEF Formatted

\* A call that has just begun has nothing in its buffer.
FreshCall(o) ==
    /\ o \in CallRecords
    /\ o.out = <<>>

LEMMA CallFresh ==
    ASSUME NEW cmd \in CmdNames, NEW fn \in FnNames, NEW arg \in Arguments,
           NEW drive \in Nat, NEW cl \in Nat, NEW max \in Nat
    PROVE  FreshCall(Call(cmd, fn, arg, drive, cl, max))
  <1>1. <<>> \in Seq(EntryRecords \cup Nat) /\ <<>> \in Seq(DirSlots) /\ <<>> \in Seq(PathNames)
    OBVIOUS
  <1> QED
    BY <1>1, ConstantSectors DEF Call, CallRecords, FreshCall

LEMMA Words ==
    /\ "none" \in CmdNames /\ "boot" \in CmdNames /\ "prompt" \in CmdNames
    /\ "ls" \in CmdNames /\ "cat" \in CmdNames /\ "cd" \in CmdNames
    /\ "idle" \in FnNames /\ "mount" \in FnNames /\ "list" \in FnNames
    /\ "read" \in FnNames /\ "file" \in FnNames /\ "shown" \in FnNames
    /\ NoName \in Arguments /\ "self" \in Arguments /\ "parent" \in Arguments
    /\ Strings \subseteq Arguments
  BY DEF CmdNames, FnNames, Arguments, Strings

LEMMA FreshCallHolds ==
    ASSUME FreshCall(op')
    PROVE  /\ op' \in CallRecords
           /\ op'.fn # "file" => op'.out \in Seq(EntryRecords)
           /\ BuffersHold'
  BY DEF FreshCall, BuffersHold, CallRecords

\* The fields that the callers set afterwards.
LEMMA FreshExcept ==
    ASSUME NEW o, FreshCall(o), NEW n \in Nat, NEW m \in Nat, NEW path \in Seq(PathNames),
           NEW b \in BOOLEAN
    PROVE  /\ FreshCall([o EXCEPT !.path = path])
           /\ FreshCall([o EXCEPT !.cur = n, !.path = path])
           /\ FreshCall([o EXCEPT !.faulty = b])
           /\ FreshCall([o EXCEPT !.path = path, !.faulty = b])
           /\ FreshCall([o EXCEPT !.cur = n, !.parent = m, !.path = path, !.faulty = b])
           /\ FreshCall([o EXCEPT !.want = n, !.faulty = b, !.cur = m])
  BY DEF CallRecords, FreshCall

LEMMA PathStepFresh ==
    ASSUME NEW cur \in Nat, NEW path \in Seq(PathNames)
    PROVE  FreshCall(PathStep(cur, path))
  <1>0. 0 \in Nat /\ ReadMax \in Nat
    BY Sizes
  <1>1. FreshCall(Call("prompt", "shown", NoName, 0, cur, 0))
    BY <1>0, CallFresh, Words
  <1>2. FreshCall(Call("prompt", "read", "self", 0, cur, ReadMax))
    BY <1>0, CallFresh, Words
  <1> QED
    BY <1>1, <1>2, FreshExcept DEF PathStep

-----------------------------------------------------------------------------
(* What the driver reads. *)

LEMMA ReadableSector ==
    ASSUME DiskInv, NEW d, NEW lba, Readable(d, lba)
    PROVE  /\ disk[d][lba] \in Sectors
           /\ disk[d][lba].bpb \in Bpbs /\ disk[d][lba].part \in Nat
           /\ disk[d][lba].fat \in FatSectors
           /\ disk[d][lba].dir \in Seq(DirSlots) /\ disk[d][lba].data \in DataSectors
  <1>1. disk[d][lba] \in Sectors
    BY DEF DiskInv, Readable
  <1> QED
    BY <1>1 DEF Sectors

LEMMA NextTyped ==
    ASSUME DiskInv, Fat32Type, NEW d, NEW cl \in Nat, NEW next \in NextValues(d, cl)
    PROVE  next \in Nat
  <1> DEFINE sector == partition_lba + fat_start + cl \div FatEntries
  <1>1. cl % FatEntries \in 0 .. FatEntries - 1
    BY Sizes
  <1>2. fat_cache[cl % FatEntries] \in Nat
    BY <1>1 DEF Fat32Type, FatSectors
  <1>3. Readable(d, sector) => disk[d][sector].fat[cl % FatEntries] \in Nat
    BY <1>1, ReadableSector DEF FatSectors
  <1> QED
    BY <1>2, <1>3, Sizes DEF NextValues

LEMMA LeastNat ==
    ASSUME NEW T, T \subseteq Nat, T # {}
    PROVE  \E x \in T : \A y \in T : x <= y
  <1> DEFINE R == OpToRel(<, Nat)
  <1>1. PICK x \in T : \A y \in T : ~(<<y, x>> \in R)
    <2>1. IsWellFoundedOn(R, Nat)
      BY NatLessThanWellFounded
    <2> HIDE DEF R
    <2> QED
      BY <2>1, WFMin
  <1>2. \A y \in T : ~(y < x)
    BY <1>1 DEF OpToRel
  <1> QED
    BY <1>2

LEMMA FirstEntryTyped ==
    ASSUME op.out \in Seq(EntryRecords), NEW wanted
    PROVE  /\ FirstEntry(wanted) \in EntryRecords
           /\ FirstEntry(wanted).first \in Nat /\ FirstEntry(wanted).size \in Nat
           /\ FirstEntry(wanted).name[1] \in PathNames
  <1> DEFINE T == {i \in DOMAIN op.out : op.out[i] \in wanted}
  <1>1. NoEntry \in EntryRecords
    BY DEF NoEntry, EntryRecords, Names
  <1>2. \A i \in DOMAIN op.out : op.out[i] \in EntryRecords
    OBVIOUS
  <1>3. T # {} => Min(T) \in T
    <2>1. T \subseteq Nat
      OBVIOUS
    <2> HIDE DEF T
    <2> QED
      BY <2>1, LeastNat DEF Min
  <1>4. FirstEntry(wanted) \in EntryRecords
    <2>1. (\E i \in DOMAIN op.out : op.out[i] \in wanted) => op.out[Min(T)] \in EntryRecords
      BY <1>2, <1>3
    <2> QED
      BY <1>1, <2>1 DEF FirstEntry
  <1> QED
    BY <1>4 DEF EntryRecords, PathNames

-----------------------------------------------------------------------------
(* The inductive invariant. *)

LEMMA Fat32Init ==
    ASSUME Init
    PROVE  Fat32Inv
  <1>1. DiskInv
    <2>1. /\ Image = [d \in Drives |-> Image[d]]
          /\ \A d \in Drives : Image[d] \in [DOMAIN Image[d] -> Sectors]
      BY Fat32Assumption DEF Fat32Assumption
    <2> QED
      BY <2>1 DEF Init, DiskInv
  <1>2. FreshCall(op)
    <2>1. op = Call("boot", "mount", NoName, 0, 0, 0) /\ 0 \in Nat
      BY DEF Init, Mount
    <2> QED
      BY <2>1, CallFresh, Words
  <1>3. op \in CallRecords /\ op.out \in Seq(EntryRecords) /\ BuffersHold
    BY <1>2 DEF FreshCall, CallRecords, BuffersHold
  <1>4. Fat32Type
    BY <1>3, ConstantSectors, Sizes DEF Init, Fat32Type
  <1>5. CacheCoherent
    BY DEF Init, CacheCoherent
  <1> QED
    BY <1>1, <1>3, <1>4, <1>5 DEF Fat32Inv

\* The steps of the shell between two calls of the driver.
LEMMA FreshStep ==
    ASSUME Fat32Inv, UNCHANGED <<disk, geometry, cache>>, drive_num' \in Nat,
           current_dir_cluster' \in Nat, FreshCall(op')
    PROVE  Fat32Inv'
  <1>1. /\ op' \in CallRecords
        /\ op'.fn # "file" => op'.out \in Seq(EntryRecords)
        /\ BuffersHold'
    BY FreshCallHolds
  <1> QED
    BY <1>1 DEF Fat32Inv, Fat32Type, DiskInv, CacheCoherent, geometry, cache

\* The lookups in the FAT.
LEMMA LookupCoherent ==
    ASSUME Fat32Inv, NEW d, NEW cl \in Nat, NEW next, NEW failed,
           fat32_get_next_cluster(d, cl, next, failed), UNCHANGED disk
    PROVE  CacheCoherent' /\ cached_fat_sector' \in Nat /\ fat_cache' \in FatSectors
  <1> DEFINE sector == partition_lba + fat_start + cl \div FatEntries
  <1>0. sector \in Nat
    BY Sizes DEF Fat32Inv, Fat32Type, partition_lba
  <1>1. CASE UNCHANGED cache
    BY <1>1 DEF Fat32Inv, Fat32Type, CacheCoherent, cache
  <1>2. CASE /\ Readable(d, sector) /\ cached_fat_sector' = sector
             /\ fat_cache' = disk[d][sector].fat /\ cacheDrive' = d
    <2>1. fat_cache' \in FatSectors
      BY <1>2, ReadableSector DEF Fat32Inv
    <2> QED
      BY <1>0, <1>2, <2>1 DEF CacheCoherent
  <1> QED
    BY <1>1, <1>2 DEF fat32_get_next_cluster

\* A slot adds at most one entry, and only where there is room.
SlotHeld(o) ==
    /\ o \in CallRecords /\ o.fn = op.fn /\ o.slots = op.slots
    /\ o.out \in Seq(EntryRecords) /\ Len(o.out) <= o.max

LEMMA EntryTyped ==
    ASSUME NEW slot \in DirSlots, NEW name \in Names
    PROVE  Entry(slot, name) \in EntryRecords
  BY DEF Entry, DirSlots, EntryRecords

\* The signed comparison with 0xE5 recognises no deleted slot.
LEMMA NoneLooksDeleted ==
    ASSUME NEW slot
    PROVE  ~LooksDeleted(slot)
  BY DEF LooksDeleted, SignedChar

LEMMA SlotKept ==
    ASSUME SlotHeld(op), NEW slot \in DirSlots
    PROVE  SlotHeld(ListSlot(slot)) /\ SlotHeld(ReadSlot(slot))
  <1>1. /\ slot.kind \in {"end", "lfn", "label", "dir", "file"}
        /\ slot.name \in Strings /\ slot.ord \in Nat /\ ~LooksDeleted(slot)
    BY NoneLooksDeleted DEF DirSlots
  <1>2. /\ op \in CallRecords /\ op.parts \in PartArrays /\ op.present \in Nat
        /\ op.out \in Seq(EntryRecords) /\ Len(op.out) <= op.max /\ op.max \in Nat
    BY DEF SlotHeld, CallRecords
  <1>3. SlotHeld([op EXCEPT !.done = TRUE]) /\ SlotHeld([op EXCEPT !.present = 0])
    BY DEF SlotHeld, CallRecords
  <1>4. SlotHeld([op EXCEPT !.parts = PutPart(@, slot), !.present = LastPart(@, slot)])
    <2>1. PutPart(op.parts, slot) \in PartArrays
      BY <1>1, <1>2, ConstantSectors DEF PutPart, PartArrays
    <2>2. LastPart(op.present, slot) \in Nat
      BY <1>1, <1>2 DEF LastPart
    <2> QED
      BY <2>1, <2>2 DEF SlotHeld, CallRecords
  <1>5. ASSUME NEW name \in Names, Len(op.out) < op.max
        PROVE  /\ SlotHeld([op EXCEPT !.out = Append(@, Entry(slot, name)), !.present = 0])
               /\ SlotHeld([op EXCEPT !.out = Append(@, Entry(slot, name))])
    <2>1. Entry(slot, name) \in EntryRecords
      BY EntryTyped
    <2>2. /\ Append(op.out, Entry(slot, name)) \in Seq(EntryRecords)
          /\ Append(op.out, Entry(slot, name)) \in Seq(EntryRecords \cup Nat)
          /\ Len(Append(op.out, Entry(slot, name))) = Len(op.out) + 1
      BY <1>2, <2>1
    <2>3. Len(op.out) + 1 <= op.max
      BY <1>2, <1>5
    <2> QED
      BY <1>2, <2>2, <2>3 DEF SlotHeld, CallRecords
  <1>6. NameOf(slot) \in Names /\ <<slot.name>> \in Names
    BY <1>1, <1>2 DEF NameOf, Names
  <1>7. Len(op.out) >= op.max \/ Len(op.out) < op.max
    BY <1>2
  <1>8. SlotHeld(ListSlot(slot))
    <2>1. CASE slot.kind = "end"
      BY <1>3, <2>1 DEF ListSlot
    <2>2. CASE slot.kind = "lfn"
      BY <1>1, <1>4, <2>2 DEF ListSlot
    <2>3. CASE slot.kind = "label"
      BY <1>3, <2>3 DEF ListSlot
    <2>4. CASE slot.kind \in {"dir", "file"} /\ Len(op.out) >= op.max
      BY <1>1, <1>3, <2>4 DEF ListSlot
    <2>5. CASE slot.kind \in {"dir", "file"} /\ Len(op.out) < op.max
      <3>1. ListSlot(slot)
              = [op EXCEPT !.out = Append(@, Entry(slot, NameOf(slot))), !.present = 0]
        BY <1>1, <1>2, <2>5 DEF ListSlot
      <3> QED
        BY <1>5, <1>6, <2>5, <3>1
    <2> QED
      BY <1>1, <1>7, <2>1, <2>2, <2>3, <2>4, <2>5
  <1>9. SlotHeld(ReadSlot(slot))
    <2>1. CASE slot.kind = "end"
      BY <1>3, <2>1 DEF ReadSlot
    <2>2. CASE slot.kind = "lfn"
      BY <2>2 DEF ReadSlot
    <2>4. CASE slot.kind \in {"dir", "file", "label"} /\ Len(op.out) >= op.max
      BY <1>1, <1>3, <2>4 DEF ReadSlot
    <2>5. CASE slot.kind \in {"dir", "file", "label"} /\ Len(op.out) < op.max
      <3>1. ReadSlot(slot) = [op EXCEPT !.out = Append(@, Entry(slot, <<slot.name>>))]
        BY <1>1, <1>2, <2>5 DEF ReadSlot
      <3> QED
        BY <1>5, <1>6, <2>5, <3>1
    <2> QED
      BY <1>1, <1>7, <2>1, <2>2, <2>4, <2>5
  <1> QED  BY <1>8, <1>9

-----------------------------------------------------------------------------
(* The steps within a call of the driver. *)

\* The buffer of the call under way holds what it has.
OpHeld(o) ==
    /\ o \in CallRecords
    /\ o.fn # "file" => o.out \in Seq(EntryRecords)
    /\ o.fn \in {"list", "read"} => Len(o.out) <= o.max
    /\ o.fn = "file" => Len(o.out) <= o.want

LEMMA SectorSet ==
    ASSUME OpHeld(op), NEW slots \in Seq(DirSlots)
    PROVE  OpHeld([op EXCEPT !.slots = slots, !.s = @ + 1])
  <1> DEFINE n == op.s + 1
  <1>1. n \in Nat
    BY DEF OpHeld, CallRecords
  <1>2. OpHeld([op EXCEPT !.slots = slots, !.s = n])
    <2> HIDE DEF n
    <2> QED
      BY <1>1 DEF OpHeld, CallRecords
  <1> QED  BY <1>2

LEMMA DataSet ==
    ASSUME OpHeld(op), op.fn = "file", NEW buf \in DataSectors, NEW failed \in BOOLEAN,
           NEW out \in Seq(EntryRecords \cup Nat), Len(out) <= op.want
    PROVE  OpHeld([op EXCEPT !.sector = buf, !.s = @ + 1, !.out = out,
                             !.faulty = @ \/ failed])
  <1> DEFINE n == op.s + 1
             f == op.faulty \/ failed
  <1>1. n \in Nat /\ f \in BOOLEAN
    BY DEF OpHeld, CallRecords
  <1>2. OpHeld([op EXCEPT !.sector = buf, !.s = n, !.out = out, !.faulty = f])
    <2> HIDE DEF n, f
    <2> QED
      BY <1>1 DEF OpHeld, CallRecords
  <1> QED  BY <1>2

LEMMA DriverStep ==
    ASSUME Fat32Inv, UNCHANGED <<disk, geometry, current_dir_cluster, drive_num>>,
           OpHeld(op'),
           CacheCoherent', cached_fat_sector' \in Nat, fat_cache' \in FatSectors
    PROVE  Fat32Inv'
  BY DEF Fat32Inv, Fat32Type, DiskInv, BuffersHold, geometry, OpHeld

LEMMA CacheKept ==
    ASSUME Fat32Inv, UNCHANGED <<disk, cache>>
    PROVE  CacheCoherent' /\ cached_fat_sector' \in Nat /\ fat_cache' \in FatSectors
  BY DEF Fat32Inv, Fat32Type, CacheCoherent, cache

LEMMA ScanSectorStep ==
    ASSUME Fat32Inv, ScanSector
    PROVE  Fat32Inv'
  <1> DEFINE lba == fat32_cluster_to_lba(op.cl) + op.s
  <1>1. OpHeld(op) /\ DiskInv
    BY DEF Fat32Inv, Fat32Type, OpHeld, BuffersHold
  <1>2. CASE /\ Readable(op.drive, lba)
             /\ op' = [op EXCEPT !.slots = disk[op.drive][lba].dir, !.s = @ + 1]
    <2>1. disk[op.drive][lba].dir \in Seq(DirSlots)
      BY <1>1, <1>2, ReadableSector
    <2>2. OpHeld(op')
      BY <1>1, <1>2, <2>1, SectorSet
    <2> QED
      BY <2>2, DriverStep, CacheKept DEF ScanSector
  <1>3. CASE op' = [op EXCEPT !.done = TRUE, !.error = TRUE,
                              !.faulty = @ \/ Readable(op.drive, lba)]
    <2> DEFINE r == Readable(op.drive, lba)
    <2>1. r \in BOOLEAN
      BY DEF Readable
    <2> HIDE DEF r
    <2>2. OpHeld([op EXCEPT !.done = TRUE, !.error = TRUE,
                            !.faulty = @ \/ r])
      BY <1>1, <2>1 DEF OpHeld, CallRecords
    <2> QED
      BY <1>3, <2>2, DriverStep, CacheKept DEF ScanSector, r
  <1> QED
    BY <1>2, <1>3 DEF ScanSector

LEMMA ScanSlotStep ==
    ASSUME Fat32Inv, ScanSlot
    PROVE  Fat32Inv'
  <1> DEFINE slot == Head(op.slots)
             o == IF op.fn = "list" THEN ListSlot(slot) ELSE ReadSlot(slot)
  <1>1. SlotHeld(op) /\ op.fn \in {"list", "read"} /\ op.slots \in Seq(DirSlots)
        /\ op.slots # <<>>
    BY DEF Fat32Inv, Fat32Type, SlotHeld, BuffersHold, ScanSlot, Scanning, CallRecords
  <1>2. slot \in DirSlots /\ Tail(op.slots) \in Seq(DirSlots)
    BY <1>1
  <1>3. SlotHeld(o)
    BY <1>2, <1>1, SlotKept
  <1>4. op' = [o EXCEPT !.slots = Tail(@)]
    BY DEF ScanSlot
  <1>5. OpHeld(op')
    <2> HIDE DEF o, slot
    <2> QED
      BY <1>1, <1>2, <1>3, <1>4 DEF SlotHeld, OpHeld, CallRecords
  <1> QED
    BY <1>5, DriverStep, CacheKept DEF ScanSlot

LEMMA LookupStep ==
    ASSUME Fat32Inv, ScanNext \/ FileNext
    PROVE  Fat32Inv'
  <1>1. OpHeld(op) /\ DiskInv /\ Fat32Type /\ op.cl \in Nat
    BY DEF Fat32Inv, Fat32Type, OpHeld, BuffersHold, CallRecords
  <1>2. PICK next \in NextValues(op.drive, op.cl), failed \in BOOLEAN :
          /\ fat32_get_next_cluster(op.drive, op.cl, next, failed)
          /\ op' = [op EXCEPT !.cl = next, !.s = 0, !.faulty = @ \/ failed]
    BY DEF ScanNext, FileNext
  <1>3. next \in Nat
    BY <1>1, NextTyped
  <1>4. OpHeld(op')
    BY <1>1, <1>2, <1>3 DEF OpHeld, CallRecords
  <1>5. UNCHANGED <<disk, geometry, current_dir_cluster, drive_num>>
    BY DEF ScanNext, FileNext
  <1>6. CacheCoherent' /\ cached_fat_sector' \in Nat /\ fat_cache' \in FatSectors
    BY <1>1, <1>2, <1>5, LookupCoherent
  <1> QED
    BY <1>4, <1>5, <1>6, DriverStep

\* A sector is copied into what is left of the file's buffer.
LEMMA FileSectorStep ==
    ASSUME Fat32Inv, FileSector
    PROVE  Fat32Inv'
  <1> DEFINE lba == fat32_cluster_to_lba(op.cl) + op.s
  <1>1. /\ OpHeld(op) /\ DiskInv /\ op.fn = "file" /\ op.want \in Nat
        /\ op.out \in Seq(EntryRecords \cup Nat) /\ Len(op.out) < op.want
        /\ op.sector \in DataSectors
    BY DEF Fat32Inv, Fat32Type, OpHeld, BuffersHold, CallRecords, FileSector, FileReading
  <1>2. PICK failed \in BOOLEAN :
          /\ failed \/ Readable(op.drive, lba)
          /\ LET buf == IF failed THEN op.sector ELSE disk[op.drive][lba].data
             IN  op' = [op EXCEPT !.sector = buf, !.s = @ + 1,
                                  !.out = @ \o SubSeq(buf, 1, CopyLen),
                                  !.faulty = @ \/ failed]
    BY DEF FileSector
  <1> DEFINE buf == IF failed THEN op.sector ELSE disk[op.drive][lba].data
  <1>3. buf \in DataSectors
    BY <1>1, <1>2, ReadableSector
  <1>4. op' = [op EXCEPT !.sector = buf, !.s = @ + 1,
                         !.out = @ \o SubSeq(buf, 1, CopyLen), !.faulty = @ \/ failed]
    BY <1>2
  <1> HIDE DEF buf, lba
  <1>5. CopyLen \in 0 .. DataUnits /\ Len(op.out) + CopyLen <= op.want
    BY <1>1, Sizes DEF CopyLen
  <1>6. buf \in Seq(Nat) /\ Len(buf) = DataUnits
    BY <1>3, Sizes DEF DataSectors
  <1>7. SubSeq(buf, 1, CopyLen) \in Seq(Nat) /\ Len(SubSeq(buf, 1, CopyLen)) = CopyLen
    BY <1>5, <1>6, Sizes
  <1> DEFINE S == EntryRecords \cup Nat
             piece == SubSeq(buf, 1, CopyLen)
             copied == op.out \o piece
  <1>8. copied \in Seq(S) /\ Len(copied) <= op.want
    <2>1. piece \in Seq(S)
      <3>1. Nat \subseteq S
        OBVIOUS
      <3> HIDE DEF S, piece
      <3> QED
        BY <1>7, <3>1, SeqMonotonic DEF piece
    <2>2. op.out \in Seq(S) /\ Len(piece) = CopyLen
      BY <1>1, <1>7
    <2>3. copied \in Seq(S) /\ Len(copied) = Len(op.out) + Len(piece)
      <3> HIDE DEF S, piece
      <3> QED
        BY <2>1, <2>2, ConcatProperties
    <2> HIDE DEF S, piece, copied
    <2> QED
      BY <1>5, <2>2, <2>3
  <1>9. OpHeld(op')
    <2>1. op' = [op EXCEPT !.sector = buf, !.s = @ + 1, !.out = copied, !.faulty = @ \/ failed]
      BY <1>4
    <2>2. copied \in Seq(EntryRecords \cup Nat)
      BY <1>8
    <2> HIDE DEF copied
    <2> QED
      BY <1>1, <1>3, <1>8, <2>1, <2>2, DataSet
  <1> QED
    BY <1>9, DriverStep, CacheKept DEF FileSector

-----------------------------------------------------------------------------
(* The other steps. *)

LEMMA AfterMountFresh == FreshCall(AfterMount)
  <1>1. 0 \in Nat /\ 1 \in Nat
    OBVIOUS
  <1>2. FreshCall(Call("boot", "mount", NoName, 1, 0, 0))
    BY <1>1, CallFresh, Words
  <1>3. FreshCall(Call("none", "idle", NoName, 0, 0, 0))
    BY <1>1, CallFresh, Words
  <1> QED
    BY <1>2, <1>3 DEF AfterMount, Mount, Idle

LEMMA MountStep ==
    ASSUME Fat32Inv, MountFails \/ MountOk
    PROVE  Fat32Inv'
  <1> DEFINE d == op.drive
             part == disk[d][0].part
             bpb == disk[d][part].bpb
  <1>0. DiskInv /\ Fat32Type
    BY DEF Fat32Inv
  <1>1. FreshCall(op') /\ UNCHANGED <<disk, drive_num>>
    BY AfterMountFresh DEF MountFails, MountOk
  <1>2. /\ op' \in CallRecords
        /\ op'.fn # "file" => op'.out \in Seq(EntryRecords)
        /\ BuffersHold'
    BY <1>1, FreshCallHolds
  <1>3. DiskInv'
    BY <1>0, <1>1 DEF DiskInv
  <1>4. MountCode(d) \in {0, 7} => bpb \in Bpbs /\ part \in Nat
    <2> SUFFICES ASSUME MountCode(d) \in {0, 7} PROVE bpb \in Bpbs /\ part \in Nat
      OBVIOUS
    <2>1. Readable(d, 0) /\ Readable(d, part)
      BY DEF MountCode
    <2> HIDE DEF d
    <2> QED
      BY <1>0, <2>1, ReadableSector
  <1>5. CASE MountFails
    <2>1. fat32_bpb' \in Bpbs
      BY <1>0, <1>4, <1>5 DEF MountFails, Fat32Type
    <2>2. CacheCoherent' /\ cached_fat_sector' \in Nat /\ fat_cache' \in FatSectors
      BY <1>1, <1>5, CacheKept DEF MountFails
    <2>3. UNCHANGED <<fat_start, cluster_begin_lba, root_dir_first_cluster,
                      current_dir_cluster, drive_num>>
      BY <1>5 DEF MountFails
    <2> QED
      BY <1>0, <1>2, <1>3, <2>1, <2>2, <2>3 DEF Fat32Inv, Fat32Type
  <1>6. CASE MountOk
    <2>1. bpb \in Bpbs /\ part \in Nat /\ Adopt(part, bpb)
      BY <1>4, <1>6 DEF MountOk
    <2> HIDE DEF bpb, part
    <2>2. bpb.reserved \in Nat /\ bpb.tables \in Nat /\ bpb.spf \in Nat /\ bpb.root \in Nat
      BY <2>1 DEF Bpbs
    <2>3. bpb.tables * bpb.spf \in Nat
      BY <2>2
    <2>4. part + bpb.reserved + bpb.tables * bpb.spf \in Nat
      BY <2>1, <2>2, <2>3
    <2>5. /\ fat32_bpb' \in Bpbs /\ fat_start' \in Nat /\ cluster_begin_lba' \in Nat
          /\ root_dir_first_cluster' \in Nat /\ current_dir_cluster' \in Nat
          /\ cached_fat_sector' = NO_SECTOR /\ fat_cache' = fat_cache
      BY <2>1, <2>2, <2>4 DEF Adopt
    <2>6. CacheCoherent'
      BY <2>5 DEF CacheCoherent
    <2> QED
      BY <1>0, <1>1, <1>2, <1>3, <2>5, <2>6, Sizes DEF Fat32Inv, Fat32Type
  <1> QED  BY <1>5, <1>6

\* What mkfs.fat32 has changed once it never changes back.
LEMMA FormatStep ==
    ASSUME Fat32Inv, Mkfs \/ MkfsFails
    PROVE  Fat32Inv'
  <1>0. DiskInv /\ Fat32Type /\ CacheCoherent
    BY DEF Fat32Inv
  <1>1. FreshCall(op') /\ UNCHANGED <<geometry, current_dir_cluster, cache, drive_num>>
    <2>1. op' = PathStep(current_dir_cluster, <<>>) /\ <<>> \in Seq(PathNames)
      BY DEF Mkfs, MkfsFails, AfterCommand
    <2> QED
      BY <1>0, <2>1, PathStepFresh DEF Mkfs, MkfsFails, Fat32Type
  <1>2. /\ op' \in CallRecords
        /\ op'.fn # "file" => op'.out \in Seq(EntryRecords)
        /\ BuffersHold'
    BY <1>1, FreshCallHolds
  \* Every sector keeps what it has or gets what mkfs.fat32 writes there.
  <1> DEFINE Rewritten ==
               /\ disk' = [d \in Drives |-> disk'[d]]
               /\ \A d \in Drives :
                    /\ disk'[d] = [lba \in DOMAIN Image[d] |-> disk'[d][lba]]
                    /\ \A lba \in DOMAIN Image[d] :
                          disk'[d][lba] \in {disk[d][lba], Formatted(lba)}
  <1>3. Rewritten
    <2>0. disk = [d \in Drives |-> disk[d]]
          /\ \A d \in Drives : disk[d] \in [DOMAIN Image[d] -> Sectors]
      BY <1>0 DEF DiskInv
    <2>1. CASE UNCHANGED disk
      BY <2>0, <2>1
    <2>2. CASE drive_num \in Drives /\ disk' = [disk EXCEPT ![drive_num][0] = MkfsBoot]
      <3>1. Formatted(0) = MkfsBoot
        BY DEF Formatted
      <3> HIDE DEF MkfsBoot
      <3> QED
        BY <2>0, <2>2, <3>1
    <2>3. ASSUME drive_num \in Drives, NEW cleared,
                 disk' = [disk EXCEPT ![drive_num] =
                            [lba \in DOMAIN @ |-> IF lba = 0 THEN MkfsBoot
                                                  ELSE IF lba = 1 THEN MkfsInfo
                                                  ELSE IF lba \in cleared THEN ZeroSector
                                                  ELSE @[lba]]]
          PROVE  Rewritten
      <3>1. disk'[drive_num] = [lba \in DOMAIN Image[drive_num] |->
                                  IF lba = 0 THEN MkfsBoot
                                  ELSE IF lba = 1 THEN MkfsInfo
                                  ELSE IF lba \in cleared THEN ZeroSector
                                  ELSE disk[drive_num][lba]]
        BY <2>0, <2>3
      <3>2. \A d \in Drives : d # drive_num => disk'[d] = disk[d]
        BY <2>0, <2>3
      <3>3. disk' = [d \in Drives |-> disk'[d]]
        BY <2>0, <2>3
      <3> HIDE DEF MkfsBoot, MkfsInfo, ZeroSector
      <3>4. \A lba \in DOMAIN Image[drive_num] :
              disk'[drive_num][lba] \in {disk[drive_num][lba], Formatted(lba)}
        BY <3>1 DEF Formatted
      <3> QED
        BY <2>0, <3>1, <3>2, <3>3, <3>4
    <2> QED
      BY <2>1, <2>2, <2>3 DEF Mkfs, MkfsFails
  <1>4. DiskInv'
    BY <1>0, <1>3, ConstantSectors DEF DiskInv
  <1>5. ASSUME disk' = Image PROVE disk = Image
    <2>1. /\ Image = [d \in Drives |-> Image[d]]
          /\ \A d \in Drives : Image[d] \in [DOMAIN Image[d] -> Sectors]
      BY Fat32Assumption DEF Fat32Assumption
    <2>2. \A d \in Drives : \A lba \in DOMAIN Image[d] : disk[d][lba] = Image[d][lba]
      BY <1>0, <1>3, <1>5 DEF DiskInv
    <2>3. \A d \in Drives : disk[d] = Image[d]
      BY <1>0, <2>1, <2>2 DEF DiskInv
    <2> QED
      BY <1>0, <2>1, <2>3 DEF DiskInv
  <1>6. CacheCoherent'
    BY <1>0, <1>1, <1>5 DEF CacheCoherent, cache
  <1> QED
    BY <1>0, <1>1, <1>2, <1>4, <1>6 DEF Fat32Inv, Fat32Type, geometry, cache

LEMMA ShellStep ==
    ASSUME Fat32Inv,
           \/ PathSelf \/ PathParent \/ PathNoMemory \/ PathShown
           \/ (\E n \in DriveNums : DiskCommand(n)) \/ Ls \/ LsDone
           \/ (\E f \in Files : Cat(f)) \/ CatNothing \/ CatOpen \/ CatDone
           \/ (\E p \in Paths : CdDirect(p) \/ CdList(p)) \/ CdFails \/ CdDone
    PROVE  Fat32Inv'
  <1>0. /\ Fat32Type /\ op \in CallRecords /\ 0 \in Nat /\ 2 \in Nat
        /\ root_dir_first_cluster \in Nat /\ current_dir_cluster \in Nat /\ drive_num \in Nat
        /\ op.cur \in Nat /\ op.parent \in Nat /\ op.path \in Seq(PathNames)
        /\ op.faulty \in BOOLEAN /\ op.drive \in Nat /\ op.arg \in Arguments
        /\ <<>> \in Seq(PathNames) /\ ReadMax \in Nat /\ ListMax \in Nat
    BY Sizes DEF Fat32Inv, Fat32Type, CallRecords
  <1>1. Scanned => op.out \in Seq(EntryRecords)
    BY <1>0 DEF Scanned, Fat32Type
  <1>2. ASSUME NEW cwd \in Nat, AfterCommand(cwd)  PROVE FreshCall(op')
    BY <1>0, <1>2, PathStepFresh DEF AfterCommand
  <1>3. /\ DriveNums \subseteq Nat
        /\ \A x \in Files \cup Paths : x \in Arguments
    <2>1. DriveNums \subseteq Nat /\ Files \subseteq STRING /\ Paths \subseteq STRING
      BY Fat32Assumption DEF Fat32Assumption
    <2> QED
      BY <2>1 DEF Arguments, Strings
  <1>4. CASE PathSelf
    <2> DEFINE up == Parent(FirstEntry({e \in Entries : e.name = <<"..">>}))
               new == Call("prompt", "read", "parent", 0, up, ReadMax)
    <2>1. up \in Nat
      BY <1>0, <1>1, <1>4, FirstEntryTyped DEF PathSelf, Parent
    <2>2. op' = [new EXCEPT !.cur = op.cur, !.parent = up, !.path = op.path,
                            !.faulty = op.faulty]
      BY <1>4 DEF PathSelf
    <2> HIDE DEF up
    <2>3. FreshCall(new)
      BY <1>0, <2>1, CallFresh, Words
    <2> HIDE DEF new
    <2>4. FreshCall(op')
      BY <1>0, <2>1, <2>2, <2>3, FreshExcept
    <2> QED
      BY <1>0, <1>4, <2>4, FreshStep DEF PathSelf
  <1>5. CASE PathParent
    <2> DEFINE e == FirstEntry({x \in Entries : x.kind = "dir" /\ x.first = op.cur})
               n == IF e = NoEntry THEN NoName ELSE e.name[1]
               new == PathStep(op.parent, Append(op.path, n))
    <2>1. e.name[1] \in PathNames
      BY <1>1, <1>5, FirstEntryTyped DEF PathParent
    <2>2. op' = [new EXCEPT !.faulty = op.faulty]
      BY <1>5 DEF PathParent
    <2>3. n \in PathNames
      BY <2>1 DEF PathNames, Strings
    <2> HIDE DEF n, e
    <2>4. Append(op.path, n) \in Seq(PathNames)
      BY <1>0, <2>3
    <2>5. FreshCall(new)
      BY <1>0, <2>4, PathStepFresh
    <2> HIDE DEF new
    <2>6. FreshCall(op')
      BY <1>0, <2>2, <2>5, FreshExcept
    <2> QED
      BY <1>0, <1>5, <2>6, FreshStep DEF PathParent
  <1>6. CASE PathNoMemory
    <2> DEFINE new == Call("prompt", "shown", NoName, 0, op.cur, 0)
    <2>1. FreshCall(new)
      BY <1>0, CallFresh, Words
    <2>2. op' = [new EXCEPT !.path = op.path, !.faulty = TRUE]
      BY <1>6 DEF PathNoMemory
    <2> HIDE DEF new
    <2>3. FreshCall(op')
      BY <1>0, <2>1, <2>2, FreshExcept
    <2> QED
      BY <1>0, <1>6, <2>3, FreshStep DEF PathNoMemory
  <1>7. CASE PathShown
    <2>1. FreshCall(op')
      BY <1>0, <1>7, CallFresh, Words DEF PathShown, Idle
    <2> QED
      BY <1>0, <1>7, <2>1, FreshStep DEF PathShown
  <1>8. CASE \E n \in DriveNums : DiskCommand(n)
    BY <1>0, <1>2, <1>3, <1>8, FreshStep DEF DiskCommand
  <1>9. CASE Ls
    <2>1. FreshCall(op')
      BY <1>0, <1>9, CallFresh, Words DEF Ls
    <2> QED
      BY <1>0, <1>9, <2>1, FreshStep DEF Ls
  <1>10. CASE LsDone \/ CatNothing \/ CatDone \/ CdFails
    BY <1>0, <1>2, <1>10, FreshStep DEF LsDone, CatNothing, CatDone, CdFails
  <1>11. ASSUME NEW f \in Files, Cat(f)  PROVE Fat32Inv'
    <2>1. FreshCall(op')
      BY <1>0, <1>3, <1>11, CallFresh, Words DEF Cat
    <2> QED
      BY <1>0, <1>11, <2>1, FreshStep DEF Cat
  <1>12. CASE CatOpen
    <2> DEFINE new == Call("cat", "file", op.arg, op.drive, Wanted.first, 0)
    <2>1. Wanted.first \in Nat /\ Wanted.size \in Nat
      BY <1>1, <1>12, FirstEntryTyped DEF CatOpen, Wanted
    <2>2. FreshCall(new)
      BY <1>0, <2>1, CallFresh, Words
    <2>3. op' = [new EXCEPT !.want = Wanted.size, !.faulty = op.faulty, !.cur = Wanted.first]
      BY <1>12 DEF CatOpen
    <2> HIDE DEF new
    <2>4. FreshCall(op')
      BY <1>0, <2>1, <2>2, <2>3, FreshExcept
    <2> QED
      BY <1>0, <1>12, <2>4, FreshStep DEF CatOpen
  <1>13. ASSUME NEW p \in Paths, CdDirect(p)  PROVE Fat32Inv'
    <2>1. current_dir_cluster' \in Nat
      BY <1>0, <1>13 DEF CdDirect
    <2>2. FreshCall(op')
      BY <1>2, <1>13, <2>1 DEF CdDirect
    <2> QED
      BY <1>0, <1>13, <2>1, <2>2, FreshStep DEF CdDirect
  <1>14. ASSUME NEW p \in Paths, CdList(p)  PROVE Fat32Inv'
    <2>1. (IF p = ".." THEN 2 ELSE ListMax) \in Nat
      BY <1>0
    <2>2. FreshCall(op')
      BY <1>0, <1>3, <1>14, <2>1, CallFresh, Words DEF CdList
    <2> QED
      BY <1>0, <1>14, <2>2, FreshStep DEF CdList
  <1>15. CASE CdDone
    <2>1. Target \in Nat
      <3>1. op.out \in Seq(EntryRecords)
        BY <1>1, <1>15 DEF CdDone
      <3>2. CASE op.arg = ".."
        <4>1. Len(op.out) >= 2 => op.out[2].first \in Nat
          <5>1. Len(op.out) >= 2 => op.out[2] \in EntryRecords
            BY <3>1
          <5> QED
            BY <5>1 DEF EntryRecords
        <4>2. Len(op.out) < 2 \/ Len(op.out) >= 2
          BY <3>1
        <4>3. Len(op.out) >= 2 => Parent(op.out[2]) \in Nat
          BY <1>0, <4>1 DEF Parent
        <4> QED
          BY <1>0, <3>2, <4>2, <4>3 DEF Target, Named
      <3>3. CASE op.arg # ".."
        BY <3>1, <3>3, FirstEntryTyped DEF Target, Named
      <3> QED  BY <3>2, <3>3
    <2>2. FreshCall(op')
      BY <1>2, <1>15, <2>1 DEF CdDone
    <2> QED
      BY <1>0, <1>15, <2>1, <2>2, FreshStep DEF CdDone
  <1> QED
    BY <1>4, <1>5, <1>6, <1>7, <1>8, <1>9, <1>10, <1>11, <1>12, <1>13, <1>14, <1>15

\* The types, the contents of the disks and the two properties below hold
\* throughout.
THEOREM Fat32Always == Spec => []Fat32Inv
  <1>1. Init => Fat32Inv
    BY Fat32Init
  <1>2. Fat32Inv /\ [Next]_vars => Fat32Inv'
    <2> SUFFICES ASSUME Fat32Inv, [Next]_vars PROVE Fat32Inv'
      OBVIOUS
    <2>1. CASE UNCHANGED vars
      BY <2>1 DEF vars, geometry, cache, Fat32Inv, Fat32Type, DiskInv, BuffersHold,
                  CacheCoherent
    <2> QED
      BY <2>1, MountStep, FormatStep, ShellStep, ScanSectorStep, ScanSlotStep, LookupStep,
         FileSectorStep DEF Next, Command, Work
  <1> QED
    BY <1>1, <1>2, PTL DEF Spec

\* Whatever a disk holds and whichever reads fail, fat32_list_dir and
\* fat32_read_dir never write past the array they were given, nor
\* fat32_read_file past the buffer.
THEOREM NoBufferOverrun == Spec => []BuffersHold
  <1>1. Fat32Inv => BuffersHold
    BY DEF Fat32Inv
  <1> QED
    BY <1>1, Fat32Always, PTL

\* The cached FAT sector is what the drive it was read from holds, after any
\* failed reads, mounts and switches between drives.
THEOREM FatCacheCoherent == Spec => []CacheCoherent
  <1>1. Fat32Inv => CacheCoherent
    BY DEF Fat32Inv
  <1> QED
    BY <1>1, Fat32Always, PTL

=============================================================================
