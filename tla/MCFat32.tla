------------------------------ MODULE MCFat32 ------------------------------
(* A small disk for Fat32.  Cluster 6 once was a directory `old' in docs,  *)
(* and docs itself was called differently: "?" stands for the byte 0xE5.   *)
EXTENDS Fat32

Dir(n, cl)     == Slot("dir", n, cl, 0, 0, FALSE)
File(n, cl, s) == Slot("file", n, cl, s, 0, FALSE)
Lfn(o, f, n)   == Slot("lfn", n, 0, 0, o, f)
Label          == Slot("label", "VOL", 0, 0, 0, FALSE)

DirSector(slots) == Sector(FALSE, 0, NoBpb, NoFat, slots, ZeroData)

\* Text, and what it looks like as a directory.
Text(a, b) == Sector(FALSE, 0, NoBpb, [i \in 0 .. FatEntries - 1 |-> 5],
                     <<File("junk", 90, 3), Slot("dir", "junk", 90, 3, 0, FALSE)>>,
                     <<a, b>>)
FatSector(w) == Sector(FALSE, 0, NoBpb, [i \in 0 .. FatEntries - 1 |-> w[i + 1]],
                       <<Lfn(1, FALSE, "fat")>>, ZeroData)

BootRecord == [spc |-> 1, reserved |-> 1, tables |-> 2, spf |-> 5, root |-> 2]
EOF == EOC + 7

\* LBA 0: partition table.  1: a boot loader.  4: boot record.  5-9, 10-14: the FATs.  From 15:
\* clusters 2 (root), 3 (docs), 4 (small), 5 and 6 (big), 7 (sub, full), 8 (deep).
MCDisk ==
    [lba \in 0 .. 21 |->
       CASE lba = 0 -> Sector(TRUE, 4, NoBpb, NoFat, <<End>>, ZeroData)
         [] lba = 1 -> Sector(FALSE, 0, NoBpb, [i \in 0 .. FatEntries - 1 |-> 5],
                              <<Lfn(3, FALSE, "code")>>, <<31, 32>>)
         [] lba = 4 -> Sector(TRUE, 0, BootRecord, NoFat, <<End>>, ZeroData)
         [] lba \in {5, 10} -> FatSector(<<EOF, EOF, EOF, EOF>>)
         [] lba \in {6, 11} -> FatSector(<<EOF, 6, EOF, EOF>>)
         [] lba \in {7, 12} -> FatSector(<<EOF, 0, 0, 0>>)
         [] lba = 15 -> DirSector(<<Label, Erased(Dir("?OX", 3)), Dir("docs", 3),
                                    File("small", 4, 1), Lfn(2, TRUE, "name"),
                                    Lfn(1, FALSE, "a long "), File("big", 5, 3), End>>)
         [] lba = 16 -> DirSector(<<Dir(".", 3), Dir("..", 0), Erased(Lfn(2, TRUE, "er")),
                                    Erased(Lfn(1, FALSE, "old")), Erased(Dir("?LD", 6)),
                                    Dir("SUB", 7), Lfn(1, TRUE, "note"),
                                    File("NOTE", 0, 0), End>>)
         [] lba = 17 -> Text(11, 0)
         [] lba = 18 -> Text(21, 22)
         [] lba = 19 -> Text(23, 0)
         [] lba = 20 -> DirSector(<<Dir(".", 7), Dir("..", 3), File("small", 4, 1),
                                    Dir("deep", 8)>>)
         [] lba = 21 -> DirSector(<<Dir(".", 8), Dir("..", 7), Lfn(0, FALSE, "stray"), End>>)
         [] OTHER -> ZeroSector]

MCImage == [d \in {0} |-> MCDisk]

ASSUME VolumeAssumption ==
    DirTree({2, 3, 7, 8}) /\ ReadableDirs({2, 3, 7, 8}) /\ FilesSound({2, 3, 7, 8}, {0, 5})

=============================================================================
