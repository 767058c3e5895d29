------------------------------- MODULE MCAta -------------------------------
(* Small disks for Ata.                                                    *)
EXTENDS Ata

Attach(a, b, c, d) == [s \in Slots |-> CASE s = 0 -> a [] s = 1 -> b [] s = 2 -> c [] s = 3 -> d]

\* A disk and a CD drive, two disks, disks on both channels, none.
MCKinds == {Attach("ata", "none", "atapi", "none"), Attach("ata", "ata", "none", "none"),
            Attach("none", "ata", "ata", "none"), Attach("none", "none", "none", "none")}

MCImage == [s \in Slots |-> [a \in Addresses |-> 10 * s + a]]
MCCalls == {[fn |-> f[1], drive |-> f[2], lba |-> f[3], data |-> 99] :
              f \in {<<"read", 0, 6>>, <<"write", 0, 6>>, <<"read", 1, 1>>, <<"read", 4, 1>>}}
MCData == {x : x \in 0 .. 33} \cup {99}

=============================================================================
