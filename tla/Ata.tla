--------------------------------- MODULE Ata ---------------------------------
(***************************************************************************)
(* The ATA driver (src/drivers/storage/ata.c): ata_init at boot, then one  *)
(* ata_read_sector or ata_write_sector after the other.  The driver's      *)
(* steps, which are writes to the command registers and polls of the       *)
(* status register, interleave with those of the disks.  A poll loop is    *)
(* bounded in the code by a count of a million: here it may give up        *)
(* whenever its condition does not hold.                                   *)
(*                                                                         *)
(* The disks are external.  Two units share a channel's registers; writes  *)
(* to them are lost while the selected unit is busy.  A unit that waits    *)
(* for its data to be moved either drops its command for a new one or      *)
(* ignores the registers until it is served (`stubborn').  The status of   *)
(* an empty channel is all ones or all zeros (`floats').                   *)
(***************************************************************************)
EXTENDS Integers

CONSTANTS
    Kinds,      \* what may be attached: functions from Slots
    LoSize,     \* sectors the sector and cylinder registers tell apart (2^24)
    HiSize,     \* values of the low bits of the drive register (2^4)
    Image,      \* the contents of the disks at boot
    Data,       \* the contents of a sector
    Junk,       \* read from a data register that has no data
    None,
    Error,      \* the result -1
    Calls       \* the calls made: function, drive number, sector, data to write

Slots == 0 .. 3             \* two units on the primary, two on the secondary channel
Channels == {0, 1}
Addresses == 0 .. LoSize * HiSize - 1

ASSUME AtaAssumption ==
    /\ LoSize \in Nat \ {0} /\ HiSize \in Nat \ {0}
    /\ Kinds \subseteq [Slots -> {"none", "ata", "atapi"}]
    /\ Image \in [Slots -> [Addresses -> Data]]
    /\ Calls \subseteq [fn : {"read", "write"}, drive : Nat, lba : Nat, data : Data]
    /\ None \notin [fn : {"read", "write"}, slot : Slots, address : Addresses, data : Data]
    /\ Junk \notin Data /\ None \notin Data \cup {Error, Junk} /\ Error \notin Data \cup {Junk}

VARIABLES
    kind, floats, stubborn,     \* what is attached; fixed
    reg,        \* per channel: the unit and address registers
    dev,        \* per channel: the command under way
    store,      \* the sectors of the disks
    drives,     \* the array of ata.c: present, and whose identity is recorded
    call,       \* the call under way, or the last one
    at,         \* where it is
    ret,        \* what it returned: Error, or the contents moved
    before,     \* history: the state of the channels when it began
    gaveUp      \* history: ata_wait has given up during it

disks == <<kind, floats, stubborn>>
vars == <<disks, reg, dev, store, drives, call, at, ret, before, gaveUp>>

-----------------------------------------------------------------------------
(* The channels.                                                           *)

Slot(c, u) == 2 * c + u
Address(c) == reg[c].hi * LoSize + reg[c].lo
Selected(c) == kind[Slot(c, reg[c].unit)]
Empty(c) == \A u \in {0, 1} : kind[Slot(c, u)] = "none"

\* The bits of the status register.  While BSY is set the others mean nothing.
Busy(c) == (Empty(c) /\ floats) \/ dev[c].phase = "busy"
Shown(c, phase) == dev[c].phase = phase /\ dev[c].unit = reg[c].unit
Drq(c) == (Empty(c) /\ floats) \/ Shown(c, "drq")
Err(c) == (Empty(c) /\ floats) \/ Shown(c, "err")

\* Whether a write to a register has an effect.
Accepts(c) == ~Busy(c) /\ ~(stubborn /\ Drq(c))

\* outb to an address register.
Out(c, r) == reg' = IF Accepts(c) THEN [reg EXCEPT ![c] = r] ELSE reg

\* outb to the command register.
OutCmd(c, cmd) ==
    dev' = IF Accepts(c) /\ Selected(c) # "none"
           THEN [dev EXCEPT ![c] = [phase |-> "busy", cmd |-> cmd, unit |-> reg[c].unit,
                                    address |-> Address(c), data |-> Junk]]
           ELSE dev

NoCommand == [phase |-> "idle", cmd |-> "none", unit |-> 0, address |-> 0, data |-> Junk]
Failed(u) == [NoCommand EXCEPT !.phase = "err", !.unit = u]

\* A busy unit is ready to give or take data, or reports an error.  A disk
\* answers IDENTIFY, a drive that is no disk refuses every command.  Every
\* failure shows in ERR: a fault shown in DF alone, which the driver never looks
\* at, is not among the behaviours of these disks.
DevReady(c) ==
    /\ dev[c].phase = "busy" /\ dev[c].cmd # "flush"
    /\ \/ /\ kind[Slot(c, dev[c].unit)] = "ata"
          /\ dev' = [dev EXCEPT ![c].phase = "drq"]
       \/ /\ kind[Slot(c, dev[c].unit)] # "ata" \/ dev[c].cmd # "identify"
          /\ dev' = [dev EXCEPT ![c] = Failed(@.unit)]
    /\ UNCHANGED <<disks, reg, store, drives, call, at, ret, before, gaveUp>>

\* The sector received is written; when that fails it may be written as well.
DevFlush(c) ==
    /\ dev[c].phase = "busy" /\ dev[c].cmd = "flush"
    /\ LET written == [store EXCEPT ![Slot(c, dev[c].unit)][dev[c].address] = dev[c].data]
       IN  \/ dev' = [dev EXCEPT ![c] = NoCommand] /\ store' = written
           \/ dev' = [dev EXCEPT ![c] = Failed(@.unit)] /\ store' \in {store, written}
    /\ UNCHANGED <<disks, reg, drives, call, at, ret, before, gaveUp>>

\* Nothing is under way on channel c: "in" and "out" tell which way the data
\* goes that a unit still has to move.
Pending(c) ==
    IF dev[c].phase \notin {"busy", "drq"} THEN "quiet"
    ELSE IF dev[c].cmd \in {"write", "flush"} THEN "out" ELSE "in"

-----------------------------------------------------------------------------
(* The calls.                                                              *)

Chan == call.drive \div 2
Unit == call.drive % 2
Lo(lba) == lba % LoSize
Hi(lba) == (lba \div LoSize) % HiSize

Identify(n) == [fn |-> "identify", drive |-> n, lba |-> 0, data |-> Junk]
NoCall == [fn |-> "none", drive |-> 0, lba |-> 0, data |-> Junk]
NoDrive == [present |-> FALSE, info |-> None]

Init ==
    /\ kind \in Kinds /\ floats \in BOOLEAN /\ stubborn \in BOOLEAN
    /\ reg = [c \in Channels |-> [unit |-> 0, lo |-> 0, hi |-> 0]]
    /\ dev = [c \in Channels |-> NoCommand]
    /\ store = Image
    /\ drives = [d \in Slots |-> NoDrive]
    /\ call = Identify(0)
    /\ at = "select"
    /\ ret = None
    /\ before = [c \in Channels |-> "quiet"]
    /\ gaveUp = FALSE

\* Mutant of ata_wait: there is no limit.
WaitForEver(c) == ~Busy(c) /\ UNCHANGED gaveUp

\* ata_wait: BSY is clear, or the polls are used up and nobody is told.
ata_wait(c) ==
    \/ ~Busy(c) /\ UNCHANGED gaveUp
    \/ Busy(c) /\ gaveUp' = TRUE

ata_get_drive(d) == d \in Slots /\ drives[d].present

Refuse(request) ==
    /\ at = "idle" /\ ~ata_get_drive(request.drive)
    /\ call' = NoCall
    /\ ret' = Error
    /\ UNCHANGED <<disks, reg, dev, store, drives, at, before, gaveUp>>

Begin(request) ==
    /\ at = "idle" /\ ata_get_drive(request.drive)
    /\ call' = request
    /\ at' = "select"
    /\ ret' = None
    /\ before' = [c \in Channels |-> Pending(c)]
    /\ gaveUp' = FALSE
    /\ UNCHANGED <<disks, reg, dev, store, drives>>

\* ata_select_drive writes the register first and waits afterwards.
Select ==
    /\ at = "select"
    /\ Out(Chan, [reg[Chan] EXCEPT !.unit = Unit, !.hi = 0])
    /\ at' = "ready"
    /\ UNCHANGED <<disks, dev, store, drives, call, ret, before, gaveUp>>

Ready ==
    /\ at = "ready"
    /\ ata_wait(Chan)
    /\ at' = IF call.fn = "identify" THEN "command" ELSE "low"
    /\ UNCHANGED <<disks, reg, dev, store, drives, call, ret, before>>

\* The sector number and the cylinder.
OutLow ==
    /\ at = "low"
    /\ Out(Chan, [reg[Chan] EXCEPT !.lo = Lo(call.lba)])
    /\ at' = "head"
    /\ UNCHANGED <<disks, dev, store, drives, call, ret, before, gaveUp>>

\* Mutant of OutHead: the high bits of the address are left out.
OutHeadUnitOnly ==
    /\ at = "head"
    /\ Out(Chan, [reg[Chan] EXCEPT !.unit = Unit, !.hi = 0])
    /\ at' = "command"
    /\ UNCHANGED <<disks, dev, store, drives, call, ret, before, gaveUp>>

\* The drive register again, now with the high bits of the address.
OutHead ==
    /\ at = "head"
    /\ Out(Chan, [reg[Chan] EXCEPT !.unit = Unit, !.hi = Hi(call.lba)])
    /\ at' = "command"
    /\ UNCHANGED <<disks, dev, store, drives, call, ret, before, gaveUp>>

Command ==
    /\ at = "command"
    /\ OutCmd(Chan, call.fn)
    /\ at' = call.fn
    /\ UNCHANGED <<disks, reg, store, drives, call, ret, before, gaveUp>>

Return(result) ==
    /\ at' = "idle"
    /\ ret' = result
    /\ UNCHANGED call

-----------------------------------------------------------------------------
(* ata_init: the four positions are tried one after the other.             *)

NextPosition ==
    IF call.drive < 3 THEN call' = Identify(call.drive + 1) /\ at' = "select"
                      ELSE UNCHANGED call /\ at' = "idle"

\* BSY outlasts both loops, an error, or DRQ does not come.
IdentifyFails ==
    /\ at = "identify"
    /\ \/ Busy(Chan) /\ gaveUp' = TRUE
       \/ ~Busy(Chan) /\ (Err(Chan) \/ ~Drq(Chan)) /\ UNCHANGED gaveUp
    /\ NextPosition
    /\ UNCHANGED <<disks, reg, dev, store, drives, ret, before>>

\* Mutant of IdentifyOk: whether there is data is not looked at.
IdentifyUnchecked ==
    /\ at = "identify"
    /\ ~Busy(Chan) /\ ~Err(Chan)
    /\ dev' = [dev EXCEPT ![Chan] = NoCommand]
    /\ drives' = [drives EXCEPT
                    ![Unit] = [present |-> TRUE, info |-> Slot(Chan, dev[Chan].unit)]]
    /\ NextPosition
    /\ UNCHANGED <<disks, reg, store, ret, before, gaveUp>>

\* The drive is recorded under its number on the channel.  The byte after
\* the serial number is the `present' of the next entry: the build stores a
\* zero there, or leaves it out since the index is out of bounds.
IdentifyOk ==
    /\ at = "identify"
    /\ ~Busy(Chan) /\ ~Err(Chan) /\ Drq(Chan)
    /\ dev' = [dev EXCEPT ![Chan] = NoCommand]
    /\ \E kept \in BOOLEAN :
          drives' = [drives EXCEPT
                       ![Unit] = [present |-> TRUE, info |-> Slot(Chan, dev[Chan].unit)],
                       ![Unit + 1].present = @ /\ kept]
    /\ NextPosition
    /\ UNCHANGED <<disks, reg, store, ret, before, gaveUp>>

-----------------------------------------------------------------------------
(* ata_read_sector after the command.                                      *)

ReadWait ==
    /\ at = "read"
    /\ ata_wait(Chan)
    /\ at' = "check"
    /\ UNCHANGED <<disks, reg, dev, store, drives, call, ret, before>>

\* ata_check_error; the bit is arbitrary while the unit is busy.
ReadError ==
    /\ at = "check"
    /\ Err(Chan) \/ Busy(Chan)
    /\ Return(Error)
    /\ UNCHANGED <<disks, reg, dev, store, drives, before, gaveUp>>

\* What `rep insw' gets.
Insw(c) ==
    IF ~Shown(c, "drq") \/ dev[c].cmd # "read" THEN Junk
    ELSE store[Slot(c, dev[c].unit)][dev[c].address]

\* Mutant of Drained: not all words are read.
NotDrained(c) == dev

\* A unit that had data to give has given it.
Drained(c) ==
    IF Shown(c, "drq") /\ dev[c].cmd # "write" THEN [dev EXCEPT ![c] = NoCommand] ELSE dev

ReadData ==
    /\ at = "check"
    /\ ~Err(Chan)
    /\ dev' = Drained(Chan)
    /\ Return(Insw(Chan))
    /\ UNCHANGED <<disks, reg, store, drives, before, gaveUp>>

-----------------------------------------------------------------------------
(* ata_write_sector after the command.  Its loops report that they gave up.*)

WriteNotReady ==
    /\ at = "write"
    /\ Busy(Chan) \/ ~Drq(Chan) \/ Err(Chan)
    /\ Return(Error)
    /\ UNCHANGED <<disks, reg, dev, store, drives, before, gaveUp>>

\* The data is sent.  A unit that has data to give takes none.
WriteData ==
    /\ at = "write"
    /\ ~Busy(Chan) /\ Drq(Chan) /\ ~Err(Chan)
    /\ dev' = IF dev[Chan].cmd = "write"
              THEN [dev EXCEPT ![Chan].phase = "busy", ![Chan].cmd = "flush",
                               ![Chan].data = call.data]
              ELSE dev
    /\ at' = "sent"
    /\ UNCHANGED <<disks, reg, store, drives, call, ret, before, gaveUp>>

WriteFails ==
    /\ at = "sent"
    /\ Busy(Chan) \/ Err(Chan)
    /\ Return(Error)
    /\ UNCHANGED <<disks, reg, dev, store, drives, before, gaveUp>>

WriteOk ==
    /\ at = "sent"
    /\ ~Busy(Chan) /\ ~Err(Chan)
    /\ Return(call.data)
    /\ UNCHANGED <<disks, reg, dev, store, drives, before, gaveUp>>

-----------------------------------------------------------------------------

\* fat32.c or a command of the shell asks for a sector.
Request == \E request \in Calls : Refuse(request) \/ Begin(request)

Driver ==
    \/ Select \/ Ready \/ OutLow \/ OutHead \/ Command
    \/ IdentifyFails \/ IdentifyOk
    \/ ReadWait \/ ReadError \/ ReadData
    \/ WriteNotReady \/ WriteData \/ WriteFails \/ WriteOk

Device == \E c \in Channels : DevReady(c) \/ DevFlush(c)

Next == Request \/ Driver \/ Device

Spec == Init /\ [][Next]_vars

\* The driver polls without yielding, so its steps go on; a disk may be dead.
FairSpec == Spec /\ WF_vars(Driver)

-----------------------------------------------------------------------------
(* Properties.                                                             *)

InCall == call.fn \in {"read", "write"} /\ at # "idle"

Quiet == \A c \in Channels : Pending(c) = "quiet"

\* A call can be relied on when it began with quiet channels, ata_wait did
\* not give up, and there is a disk where the call looks for it.
Sound ==
    IF InCall THEN /\ \A c \in Channels : before[c] = "quiet"
                   /\ ~gaveUp
                   /\ kind[call.drive] = "ata"
              ELSE Quiet

\* The request as the callers see it: lba modulo what the registers hold.
AsRequest ==
    IF InCall THEN [fn |-> call.fn, slot |-> call.drive,
                    address |-> Hi(call.lba) * LoSize + Lo(call.lba), data |-> call.data]
              ELSE None

D == INSTANCE Disk WITH Data <- Data \cup {Junk}, req <- AsRequest, sound <- Sound

\* The register protocol does what callers rely on (Disk): whatever came
\* before, a sound call that returns 0 has moved the sector asked for between
\* the caller and the right unit, errors of the disk are reported, and no
\* other sector changes.
ImplementsDisk == D!Spec

\* Data that an abandoned command leaves in a unit spoils one call at most: a
\* read in which ata_wait does not give up leaves the channel quiet, unless
\* the unit waits for the data of an abandoned write.
ReadSettles ==
    at = "idle" /\ call.fn = "read" /\ ~gaveUp /\ before[Chan] # "out"
    /\ kind[call.drive] = "ata"
        => Pending(Chan) = "quiet"

\* With disks on the primary channel alone, ata_init finds exactly these,
\* although each entry's last store goes to the next, if no ata_wait gives up:
\* no disk is too slow, and an empty secondary channel does not read as busy.
PrimaryFound ==
    call.fn = "identify" /\ at = "idle" /\ ~gaveUp
    /\ (\A u \in {0, 1} : kind[Slot(1, u)] # "ata") =>
        \A d \in Slots :
           IF kind[d] = "ata" THEN drives[d] = [present |-> TRUE, info |-> d]
                              ELSE ~drives[d].present

\* Every call returns, also when a disk is dead and BSY stays set (ata_wait
\* and the three loops of ata_init_drive and ata_write_sector are bounded).
CallReturns == at # "idle" ~> at = "idle"

=============================================================================
