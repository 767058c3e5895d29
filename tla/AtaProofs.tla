------------------------------ MODULE AtaProofs ------------------------------
(* Theorems about Ata, for any disks, any sizes and any sequence of calls.  *)
EXTENDS Ata, TLAPS

Units == {0, 1}
Places == {"idle", "select", "ready", "low", "head", "command", "identify",
           "read", "check", "write", "sent"}

\* Which function the driver is in.
AtMatchesCall ==
    /\ at # "idle" => call.fn # "none"
    /\ at = "identify" => call.fn = "identify"
    /\ at \in {"low", "head"} => call.fn \in {"read", "write"}
    /\ at \in {"read", "check"} => call.fn = "read"
    /\ at \in {"write", "sent"} => call.fn = "write"

AtaType ==
    /\ kind \in [Slots -> {"none", "ata", "atapi"}]
    /\ floats \in BOOLEAN /\ stubborn \in BOOLEAN
    /\ reg \in [Channels -> [unit : Units, lo : 0 .. LoSize - 1, hi : 0 .. HiSize - 1]]
    /\ dev \in [Channels -> [phase : {"idle", "busy", "drq", "err"},
                             cmd : {"none", "identify", "read", "write", "flush"},
                             unit : Units, address : Addresses,
                             data : Data \cup {Junk}]]
    /\ store \in [Slots -> [Addresses -> Data \cup {Junk}]]
    /\ drives \in [Slots -> [present : BOOLEAN, info : Slots \cup {None}]]
    /\ call \in [fn : {"none", "identify", "read", "write"}, drive : Slots, lba : Nat,
                 data : Data \cup {Junk}]
    /\ call.fn \in {"read", "write"} => call.data \in Data
    /\ at \in Places
    /\ before \in [Channels -> {"quiet", "in", "out"}]
    /\ gaveUp \in BOOLEAN
    /\ AtMatchesCall

-----------------------------------------------------------------------------
(* Arithmetic of drive numbers and addresses. *)

LEMMA DriveNumber ==
    ASSUME NEW d \in Slots
    PROVE  /\ d \div 2 \in Channels /\ d % 2 \in Units
           /\ Slot(d \div 2, d % 2) = d
  <1>1. CASE d = 0
    BY <1>1 DEF Channels, Units, Slot
  <1>2. CASE d = 1
    BY <1>2 DEF Channels, Units, Slot
  <1>3. CASE d = 2
    BY <1>3 DEF Channels, Units, Slot
  <1>4. CASE d = 3
    BY <1>4 DEF Channels, Units, Slot
  <1> QED
    BY <1>1, <1>2, <1>3, <1>4 DEF Slots

LEMMA SlotIs ==
    ASSUME NEW c \in Channels, NEW u \in Units
    PROVE  Slot(c, u) \in Slots
  BY DEF Slot, Slots, Channels, Units

LEMMA AddressInside ==
    ASSUME NEW lo \in 0 .. LoSize - 1, NEW hi \in 0 .. HiSize - 1
    PROVE  hi * LoSize + lo \in Addresses
  <1>0. LoSize \in Nat /\ HiSize \in Nat
    BY AtaAssumption DEF AtaAssumption
  <1>1. hi * LoSize <= (HiSize - 1) * LoSize
    BY <1>0
  <1>2. (HiSize - 1) * LoSize = LoSize * HiSize - LoSize
    BY <1>0
  <1>3. hi * LoSize \in Nat /\ LoSize * HiSize \in Nat
    BY <1>0
  <1> QED
    BY <1>0, <1>1, <1>2, <1>3 DEF Addresses

LEMMA SplitAddress ==
    ASSUME NEW lba \in Nat
    PROVE  Lo(lba) \in 0 .. LoSize - 1 /\ Hi(lba) \in 0 .. HiSize - 1
  <1>0. LoSize \in Nat \ {0} /\ HiSize \in Nat \ {0}
    BY AtaAssumption DEF AtaAssumption
  <1>1. lba % LoSize \in 0 .. LoSize - 1
    BY <1>0
  <1>2. lba \div LoSize \in Nat
    BY <1>0
  <1>3. (lba \div LoSize) % HiSize \in 0 .. HiSize - 1
    BY <1>0, <1>2
  <1> QED
    BY <1>1, <1>3 DEF Lo, Hi

-----------------------------------------------------------------------------
(* The inductive invariants. *)

\* No command is under way on channel c.
Settled(c) == dev[c].phase \in {"idle", "err"}

\* The address of the sector asked for, once split over the registers.
Wanted == Hi(call.lba) * LoSize + Lo(call.lba)

\* The channel's command is the one the call has sent, for its unit and sector.
Sent(cmd) == dev[Chan].cmd = cmd /\ dev[Chan].unit = Unit /\ dev[Chan].address = Wanted

Refused == dev[Chan].phase = "err" /\ dev[Chan].unit = Unit

\* A sound call finds idle channels, and step by step the registers and then
\* the unit hold what it asked for.
SoundInv ==
    InCall /\ Sound =>
        /\ \A c \in Channels \ {Chan} : Settled(c)
        /\ at \in {"select", "ready", "low", "head", "command"} => Settled(Chan)
        /\ at # "select" => reg[Chan].unit = Unit
        /\ at \in {"head", "command"} => reg[Chan].lo = Lo(call.lba)
        /\ at = "command" => reg[Chan].hi = Hi(call.lba)
        /\ at \in {"read", "check", "write"} =>
             Refused \/ (dev[Chan].phase \in {"busy", "drq"} /\ Sent(call.fn))
        /\ at = "check" => dev[Chan].phase # "busy"
        /\ at = "sent" =>
             \/ Refused
             \/ dev[Chan].phase = "busy" /\ Sent("flush") /\ dev[Chan].data = call.data
             \/ dev[Chan].phase = "idle" /\ store[call.drive][Wanted] = call.data

\* What the channel is doing during a read that did not find it waiting for
\* the data of a write.
ReadInv ==
    call.fn = "read" /\ ~gaveUp /\ before[Chan] # "out" /\ kind[call.drive] = "ata" =>
        /\ at = "idle" => Settled(Chan)
        /\ Settled(Chan) \/ dev[Chan].cmd \notin {"write", "flush"}
        /\ at \in {"low", "head", "command", "check"} => dev[Chan].phase # "busy"
        /\ at = "command" => reg[Chan].unit = Unit \/ ~Accepts(Chan)
        /\ at \in {"read", "check"} => Settled(Chan) \/ dev[Chan].unit = reg[Chan].unit

PrimaryOnly == \A u \in {0, 1} : kind[Slot(1, u)] # "ata"

Found(d) ==
    IF kind[d] = "ata" THEN drives[d] = [present |-> TRUE, info |-> d]
                       ELSE ~drives[d].present

\* The positions tried are recorded, the others not yet touched.
IdentifyInv ==
    call.fn = "identify" /\ ~gaveUp /\ PrimaryOnly =>
        /\ \A d \in Slots : d < call.drive \/ at = "idle" => Found(d)
        /\ \A d \in Slots : d >= call.drive /\ at # "idle" => ~drives[d].present
        /\ \A c \in Channels : c # Chan \/ at # "identify" => Settled(c)
        /\ at \in {"ready", "command", "identify"} =>
             reg[Chan].unit = Unit \/ (Empty(Chan) /\ floats)
        /\ at \in {"command", "identify"} => ~(Empty(Chan) /\ floats)
        /\ at = "identify" =>
             IF kind[call.drive] = "ata"
             THEN dev[Chan].phase \in {"busy", "drq"} /\ dev[Chan].cmd = "identify"
                  /\ dev[Chan].unit = Unit
             ELSE Settled(Chan) \/ (dev[Chan].phase = "busy" /\ dev[Chan].unit = Unit)

AtaInv == AtaType /\ SoundInv /\ ReadInv /\ IdentifyInv

-----------------------------------------------------------------------------
(* Types. *)

Registers == [unit : Units, lo : 0 .. LoSize - 1, hi : 0 .. HiSize - 1]
Commands == [phase : {"idle", "busy", "drq", "err"},
             cmd : {"none", "identify", "read", "write", "flush"},
             unit : Units, address : Addresses, data : Data \cup {Junk}]

\* The unit and channel of the call, and what its channel holds.
LEMMA CallPlace ==
    ASSUME AtaType
    PROVE  /\ Chan \in Channels /\ Unit \in Units /\ Slot(Chan, Unit) = call.drive
           /\ call.drive \in Slots
           /\ reg[Chan] \in Registers /\ dev[Chan] \in Commands
  <1>1. call.drive \in Slots
    BY DEF AtaType
  <1>2. Chan \in Channels /\ Unit \in Units /\ Slot(Chan, Unit) = call.drive
    BY <1>1, DriveNumber DEF Chan, Unit
  <1> QED
    BY <1>1, <1>2 DEF AtaType, Registers, Commands

LEMMA CommandValues ==
    /\ 0 \in Addresses /\ 0 \in 0 .. LoSize - 1 /\ 0 \in 0 .. HiSize - 1
    /\ NoCommand \in Commands
    /\ \A u \in Units : Failed(u) \in Commands
  <1>1. 0 \in 0 .. LoSize - 1 /\ 0 \in 0 .. HiSize - 1
    BY AtaAssumption DEF AtaAssumption
  <1>2. LoSize \in Nat
    BY AtaAssumption DEF AtaAssumption
  <1>3. 0 * LoSize + 0 \in Addresses
    BY <1>1, AddressInside
  <1>4. 0 \in Addresses
    BY <1>2, <1>3
  <1>5. NoCommand \in Commands
    BY <1>4 DEF NoCommand, Commands, Units
  <1>6. ASSUME NEW u \in Units  PROVE Failed(u) \in Commands
    BY <1>4, <1>6 DEF NoCommand, Failed, Commands, Units
  <1> QED
    BY <1>1, <1>4, <1>5, <1>6

LEMMA TypeInit ==
    ASSUME Init
    PROVE  AtaType
  <1>1. kind \in [Slots -> {"none", "ata", "atapi"}]
    BY AtaAssumption DEF Init, AtaAssumption
  <1>2. reg \in [Channels -> Registers]
    BY CommandValues DEF Init, Registers, Units
  <1>3. dev \in [Channels -> Commands]
    BY CommandValues DEF Init
  <1>4. store \in [Slots -> [Addresses -> Data \cup {Junk}]]
    BY AtaAssumption DEF Init, AtaAssumption
  <1>5. drives \in [Slots -> [present : BOOLEAN, info : Slots \cup {None}]]
    BY DEF Init, NoDrive
  <1>6. call \in [fn : {"none", "identify", "read", "write"}, drive : Slots, lba : Nat,
                  data : Data \cup {Junk}] /\ call.fn = "identify"
    BY DEF Init, Identify, Slots
  <1> QED
    BY <1>1, <1>2, <1>3, <1>4, <1>5, <1>6
    DEF Init, AtaType, AtMatchesCall, Places, Registers, Commands

\* What a write to a register leaves.
LEMMA OutTyped ==
    ASSUME AtaType, NEW r \in Registers, Out(Chan, r)
    PROVE  /\ reg' \in [Channels -> Registers]
           /\ \A c \in Channels : c # Chan => reg'[c] = reg[c]
           /\ Accepts(Chan) => reg'[Chan] = r
           /\ ~Accepts(Chan) => reg' = reg
  BY CallPlace DEF Out, AtaType, Registers

LEMMA OutCmdTyped ==
    ASSUME AtaType, call.fn \in {"identify", "read", "write"}, OutCmd(Chan, call.fn)
    PROVE  /\ dev' \in [Channels -> Commands]
           /\ \A c \in Channels : c # Chan => dev'[c] = dev[c]
           /\ \/ /\ Accepts(Chan) /\ Selected(Chan) # "none"
                 /\ dev'[Chan] = [phase |-> "busy", cmd |-> call.fn, unit |-> reg[Chan].unit,
                                  address |-> Address(Chan), data |-> Junk]
              \/ /\ ~(Accepts(Chan) /\ Selected(Chan) # "none")
                 /\ dev' = dev
  <1>1. Address(Chan) \in Addresses
    BY CallPlace, AddressInside DEF Address, Registers
  <1>2. [phase |-> "busy", cmd |-> call.fn, unit |-> reg[Chan].unit,
         address |-> Address(Chan), data |-> Junk] \in Commands
    BY <1>1, CallPlace DEF Commands, Registers
  <1>3. dev \in [Channels -> Commands] /\ Chan \in Channels
    BY CallPlace DEF AtaType, Commands
  <1> QED
    BY <1>2, <1>3 DEF OutCmd

LEMMA NextPositionTyped ==
    ASSUME AtaType, NextPosition, at = "identify"
    PROVE  /\ call' \in [fn : {"none", "identify", "read", "write"}, drive : Slots,
                         lba : Nat, data : Data \cup {Junk}]
           /\ call'.fn = "identify"
           /\ \/ call.drive < 3 /\ call'.drive = call.drive + 1 /\ at' = "select"
              \/ call.drive = 3 /\ call'.drive = 3 /\ at' = "idle"
  <1>1. call.drive \in Slots /\ call.fn = "identify"
    BY DEF AtaType, AtMatchesCall
  <1>2. CASE call.drive < 3
    <2>1. call.drive + 1 \in Slots
      BY <1>1, <1>2 DEF Slots
    <2>2. call' = Identify(call.drive + 1) /\ at' = "select"
      BY <1>2 DEF NextPosition
    <2> QED
      BY <1>2, <2>1, <2>2 DEF Identify
  <1>3. CASE ~(call.drive < 3)
    <2>1. call.drive = 3
      BY <1>1, <1>3 DEF Slots
    <2> QED
      BY <1>1, <1>3, <2>1 DEF NextPosition, AtaType
  <1> QED  BY <1>2, <1>3

LEMMA PendingTyped ==
    ASSUME NEW c \in Channels
    PROVE  Pending(c) \in {"quiet", "in", "out"}
  BY DEF Pending

\* What a step of the disks does to the channel it works on.
LEMMA DevReadyIs ==
    ASSUME AtaType, NEW c \in Channels, DevReady(c)
    PROVE  /\ dev' \in [Channels -> Commands]
           /\ \A b \in Channels : b # c => dev'[b] = dev[b]
           /\ dev[c].phase = "busy" /\ dev[c].cmd # "flush"
           /\ dev'[c].unit = dev[c].unit
           /\ \/ /\ kind[Slot(c, dev[c].unit)] = "ata" /\ dev'[c].phase = "drq"
                 /\ dev'[c].cmd = dev[c].cmd /\ dev'[c].address = dev[c].address
              \/ /\ kind[Slot(c, dev[c].unit)] # "ata" \/ dev[c].cmd # "identify"
                 /\ dev'[c].phase = "err"
           /\ UNCHANGED <<disks, reg, store, drives, call, at, ret, before, gaveUp>>
  <1>1. dev \in [Channels -> Commands] /\ dev[c] \in Commands /\ dev[c].unit \in Units
    BY DEF AtaType, Commands
  <1>2. Failed(dev[c].unit) \in Commands
    BY <1>1, CommandValues
  <1>3. CASE dev' = [dev EXCEPT ![c].phase = "drq"] /\ kind[Slot(c, dev[c].unit)] = "ata"
    <2>1. [dev[c] EXCEPT !.phase = "drq"] \in Commands
      BY <1>1 DEF Commands
    <2> QED
      BY <1>1, <1>3, <2>1 DEF DevReady, Commands
  <1>4. CASE /\ dev' = [dev EXCEPT ![c] = Failed(@.unit)]
             /\ kind[Slot(c, dev[c].unit)] # "ata" \/ dev[c].cmd # "identify"
    <2>1. dev'[c] = Failed(dev[c].unit)
      BY <1>1, <1>4
    <2>2. Failed(dev[c].unit).phase = "err" /\ Failed(dev[c].unit).unit = dev[c].unit
      BY DEF Failed, NoCommand
    <2> QED
      BY <1>1, <1>2, <1>4, <2>1, <2>2 DEF DevReady
  <1> QED
    BY <1>3, <1>4 DEF DevReady

LEMMA DevFlushIs ==
    ASSUME AtaType, NEW c \in Channels, DevFlush(c)
    PROVE  /\ dev' \in [Channels -> Commands]
           /\ \A b \in Channels : b # c => dev'[b] = dev[b]
           /\ dev[c].phase = "busy" /\ dev[c].cmd = "flush"
           /\ LET written == [store EXCEPT ![Slot(c, dev[c].unit)][dev[c].address]
                                               = dev[c].data]
              IN  \/ dev'[c].phase = "idle" /\ store' = written
                  \/ /\ dev'[c].phase = "err" /\ dev'[c].unit = dev[c].unit
                     /\ store' \in {store, written}
           /\ store' \in [Slots -> [Addresses -> Data \cup {Junk}]]
           /\ UNCHANGED <<disks, reg, drives, call, at, ret, before, gaveUp>>
  <1> DEFINE s == Slot(c, dev[c].unit)
             written == [store EXCEPT ![s][dev[c].address] = dev[c].data]
  <1>1. dev \in [Channels -> Commands] /\ dev[c] \in Commands /\ dev[c].unit \in Units
    BY DEF AtaType, Commands
  <1>2. Failed(dev[c].unit) \in Commands /\ NoCommand \in Commands
    BY <1>1, CommandValues
  <1>3. written \in [Slots -> [Addresses -> Data \cup {Junk}]]
    <2>1. s \in Slots
      BY <1>1, SlotIs
    <2> QED
      BY <1>1, <2>1 DEF AtaType, Commands
  <1>4. /\ NoCommand.phase = "idle"
        /\ Failed(dev[c].unit).phase = "err" /\ Failed(dev[c].unit).unit = dev[c].unit
    BY DEF NoCommand, Failed
  <1>5. CASE dev' = [dev EXCEPT ![c] = NoCommand] /\ store' = written
    <2>1. dev'[c] = NoCommand
      BY <1>1, <1>5
    <2> QED
      BY <1>1, <1>2, <1>3, <1>4, <1>5, <2>1 DEF DevFlush
  <1>6. CASE dev' = [dev EXCEPT ![c] = Failed(@.unit)] /\ store' \in {store, written}
    <2>1. dev'[c] = Failed(dev[c].unit)
      BY <1>1, <1>6
    <2>2. store' \in [Slots -> [Addresses -> Data \cup {Junk}]]
      BY <1>3, <1>6 DEF AtaType
    <2> QED
      BY <1>1, <1>2, <1>4, <1>6, <2>1, <2>2 DEF DevFlush
  <1> QED
    BY <1>5, <1>6 DEF DevFlush

\* The channels keep their types over the steps that change them.
LEMMA DrainedIs ==
    ASSUME AtaType
    PROVE  /\ Drained(Chan) \in [Channels -> Commands]
           /\ \A c \in Channels : c # Chan => Drained(Chan)[c] = dev[c]
           /\ Drained(Chan)[Chan] = IF Shown(Chan, "drq") /\ dev[Chan].cmd # "write"
                                    THEN NoCommand ELSE dev[Chan]
  BY CallPlace, CommandValues DEF AtaType, Drained, Commands

LEMMA WriteDataIs ==
    ASSUME AtaType, WriteData
    PROVE  /\ dev' \in [Channels -> Commands]
           /\ \A c \in Channels : c # Chan => dev'[c] = dev[c]
           /\ dev[Chan].cmd = "write" =>
                dev'[Chan] = [dev[Chan] EXCEPT !.phase = "busy", !.cmd = "flush",
                                               !.data = call.data]
           /\ dev[Chan].cmd # "write" => dev' = dev
  <1>1. dev \in [Channels -> Commands] /\ Chan \in Channels /\ dev[Chan] \in Commands
        /\ call.data \in Data \cup {Junk}
    BY CallPlace DEF AtaType, Commands
  <1>2. [dev[Chan] EXCEPT !.phase = "busy", !.cmd = "flush", !.data = call.data] \in Commands
    BY <1>1 DEF Commands
  <1>3. CASE dev[Chan].cmd = "write"
    <2>1. dev' = [dev EXCEPT ![Chan].phase = "busy", ![Chan].cmd = "flush",
                             ![Chan].data = call.data]
      BY <1>3 DEF WriteData
    <2>2. dev' = [dev EXCEPT ![Chan] = [dev[Chan] EXCEPT !.phase = "busy", !.cmd = "flush",
                                               !.data = call.data]]
      BY <1>1, <2>1
    <2> QED
      BY <1>1, <1>2, <1>3, <2>2
  <1>4. CASE dev[Chan].cmd # "write"
    BY <1>1, <1>4 DEF WriteData
  <1> QED  BY <1>3, <1>4

LEMMA IdentifyOkIs ==
    ASSUME AtaType, IdentifyOk
    PROVE  /\ dev' = [dev EXCEPT ![Chan] = NoCommand]
           /\ dev' \in [Channels -> Commands]
           /\ drives' \in [Slots -> [present : BOOLEAN, info : Slots \cup {None}]]
           /\ drives'[Unit] = [present |-> TRUE, info |-> Slot(Chan, dev[Chan].unit)]
           /\ drives'[Unit + 1].present => drives[Unit + 1].present
           /\ \A d \in Slots : d \notin {Unit, Unit + 1} => drives'[d] = drives[d]
  <1>1. /\ Chan \in Channels /\ Unit \in Units /\ dev[Chan] \in Commands
        /\ dev[Chan].unit \in Units /\ dev \in [Channels -> Commands]
    BY CallPlace DEF Commands, AtaType
  <1>2. Unit \in Slots /\ Unit + 1 \in Slots /\ Unit # Unit + 1
    BY <1>1 DEF Units, Slots
  <1>3. Slot(Chan, dev[Chan].unit) \in Slots
    BY <1>1, SlotIs
  <1>4. PICK kept \in BOOLEAN :
          drives' = [drives EXCEPT
                       ![Unit] = [present |-> TRUE, info |-> Slot(Chan, dev[Chan].unit)],
                       ![Unit + 1].present = @ /\ kept]
    BY DEF IdentifyOk
  <1> DEFINE r == [present |-> TRUE, info |-> Slot(Chan, dev[Chan].unit)]
             q == [drives[Unit + 1] EXCEPT !.present = @ /\ kept]
             R == [present : BOOLEAN, info : Slots \cup {None}]
  <1>5. drives \in [Slots -> R] /\ r \in R
    BY <1>3 DEF AtaType
  <1>6. q \in R /\ (q.present => drives[Unit + 1].present)
    BY <1>2, <1>5
  <1>7. drives' = [drives EXCEPT ![Unit] = r, ![Unit + 1] = q]
    BY <1>2, <1>4, <1>5
  <1>8. /\ drives' \in [Slots -> R] /\ drives'[Unit] = r /\ drives'[Unit + 1] = q
        /\ \A d \in Slots : d \notin {Unit, Unit + 1} => drives'[d] = drives[d]
    <2> HIDE DEF r, q, R
    <2> QED
      BY <1>2, <1>5, <1>6, <1>7
  <1> QED
    BY <1>1, <1>6, <1>8, CommandValues DEF IdentifyOk

LEMMA TypeStep ==
    ASSUME AtaType, [Next]_vars
    PROVE  AtaType'
  <1> USE DEF Registers, Commands
  \* The steps that leave the disks' part alone.
  <1>1. ASSUME UNCHANGED <<disks, store>>,
               reg' \in [Channels -> Registers], dev' \in [Channels -> Commands],
               UNCHANGED drives, UNCHANGED call, UNCHANGED before, gaveUp' \in BOOLEAN,
               at' \in Places, AtMatchesCall'
        PROVE  AtaType'
    BY <1>1 DEF AtaType, disks
  <1>2. reg \in [Channels -> Registers] /\ dev \in [Channels -> Commands]
        /\ gaveUp \in BOOLEAN /\ at \in Places /\ AtMatchesCall
        /\ reg[Chan] \in Registers
    BY CallPlace DEF AtaType
  <1>3. ASSUME NEW request \in Calls, Refuse(request)
        PROVE  AtaType'
    <2>1. call' \in [fn : {"none", "identify", "read", "write"}, drive : Slots, lba : Nat,
                     data : Data \cup {Junk}] /\ call'.fn = "none" /\ at' = "idle"
      BY <1>3 DEF Refuse, NoCall, Slots
    <2> QED
      BY <1>3, <2>1 DEF Refuse, AtaType, disks, AtMatchesCall, Places
  <1>4. ASSUME NEW request \in Calls, Begin(request)
        PROVE  AtaType'
    <2>1. /\ call' \in [fn : {"none", "identify", "read", "write"}, drive : Slots, lba : Nat,
                        data : Data \cup {Junk}]
          /\ call'.fn \in {"read", "write"} /\ call'.data \in Data /\ at' = "select"
      <3>1. request \in [fn : {"read", "write"}, drive : Nat, lba : Nat, data : Data]
        BY AtaAssumption DEF AtaAssumption
      <3> QED
        BY <1>4, <3>1 DEF Begin, ata_get_drive
    <2>2. before' \in [Channels -> {"quiet", "in", "out"}]
      BY <1>4, PendingTyped DEF Begin
    <2> QED
      BY <1>4, <2>1, <2>2 DEF Begin, AtaType, disks, AtMatchesCall, Places
  <1>5. CASE Select
    <2>1. [reg[Chan] EXCEPT !.unit = Unit, !.hi = 0] \in Registers
      BY <1>2, CallPlace, CommandValues
    <2>2. reg' \in [Channels -> Registers]
      BY <1>5, <2>1, OutTyped DEF Select
    <2> QED
      BY <1>1, <1>2, <1>5, <2>2 DEF Select, AtMatchesCall, Places
  <1>6. CASE Ready
    <2>1. gaveUp' \in BOOLEAN
      BY <1>2, <1>6 DEF Ready, ata_wait
    <2>2. call.fn \in {"none", "identify", "read", "write"}
      BY DEF AtaType
    <2> QED
      BY <1>1, <1>2, <1>6, <2>1, <2>2 DEF Ready, AtMatchesCall, Places
  <1>7. CASE OutLow
    <2>1. [reg[Chan] EXCEPT !.lo = Lo(call.lba)] \in Registers
      BY <1>2, SplitAddress DEF AtaType
    <2>2. reg' \in [Channels -> Registers]
      BY <1>7, <2>1, OutTyped DEF OutLow
    <2> QED
      BY <1>1, <1>2, <1>7, <2>2 DEF OutLow, AtMatchesCall, Places
  <1>8. CASE OutHead
    <2>1. [reg[Chan] EXCEPT !.unit = Unit, !.hi = Hi(call.lba)] \in Registers
      BY <1>2, CallPlace, SplitAddress DEF AtaType
    <2>2. reg' \in [Channels -> Registers]
      BY <1>8, <2>1, OutTyped DEF OutHead
    <2> QED
      BY <1>1, <1>2, <1>8, <2>2 DEF OutHead, AtMatchesCall, Places
  <1>9. CASE Command
    <2>1. call.fn \in {"identify", "read", "write"}
      BY <1>9 DEF Command, AtaType, AtMatchesCall
    <2>2. dev' \in [Channels -> Commands]
      BY <1>9, <2>1, OutCmdTyped DEF Command
    <2> QED
      BY <1>1, <1>2, <1>9, <2>1, <2>2 DEF Command, AtMatchesCall, Places
  <1>10. CASE IdentifyFails
    <2>1. gaveUp' \in BOOLEAN /\ at = "identify" /\ NextPosition
      BY <1>2, <1>10 DEF IdentifyFails
    <2> QED
      BY <1>10, <2>1, NextPositionTyped
      DEF IdentifyFails, AtaType, disks, AtMatchesCall, Places
  <1>11. CASE IdentifyOk
    BY <1>11, NextPositionTyped, IdentifyOkIs
    DEF IdentifyOk, AtaType, disks, AtMatchesCall, Places
  <1>12. CASE ReadWait
    <2>1. gaveUp' \in BOOLEAN
      BY <1>2, <1>12 DEF ReadWait, ata_wait
    <2> QED
      BY <1>1, <1>2, <1>12, <2>1 DEF ReadWait, AtMatchesCall, Places
  <1>13. CASE ReadError \/ WriteNotReady \/ WriteFails \/ WriteOk
    BY <1>1, <1>2, <1>13
    DEF ReadError, WriteNotReady, WriteFails, WriteOk, Return, AtMatchesCall, Places
  <1>14. CASE ReadData
    <2>1. dev' \in [Channels -> Commands]
      BY <1>14, DrainedIs DEF ReadData
    <2> QED
      BY <1>1, <1>2, <1>14, <2>1 DEF ReadData, Return, AtMatchesCall, Places
  <1>15. CASE WriteData
    <2>1. dev' \in [Channels -> Commands]
      BY <1>15, WriteDataIs
    <2> QED
      BY <1>1, <1>2, <1>15, <2>1 DEF WriteData, AtMatchesCall, Places
  <1>16. ASSUME NEW c \in Channels, DevReady(c)
         PROVE  AtaType'
    <2>1. dev' \in [Channels -> Commands]
          /\ UNCHANGED <<disks, reg, store, drives, call, at, ret, before, gaveUp>>
      BY <1>16, DevReadyIs
    <2> QED
      BY <1>1, <1>2, <2>1 DEF AtMatchesCall
  <1>17. ASSUME NEW c \in Channels, DevFlush(c)
         PROVE  AtaType'
    <2>1. dev' \in [Channels -> Commands]
          /\ store' \in [Slots -> [Addresses -> Data \cup {Junk}]]
          /\ UNCHANGED <<disks, reg, drives, call, at, ret, before, gaveUp>>
      BY <1>17, DevFlushIs
    <2> QED
      BY <2>1 DEF AtaType, disks, AtMatchesCall
  <1>18. CASE UNCHANGED vars
    BY <1>18 DEF AtaType, vars, disks, AtMatchesCall
  <1> QED
    BY <1>3, <1>4, <1>5, <1>6, <1>7, <1>8, <1>9, <1>10, <1>11, <1>12, <1>13, <1>14, <1>15,
       <1>16, <1>17, <1>18 DEF Next, Request, Driver, Device

-----------------------------------------------------------------------------
(* Sound calls. *)

\* A channel with a disk shows the state of its units.
LEMMA StatusOfDisk ==
    ASSUME AtaType, kind[call.drive] = "ata"
    PROVE  /\ ~Empty(Chan)
           /\ Busy(Chan) <=> dev[Chan].phase = "busy"
           /\ Drq(Chan) <=> Shown(Chan, "drq")
           /\ Err(Chan) <=> Shown(Chan, "err")
           /\ Settled(Chan) => Accepts(Chan)
           /\ reg[Chan].unit = Unit => Selected(Chan) = "ata"
  <1>1. ~Empty(Chan)
    BY CallPlace DEF Empty, Units
  <1> QED
    BY <1>1, CallPlace DEF Busy, Drq, Err, Accepts, Settled, Shown, Selected

LEMMA QuietIsSettled ==
    ASSUME AtaType, NEW c \in Channels
    PROVE  Pending(c) = "quiet" <=> Settled(c)
  BY DEF Pending, Settled, AtaType

\* Within a call only ata_init goes on to another one, and gaveUp stays set.
LEMMA OnlyIdentifyMovesOn ==
    ASSUME [Next]_vars, ~Request, ~(IdentifyFails \/ IdentifyOk)
    PROVE  UNCHANGED <<disks, call, before>> /\ (gaveUp' = gaveUp \/ gaveUp')
  <1>1. Driver => UNCHANGED <<disks, call, before>> /\ (gaveUp' = gaveUp \/ gaveUp')
    BY DEF Driver, Select, Ready, OutLow, OutHead, Command, ReadWait, ReadError, ReadData,
           WriteNotReady, WriteData, WriteFails, WriteOk, Return, ata_wait
  <1>2. Device => UNCHANGED <<disks, call, before, gaveUp>>
    BY DEF Device, DevReady, DevFlush
  <1> QED
    BY <1>1, <1>2 DEF Next, vars

\* A call that is sound has been so throughout.
LEMMA SoundCallGoesOn ==
    ASSUME AtaType, [Next]_vars, InCall', Sound', at # "idle"
    PROVE  /\ InCall /\ Sound /\ call' = call /\ kind' = kind /\ kind[call.drive] = "ata"
           /\ ~gaveUp /\ ~gaveUp' /\ Chan' = Chan /\ Unit' = Unit /\ Wanted' = Wanted
  <1>1. ~(IdentifyFails \/ IdentifyOk)
    BY NextPositionTyped DEF IdentifyFails, IdentifyOk, InCall
  <1>2. ~Request
    BY DEF Request, Refuse, Begin
  <1>3. UNCHANGED <<disks, call, before>> /\ (gaveUp' = gaveUp \/ gaveUp')
    BY <1>1, <1>2, OnlyIdentifyMovesOn
  <1> QED
    BY <1>3 DEF InCall, Sound, disks, Chan, Unit, Wanted

LEMMA SoundStep ==
    ASSUME AtaType, SoundInv, [Next]_vars
    PROVE  SoundInv'
  <1> SUFFICES ASSUME InCall', Sound'
               PROVE  /\ \A c \in Channels \ {Chan'} : Settled(c)'
                      /\ at' \in {"select", "ready", "low", "head", "command"}
                           => Settled(Chan)'
                      /\ at' # "select" => reg'[Chan'].unit = Unit'
                      /\ at' \in {"head", "command"} => reg'[Chan'].lo = Lo(call'.lba)
                      /\ at' = "command" => reg'[Chan'].hi = Hi(call'.lba)
                      /\ at' \in {"read", "check", "write"} =>
                           \/ Refused'
                           \/ dev'[Chan'].phase \in {"busy", "drq"} /\ Sent(call.fn)'
                      /\ at' = "check" => dev'[Chan'].phase # "busy"
                      /\ at' = "sent" =>
                           \/ Refused'
                           \/ /\ dev'[Chan'].phase = "busy" /\ Sent("flush")'
                              /\ dev'[Chan'].data = call'.data
                           \/ /\ dev'[Chan'].phase = "idle"
                              /\ store'[call'.drive][Wanted'] = call'.data
    BY DEF SoundInv
  <1>0. AtaType'
    BY TypeStep
  <1>1. ASSUME NEW request \in Calls, Begin(request)
        PROVE  at' = "select" /\ \A c \in Channels : Settled(c)'
    <2>1. \A c \in Channels : before'[c] = "quiet"
      BY DEF Sound
    <2>2. \A c \in Channels : Settled(c)
      BY <1>1, <2>1, QuietIsSettled DEF Begin
    <2> QED
      BY <1>1, <2>2 DEF Begin, Settled
  <1>2. CASE at = "idle" /\ Request
    <2>1. PICK request \in Calls : Refuse(request) \/ Begin(request)
      BY <1>2 DEF Request
    <2>2. ~Refuse(request)
      BY DEF Refuse, InCall, NoCall
    <2>3. Chan' \in Channels
      BY <1>0, DriveNumber DEF AtaType, Chan
    <2> QED
      BY <1>1, <2>1, <2>2, <2>3
  <1>3. at # "idle" \/ (at = "idle" /\ Request) \/ (at = "idle" /\ (Device \/ UNCHANGED vars))
    BY DEF Next, Driver, Select, Ready, OutLow, OutHead, Command, IdentifyFails, IdentifyOk,
           ReadWait, ReadError, ReadData, WriteNotReady, WriteData, WriteFails, WriteOk
  <1>4. CASE at = "idle" /\ (Device \/ UNCHANGED vars)
    BY <1>4 DEF Device, DevReady, DevFlush, vars, InCall
  <1>5. CASE at # "idle"
    <2>0. /\ InCall /\ Sound /\ call' = call /\ kind' = kind /\ kind[call.drive] = "ata"
          /\ ~gaveUp /\ ~gaveUp' /\ Chan' = Chan /\ Unit' = Unit /\ Wanted' = Wanted
          /\ call.fn \in {"read", "write"} /\ at' # "idle"
      BY <1>5, SoundCallGoesOn DEF InCall
    <2>1. /\ Chan \in Channels /\ Unit \in Units
          /\ \A c \in Channels \ {Chan} : Settled(c)
          /\ at \in {"select", "ready", "low", "head", "command"} => Settled(Chan)
          /\ at # "select" => reg[Chan].unit = Unit
          /\ at \in {"head", "command"} => reg[Chan].lo = Lo(call.lba)
          /\ at = "command" => reg[Chan].hi = Hi(call.lba)
          /\ at \in {"read", "check", "write"} =>
               Refused \/ (dev[Chan].phase \in {"busy", "drq"} /\ Sent(call.fn))
          /\ at = "check" => dev[Chan].phase # "busy"
          /\ at = "sent" =>
               \/ Refused
               \/ dev[Chan].phase = "busy" /\ Sent("flush") /\ dev[Chan].data = call.data
               \/ dev[Chan].phase = "idle" /\ store[call.drive][Wanted] = call.data
      BY <2>0, CallPlace DEF SoundInv
    <2>2. /\ Busy(Chan) <=> dev[Chan].phase = "busy"
          /\ Settled(Chan) => Accepts(Chan)
          /\ reg[Chan].unit = Unit => Selected(Chan) = "ata"
      BY <2>0, StatusOfDisk
    <2>3. reg \in [Channels -> Registers] /\ dev \in [Channels -> Commands]
          /\ reg[Chan] \in Registers
      BY <2>1 DEF AtaType, Registers, Commands
    <2> USE DEF Settled, Sent, Refused
    <2>4. CASE Select
      <3>1. reg'[Chan] = [reg[Chan] EXCEPT !.unit = Unit, !.hi = 0]
        <4>1. [reg[Chan] EXCEPT !.unit = Unit, !.hi = 0] \in Registers
          BY <2>1, <2>3, CommandValues DEF Registers
        <4> QED
          BY <2>1, <2>2, <2>4, <4>1, OutTyped DEF Select
      <3>2. reg'[Chan].unit = Unit
        BY <2>3, <3>1 DEF Registers
      <3> QED
        BY <2>0, <2>1, <2>4, <3>2 DEF Select
    <2>5. CASE Ready
      BY <2>0, <2>1, <2>5 DEF Ready
    <2>6. CASE OutLow
      <3>1. reg'[Chan] = [reg[Chan] EXCEPT !.lo = Lo(call.lba)]
        <4>1. [reg[Chan] EXCEPT !.lo = Lo(call.lba)] \in Registers
          BY <2>3, SplitAddress DEF Registers, AtaType
        <4> QED
          BY <2>1, <2>2, <2>6, <4>1, OutTyped DEF OutLow
      <3>2. reg'[Chan].unit = reg[Chan].unit /\ reg'[Chan].lo = Lo(call.lba)
        BY <2>3, <3>1 DEF Registers
      <3> QED
        BY <2>0, <2>1, <2>6, <3>2 DEF OutLow
    <2>7. CASE OutHead
      <3>1. reg'[Chan] = [reg[Chan] EXCEPT !.unit = Unit, !.hi = Hi(call.lba)]
        <4>1. [reg[Chan] EXCEPT !.unit = Unit, !.hi = Hi(call.lba)] \in Registers
          BY <2>1, <2>3, SplitAddress DEF Registers, AtaType
        <4> QED
          BY <2>1, <2>2, <2>7, <4>1, OutTyped DEF OutHead
      <3>2. /\ reg'[Chan].unit = Unit /\ reg'[Chan].lo = reg[Chan].lo
            /\ reg'[Chan].hi = Hi(call.lba)
        BY <2>3, <3>1 DEF Registers
      <3> QED
        BY <2>0, <2>1, <2>7, <3>2 DEF OutHead
    <2>8. CASE Command
      <3>1. /\ \A c \in Channels : c # Chan => dev'[c] = dev[c]
            /\ dev'[Chan] = [phase |-> "busy", cmd |-> call.fn, unit |-> reg[Chan].unit,
                             address |-> Address(Chan), data |-> Junk]
        BY <2>0, <2>1, <2>2, <2>8, OutCmdTyped DEF Command
      <3>2. Address(Chan) = Wanted
        BY <2>1, <2>8 DEF Command, Address, Wanted
      <3> QED
        BY <2>0, <2>1, <2>8, <3>1, <3>2 DEF Command
    <2>9. CASE IdentifyFails \/ IdentifyOk
      BY <2>0, <2>9 DEF IdentifyFails, IdentifyOk, AtaType, AtMatchesCall
    <2>10. CASE ReadWait
      BY <2>0, <2>1, <2>2, <2>10 DEF ReadWait, ata_wait
    <2>11. CASE ReadError \/ ReadData \/ WriteNotReady \/ WriteFails \/ WriteOk
      BY <2>0, <2>11 DEF ReadError, ReadData, WriteNotReady, WriteFails, WriteOk, Return
    <2>12. CASE WriteData
      <3>1. at = "write" /\ call.fn = "write" /\ ~Refused /\ dev[Chan].cmd = "write"
        BY <2>0, <2>1, <2>12, StatusOfDisk DEF WriteData, Shown, AtaType, AtMatchesCall
      <3>2. /\ \A c \in Channels : c # Chan => dev'[c] = dev[c]
            /\ dev'[Chan] = [dev[Chan] EXCEPT !.phase = "busy", !.cmd = "flush",
                                              !.data = call.data]
        BY <2>12, <3>1, WriteDataIs
      <3>3. /\ dev'[Chan].phase = "busy" /\ dev'[Chan].cmd = "flush"
            /\ dev'[Chan].data = call.data /\ dev'[Chan].unit = dev[Chan].unit
            /\ dev'[Chan].address = dev[Chan].address
        BY <2>1, <2>3, <3>2 DEF Commands
      <3> QED
        BY <2>0, <2>1, <2>12, <3>1, <3>2, <3>3 DEF WriteData
    <2>13. ASSUME NEW c \in Channels, DevReady(c)
           PROVE  c = Chan /\ UNCHANGED <<reg, at>> /\ at \in {"read", "write"}
                  /\ (\A b \in Channels : b # Chan => dev'[b] = dev[b])
                  /\ dev[Chan].phase = "busy" /\ dev'[Chan].unit = dev[Chan].unit
                  /\ \/ dev'[Chan].phase = "err"
                     \/ dev'[Chan].phase = "drq" /\ dev'[Chan].cmd = dev[Chan].cmd
                        /\ dev'[Chan].address = dev[Chan].address
      <3>1. dev[c].phase = "busy" /\ dev[c].cmd # "flush"
        BY <2>13 DEF DevReady
      <3>2. c = Chan
        BY <2>1, <3>1
      <3>3. at \in {"read", "write"}
        BY <1>5, <2>0, <2>1, <3>1, <3>2 DEF AtaType, Places, AtMatchesCall
      <3> QED
        BY <2>1, <2>13, <3>1, <3>2, <3>3, DevReadyIs
    <2>14. ASSUME NEW c \in Channels, DevFlush(c)
           PROVE  c = Chan /\ UNCHANGED <<reg, at>> /\ at = "sent"
                  /\ (\A b \in Channels : b # Chan => dev'[b] = dev[b])
                  /\ \/ dev'[Chan].phase = "err" /\ dev'[Chan].unit = dev[Chan].unit
                     \/ dev'[Chan].phase = "idle" /\ store'[call.drive][Wanted] = call.data
                  /\ Sent("flush")
      <3>1. dev[c].phase = "busy" /\ dev[c].cmd = "flush"
        BY <2>14 DEF DevFlush
      <3>2. c = Chan
        BY <2>1, <3>1
      <3>3. at = "sent"
        BY <1>5, <2>0, <2>1, <3>1, <3>2 DEF AtaType, Places, AtMatchesCall
      <3>4. Sent("flush") /\ dev[Chan].data = call.data
        BY <2>1, <3>1, <3>2, <3>3
      <3>5. Slot(c, dev[c].unit) = call.drive /\ call.drive \in Slots /\ Wanted \in Addresses
        BY <3>2, <3>4, CallPlace DEF Commands
      <3>6. [store EXCEPT ![call.drive][Wanted] = call.data][call.drive][Wanted] = call.data
        BY <3>5 DEF AtaType
      <3> QED
        BY <2>14, <3>2, <3>3, <3>4, <3>5, <3>6, DevFlushIs
    <2>15. CASE UNCHANGED vars
      BY <2>0, <2>1, <2>15 DEF vars
    <2>16. CASE Device
      <3>1. PICK c \in Channels : DevReady(c) \/ DevFlush(c)
        BY <2>16 DEF Device
      <3>2. CASE DevReady(c)
        BY <2>0, <2>1, <2>13, <3>2
      <3>3. CASE DevFlush(c)
        BY <2>0, <2>1, <2>14, <3>3
      <3> QED  BY <3>1, <3>2, <3>3
    <2>17. ~Request
      BY <1>5 DEF Request, Refuse, Begin
    <2> QED
      BY <2>4, <2>5, <2>6, <2>7, <2>8, <2>9, <2>10, <2>11, <2>12, <2>15, <2>16, <2>17
      DEF Next, Driver
  <1> QED  BY <1>2, <1>3, <1>4, <1>5

-----------------------------------------------------------------------------
(* The driver implements Disk. *)

LEMMA InitRefines ==
    ASSUME Init
    PROVE  D!Init
  <1>1. ~InCall
    BY DEF Init, InCall, Identify
  <1>2. store \in [Slots -> [Addresses -> Data \cup {Junk}]]
    BY TypeInit DEF AtaType
  <1>3. Sound \in BOOLEAN
    BY <1>1 DEF Sound, Quiet
  <1> QED
    BY <1>1, <1>2, <1>3 DEF Init, D!Init, AsRequest

LEMMA StepRefines ==
    ASSUME AtaType, SoundInv, [Next]_vars
    PROVE  [D!Next]_D!vars
  <1>0. AtaType'
    BY TypeStep
  <1>a. Sound \in BOOLEAN /\ Sound' \in BOOLEAN
    BY DEF Sound, Quiet
  <1>b. CASE ~Sound
    BY <1>b DEF D!Next
  <1>c. ASSUME Sound, UNCHANGED <<store, ret>>, AsRequest' = AsRequest
        PROVE  [D!Next]_D!vars
    <2>1. CASE Sound'
      BY <1>a, <1>c, <2>1 DEF D!vars
    <2>2. CASE ~Sound'
      BY <1>c, <2>2 DEF D!Next, D!Fault
    <2> QED  BY <2>1, <2>2
  <1>d. Request => at = "idle"
    BY DEF Request, Refuse, Begin
  <1>1. CASE Sound /\ ~InCall
    <2>1. AsRequest = None /\ Quiet
      BY <1>1 DEF Sound, AsRequest
    <2>2. ~Device
      BY <2>1, QuietIsSettled DEF Quiet, Settled, Device, DevReady, DevFlush
    <2>3. ASSUME NEW request \in Calls, Refuse(request)
          PROVE  [D!Next]_D!vars
      <3>1. ~InCall'
        BY <2>3 DEF Refuse, InCall, NoCall
      <3>2. AsRequest' = None
        BY <3>1 DEF AsRequest
      <3>3. Sound'
        <4>1. dev' = dev
          BY <2>3 DEF Refuse
        <4>2. Quiet'
          BY <2>1, <4>1 DEF Quiet, Pending
        <4> QED
          BY <3>1, <4>2 DEF Sound
      <3>4. ret' = Error /\ store' = store
        BY <2>3 DEF Refuse
      <3> QED
        BY <1>1, <1>a, <2>1, <3>2, <3>3, <3>4 DEF D!Next, D!Refuse
    <2>4. ASSUME NEW request \in Calls, Begin(request)
          PROVE  [D!Next]_D!vars
      <3>1. call' = request /\ at' = "select" /\ ret' = None /\ store' = store
        BY <2>4 DEF Begin
      <3>2. request \in [fn : {"read", "write"}, drive : Nat, lba : Nat, data : Data]
        BY AtaAssumption DEF AtaAssumption
      <3>3. request.drive \in Slots
        BY <2>4 DEF Begin, ata_get_drive
      <3>4. Hi(request.lba) * LoSize + Lo(request.lba) \in Addresses
        BY <3>2, SplitAddress, AddressInside
      <3>5. AsRequest' = [fn |-> request.fn, slot |-> request.drive,
                          address |-> Hi(request.lba) * LoSize + Lo(request.lba),
                          data |-> request.data]
        BY <3>1, <3>2 DEF AsRequest, InCall
      <3>6. AsRequest' \in D!Requests
        BY <3>2, <3>3, <3>4, <3>5 DEF D!Requests
      <3> QED
        BY <2>1, <3>1, <3>6 DEF D!Next, D!Begin
    <2>5. CASE at # "idle" /\ ~Request /\ ~Device
      <3>1. call.fn = "identify"
        BY <1>1, <2>5 DEF InCall, AtaType, AtMatchesCall
      <3>2. UNCHANGED <<store, ret>> /\ call'.fn = "identify"
        <4>1. CASE IdentifyFails \/ IdentifyOk
          BY <4>1, NextPositionTyped DEF IdentifyFails, IdentifyOk
        <4>2. CASE Select \/ Ready \/ OutLow \/ OutHead \/ Command
          BY <3>1, <4>2 DEF Select, Ready, OutLow, OutHead, Command
        <4>3. CASE ReadWait \/ ReadError \/ ReadData \/ WriteNotReady \/ WriteData
                   \/ WriteFails \/ WriteOk
          BY <3>1, <4>3 DEF AtaType, AtMatchesCall, ReadWait, ReadError, ReadData,
                            WriteNotReady, WriteData, WriteFails, WriteOk
        <4>4. CASE UNCHANGED vars
          BY <3>1, <4>4 DEF vars
        <4> QED
          BY <2>5, <4>1, <4>2, <4>3, <4>4 DEF Next, Driver
      <3>3. AsRequest' = AsRequest
        BY <1>1, <3>2 DEF AsRequest, InCall
      <3> QED
        BY <1>1, <1>c, <3>2, <3>3
    <2>6. CASE at = "idle" /\ ~Request /\ ~Device
      <3>1. UNCHANGED vars
        BY <2>6 DEF Next, Driver, Select, Ready, OutLow, OutHead, Command, IdentifyFails,
                    IdentifyOk, ReadWait, ReadError, ReadData, WriteNotReady, WriteData,
                    WriteFails, WriteOk
      <3>2. AsRequest' = AsRequest /\ UNCHANGED <<store, ret>>
        BY <3>1 DEF vars, AsRequest, InCall
      <3> QED
        BY <1>1, <1>c, <3>2
    <2> QED
      BY <2>2, <2>3, <2>4, <2>5, <2>6 DEF Request
  <1>2. CASE Sound /\ InCall
    <2> DEFINE c == Chan
    <2>0. /\ \A b \in Channels : before[b] = "quiet"
          /\ ~gaveUp /\ kind[call.drive] = "ata"
          /\ call.fn \in {"read", "write"} /\ at # "idle" /\ call.data \in Data
      BY <1>2 DEF Sound, InCall, AtaType
    <2>1. AsRequest = [fn |-> call.fn, slot |-> call.drive, address |-> Wanted,
                       data |-> call.data]
      BY <1>2 DEF AsRequest, Wanted
    <2>2. AsRequest # None
      <3>1. Wanted \in Addresses
        BY SplitAddress, AddressInside DEF Wanted, AtaType
      <3>2. AsRequest \in [fn : {"read", "write"}, slot : Slots, address : Addresses,
                           data : Data]
        BY <2>0, <2>1, <3>1 DEF AtaType
      <3> QED
        BY <3>2, AtaAssumption DEF AtaAssumption
    <2>3. /\ \A b \in Channels \ {Chan} : Settled(b)
          /\ at # "select" => reg[Chan].unit = Unit
          /\ at \in {"read", "check", "write"} =>
               Refused \/ (dev[Chan].phase \in {"busy", "drq"} /\ Sent(call.fn))
          /\ at = "check" => dev[Chan].phase # "busy"
          /\ at \in {"select", "ready", "low", "head", "command"} => Settled(Chan)
          /\ at = "sent" =>
               \/ Refused
               \/ dev[Chan].phase = "busy" /\ Sent("flush") /\ dev[Chan].data = call.data
               \/ dev[Chan].phase = "idle" /\ store[call.drive][Wanted] = call.data
      BY <1>2 DEF SoundInv
    <2>4. /\ Busy(Chan) <=> dev[Chan].phase = "busy"
          /\ Drq(Chan) <=> Shown(Chan, "drq")
          /\ Err(Chan) <=> Shown(Chan, "err")
      BY <2>0, StatusOfDisk
    <2>5. /\ Chan \in Channels /\ Slot(Chan, Unit) = call.drive /\ dev[Chan] \in Commands
          /\ call.drive \in Slots
      BY CallPlace
    \* Steps within a call that do not reach the disk's sectors.
    <2>6. ASSUME UNCHANGED <<store, ret, call>>, at' # "idle"
          PROVE  [D!Next]_D!vars
      <3>1. AsRequest' = AsRequest
        BY <2>0, <2>6 DEF AsRequest, InCall
      <3> QED
        BY <1>2, <1>c, <2>6, <3>1
    <2>7. CASE Select \/ Ready \/ OutLow \/ OutHead \/ Command \/ ReadWait \/ WriteData
      BY <2>0, <2>6, <2>7 DEF Select, Ready, OutLow, OutHead, Command, ReadWait, WriteData
    <2>8. CASE ReadError \/ WriteNotReady \/ WriteFails
      <3>1. at' = "idle" /\ ret' = Error /\ store' = store
        BY <2>8 DEF ReadError, WriteNotReady, WriteFails, Return
      <3>2. AsRequest' = None
        BY <3>1 DEF AsRequest, InCall
      <3> QED
        BY <2>2, <3>1, <3>2 DEF D!Next, D!ReturnError
    \* A call that succeeds leaves the channels quiet.
    <2>9. ASSUME at' = "idle", store' = store, ret' = store[call.drive][Wanted],
                 call.fn = "write" => ret' = call.data,
                 \A b \in Channels : Settled(b)'
          PROVE  [D!Next]_D!vars
      <3>1. ~InCall' /\ AsRequest' = None
        BY <2>9 DEF AsRequest, InCall
      <3>2. Sound'
        BY <2>9, <3>1 DEF Sound, Quiet, Pending, Settled
      <3>3. AsRequest.slot = call.drive /\ AsRequest.address = Wanted
            /\ AsRequest.fn = call.fn /\ AsRequest.data = call.data
        BY <2>1
      <3> QED
        BY <1>2, <1>a, <2>2, <2>9, <3>1, <3>2, <3>3 DEF D!Next, D!ReturnOk
    <2>10. CASE ReadData
      <3>1. at = "check" /\ call.fn = "read" /\ ~Err(Chan)
        BY <2>10 DEF ReadData, AtaType, AtMatchesCall
      <3>2. dev[Chan].phase = "drq" /\ Sent("read") /\ Shown(Chan, "drq")
        BY <2>3, <2>4, <3>1 DEF Shown, Refused, Sent
      <3>3. Insw(Chan) = store[call.drive][Wanted]
        BY <2>5, <3>2 DEF Insw, Sent
      <3>4. dev' = Drained(Chan)
        BY <2>10 DEF ReadData
      <3>5. /\ dev'[Chan] = NoCommand
            /\ \A b \in Channels : b # Chan => dev'[b] = dev[b]
        BY <3>2, <3>4, DrainedIs DEF Sent
      <3>6. \A b \in Channels : Settled(b)'
        BY <2>3, <3>5 DEF Settled, NoCommand
      <3> QED
        BY <2>9, <2>10, <3>1, <3>3, <3>6 DEF ReadData, Return
    <2>11. CASE WriteOk
      <3>1. at = "sent" /\ ~Busy(Chan) /\ ~Err(Chan)
        BY <2>11 DEF WriteOk
      <3>2. dev[Chan].phase = "idle" /\ store[call.drive][Wanted] = call.data
        BY <2>3, <2>4, <3>1 DEF Shown, Refused
      <3>3. \A b \in Channels : Settled(b)'
        BY <2>3, <2>11, <3>2 DEF WriteOk, Settled
      <3> QED
        BY <2>9, <2>11, <3>2, <3>3 DEF WriteOk, Return
    <2>12. CASE IdentifyFails \/ IdentifyOk
      BY <2>0, <2>12 DEF IdentifyFails, IdentifyOk, AtaType, AtMatchesCall
    <2>13. ASSUME NEW b \in Channels, DevReady(b)
           PROVE  [D!Next]_D!vars
      BY <2>0, <2>6, <2>13 DEF DevReady
    <2>14. ASSUME NEW b \in Channels, DevFlush(b)
           PROVE  [D!Next]_D!vars
      <3>1. dev[b].phase = "busy" /\ dev[b].cmd = "flush"
        BY <2>14 DEF DevFlush
      <3>2. b = Chan
        BY <2>3, <3>1 DEF Settled
      <3>3. at = "sent" /\ call.fn = "write"
        BY <2>0, <2>3, <3>1, <3>2 DEF AtaType, Places, AtMatchesCall, Settled, Refused, Sent
      <3>4. Sent("flush") /\ dev[Chan].data = call.data
        BY <2>3, <3>1, <3>2, <3>3 DEF Refused
      <3>5. /\ UNCHANGED <<call, at, ret, before, gaveUp, kind>>
            /\ store' = store \/ store' = [store EXCEPT ![call.drive][Wanted] = call.data]
        BY <2>5, <2>14, <3>2, <3>4, DevFlushIs DEF Sent, disks
      <3>6. AsRequest' = AsRequest /\ Sound' = Sound
        BY <1>2, <3>5 DEF AsRequest, InCall, Sound
      <3>7. CASE store' = store
        BY <2>0, <2>6, <3>5, <3>7
      <3>8. CASE store' = [store EXCEPT ![call.drive][Wanted] = call.data]
        <4>1. AsRequest.slot = call.drive /\ AsRequest.address = Wanted
              /\ AsRequest.fn = "write" /\ AsRequest.data = call.data
          BY <2>1, <3>3
        <4> QED
          BY <2>2, <3>5, <3>6, <3>8, <4>1 DEF D!Next, D!Perform
      <3> QED  BY <3>5, <3>7, <3>8
    <2>15. CASE UNCHANGED vars
      BY <2>0, <2>6, <2>15 DEF vars
    <2> QED
      BY <1>d, <2>0, <2>7, <2>8, <2>10, <2>11, <2>12, <2>13, <2>14, <2>15
      DEF Next, Driver, Device
  <1> QED  BY <1>b, <1>1, <1>2

-----------------------------------------------------------------------------
(* Reads settle their channel. *)

LEMMA ReadStep ==
    ASSUME AtaType, ReadInv, [Next]_vars
    PROVE  ReadInv'
  <1> SUFFICES ASSUME call'.fn = "read", ~gaveUp', before'[Chan'] # "out",
                      kind'[call'.drive] = "ata"
               PROVE  /\ at' = "idle" => Settled(Chan)'
                      /\ Settled(Chan)' \/ dev'[Chan'].cmd \notin {"write", "flush"}
                      /\ at' \in {"low", "head", "command", "check"}
                           => dev'[Chan'].phase # "busy"
                      /\ at' = "command" => reg'[Chan'].unit = Unit' \/ ~Accepts(Chan)'
                      /\ at' \in {"read", "check"}
                           => Settled(Chan)' \/ dev'[Chan'].unit = reg'[Chan'].unit
    BY DEF ReadInv
  <1>0. AtaType'
    BY TypeStep
  <1>1. ASSUME NEW request \in Calls, Begin(request)
        PROVE  at' = "select" /\ (Settled(Chan)' \/ dev'[Chan'].cmd \notin {"write", "flush"})
    <2>1. Chan' \in Channels
      BY <1>0, DriveNumber DEF AtaType, Chan
    <2>2. Pending(Chan') # "out" /\ dev' = dev /\ at' = "select"
      BY <1>1, <2>1 DEF Begin
    <2> QED
      BY <2>1, <2>2 DEF Pending, Settled, AtaType
  <1>2. CASE Request
    <2>1. PICK request \in Calls : Refuse(request) \/ Begin(request)
      BY <1>2 DEF Request
    <2>2. ~Refuse(request)
      BY DEF Refuse, NoCall
    <2> QED
      BY <1>1, <2>1, <2>2
  <1>3. CASE ~Request
    <2>0. UNCHANGED <<disks, call, before>> /\ ~gaveUp
      <3>1. ~(IdentifyFails \/ IdentifyOk)
        BY NextPositionTyped DEF IdentifyFails, IdentifyOk
      <3> QED
        BY <1>3, <3>1, OnlyIdentifyMovesOn DEF AtaType
    <2>1. /\ Chan' = Chan /\ Unit' = Unit /\ Chan \in Channels /\ Unit \in Units
          /\ call.fn = "read" /\ kind[call.drive] = "ata"
          /\ kind' = kind /\ floats' = floats /\ stubborn' = stubborn
      BY <2>0, CallPlace DEF Chan, Unit, disks
    <2>2. /\ at = "idle" => Settled(Chan)
          /\ Settled(Chan) \/ dev[Chan].cmd \notin {"write", "flush"}
          /\ at \in {"low", "head", "command", "check"} => dev[Chan].phase # "busy"
          /\ at = "command" => reg[Chan].unit = Unit \/ ~Accepts(Chan)
          /\ at \in {"read", "check"} => Settled(Chan) \/ dev[Chan].unit = reg[Chan].unit
      BY <2>0, <2>1 DEF ReadInv
    <2>3. /\ Busy(Chan) <=> dev[Chan].phase = "busy"
          /\ Drq(Chan) <=> Shown(Chan, "drq")
          /\ Err(Chan) <=> Shown(Chan, "err")
          /\ Accepts(Chan) <=> dev[Chan].phase # "busy" /\ ~(stubborn /\ Shown(Chan, "drq"))
          /\ reg[Chan].unit = Unit => Selected(Chan) = "ata"
      BY <2>1, StatusOfDisk DEF Accepts
    <2>3a. Accepts(Chan)' <=> dev'[Chan].phase # "busy" /\ ~(stubborn /\ Shown(Chan, "drq")')
      <3>1. ~Empty(Chan)' /\ stubborn' = stubborn
        BY <2>1, StatusOfDisk DEF Empty
      <3> QED
        BY <2>1, <3>1 DEF Accepts, Busy, Drq, Shown
    <2>4. reg \in [Channels -> Registers] /\ dev \in [Channels -> Commands]
          /\ reg[Chan] \in Registers /\ dev[Chan] \in Commands
      BY <2>1 DEF AtaType, Registers, Commands
    <2> USE DEF Settled
    <2>5. CASE Select
      BY <2>1, <2>2, <2>5 DEF Select
    <2>6. CASE Ready
      BY <2>1, <2>2, <2>3, <2>6 DEF Ready, ata_wait
    <2>7. CASE OutLow
      BY <2>1, <2>2, <2>7 DEF OutLow
    <2>8. CASE OutHead
      <3>1. [reg[Chan] EXCEPT !.unit = Unit, !.hi = Hi(call.lba)] \in Registers
        BY <2>1, <2>4, SplitAddress DEF Registers, AtaType
      <3>2. /\ Accepts(Chan) =>
                 reg'[Chan] = [reg[Chan] EXCEPT !.unit = Unit, !.hi = Hi(call.lba)]
            /\ ~Accepts(Chan) => reg' = reg
        BY <2>1, <2>8, <3>1, OutTyped DEF OutHead
      <3>3. dev' = dev /\ at = "head" /\ at' = "command"
        BY <2>8 DEF OutHead
      <3>4. CASE Accepts(Chan)
        <4>1. reg'[Chan].unit = Unit
          BY <2>4, <3>2, <3>4 DEF Registers
        <4> QED
          BY <2>1, <2>2, <3>3, <4>1
      <3>5. CASE ~Accepts(Chan)
        <4>1. ~Accepts(Chan)'
          BY <2>1, <2>3, <2>3a, <3>2, <3>3, <3>5 DEF Shown
        <4> QED
          BY <2>1, <2>2, <3>3, <4>1
      <3> QED  BY <3>4, <3>5
    <2>9. CASE Command
      <3>1. at = "command" /\ at' = "read" /\ reg' = reg
        BY <2>1, <2>9 DEF Command
      <3>2. CASE Accepts(Chan) /\ Selected(Chan) # "none"
        <4>1. dev'[Chan] = [phase |-> "busy", cmd |-> call.fn, unit |-> reg[Chan].unit,
                            address |-> Address(Chan), data |-> Junk]
          BY <2>1, <2>9, <3>2, OutCmdTyped DEF Command
        <4> QED
          BY <2>1, <3>1, <4>1
      <3>3. CASE ~(Accepts(Chan) /\ Selected(Chan) # "none")
        <4>1. ~Accepts(Chan) /\ dev' = dev
          BY <2>1, <2>2, <2>3, <2>9, <3>1, <3>3, OutCmdTyped DEF Command
        <4> QED
          BY <2>1, <2>2, <2>3, <3>1, <4>1 DEF Shown
      <3> QED  BY <3>2, <3>3
    <2>10. CASE ReadWait
      BY <2>1, <2>2, <2>3, <2>10 DEF ReadWait, ata_wait
    <2>11. CASE ReadError
      BY <2>1, <2>2, <2>3, <2>11 DEF ReadError, Return, Shown
    <2>12. CASE ReadData
      <3>1. at = "check" /\ at' = "idle" /\ dev' = Drained(Chan)
        BY <2>12 DEF ReadData, Return
      <3>2. Settled(Chan) \/ Shown(Chan, "drq")
        BY <2>2, <2>4, <3>1 DEF Shown, Commands
      <3>3. dev'[Chan] = IF Shown(Chan, "drq") /\ dev[Chan].cmd # "write"
                         THEN NoCommand ELSE dev[Chan]
        BY <3>1, DrainedIs
      <3> QED
        BY <2>1, <2>2, <3>1, <3>2, <3>3 DEF NoCommand, Shown
    <2>13. CASE IdentifyFails \/ IdentifyOk \/ WriteNotReady \/ WriteData \/ WriteFails
                \/ WriteOk
      BY <2>1, <2>13 DEF IdentifyFails, IdentifyOk, WriteNotReady, WriteData, WriteFails,
                         WriteOk, AtaType, AtMatchesCall
    <2>14. ASSUME NEW c \in Channels, c # Chan, DevReady(c) \/ DevFlush(c)
           PROVE  dev'[Chan] = dev[Chan] /\ UNCHANGED <<reg, at>>
      BY <2>1, <2>14, DevReadyIs, DevFlushIs
    <2>15. CASE dev'[Chan] = dev[Chan] /\ UNCHANGED <<reg, at>>
      <3>1. Accepts(Chan)' <=> Accepts(Chan)
        BY <2>1, <2>3, <2>3a, <2>15 DEF Shown
      <3> QED
        BY <2>1, <2>2, <2>15, <3>1
    <2>16. CASE DevReady(Chan)
      <3>1. /\ dev[Chan].phase = "busy" /\ UNCHANGED <<reg, at>>
            /\ dev'[Chan].phase # "busy"
            /\ dev'[Chan].unit = dev[Chan].unit
            /\ dev'[Chan].phase = "err" \/ dev'[Chan].cmd = dev[Chan].cmd
        BY <2>1, <2>16, DevReadyIs
      <3> QED
        BY <2>1, <2>2, <3>1
    <2>17. ~DevFlush(Chan)
      BY <2>2 DEF DevFlush
    <2>18. CASE UNCHANGED vars
      BY <2>15, <2>18 DEF vars
    <2> QED
      BY <1>3, <2>1, <2>5, <2>6, <2>7, <2>8, <2>9, <2>10, <2>11, <2>12, <2>13, <2>14, <2>15,
         <2>16, <2>17, <2>18 DEF Next, Driver, Device
  <1> QED  BY <1>2, <1>3

-----------------------------------------------------------------------------
(* ata_init. *)

LEMMA IdentifyStep ==
    ASSUME AtaType, IdentifyInv, [Next]_vars
    PROVE  IdentifyInv'
  <1> DEFINE Floating == Empty(Chan) /\ floats
  <1> SUFFICES ASSUME call'.fn = "identify", ~gaveUp', PrimaryOnly'
               PROVE  /\ \A d \in Slots : d < call'.drive \/ at' = "idle" => Found(d)'
                      /\ \A d \in Slots : d >= call'.drive /\ at' # "idle"
                                            => ~drives'[d].present
                      /\ \A c \in Channels : c # Chan' \/ at' # "identify" => Settled(c)'
                      /\ at' \in {"ready", "command", "identify"} =>
                           reg'[Chan'].unit = Unit' \/ Floating'
                      /\ at' \in {"command", "identify"} => ~Floating'
                      /\ at' = "identify" =>
                           IF kind'[call'.drive] = "ata"
                           THEN /\ dev'[Chan'].phase \in {"busy", "drq"}
                                /\ dev'[Chan'].cmd = "identify" /\ dev'[Chan'].unit = Unit'
                           ELSE \/ Settled(Chan)'
                                \/ dev'[Chan'].phase = "busy" /\ dev'[Chan'].unit = Unit'
    BY DEF IdentifyInv
  <1>1. ~Request
    <2>1. ASSUME NEW request \in Calls, Refuse(request) \/ Begin(request)  PROVE FALSE
      <3>1. request.fn \in {"read", "write"}
        BY AtaAssumption DEF AtaAssumption
      <3> QED
        BY <2>1, <3>1 DEF Refuse, Begin, NoCall
    <2> QED
      BY <2>1 DEF Request
  <1>2. call.fn = "identify" /\ ~gaveUp /\ PrimaryOnly /\ UNCHANGED disks
        /\ kind' = kind /\ floats' = floats
    <2>1. CASE IdentifyFails \/ IdentifyOk
      BY <2>1 DEF IdentifyFails, IdentifyOk, AtaType, AtMatchesCall, PrimaryOnly, disks
    <2>2. CASE ~(IdentifyFails \/ IdentifyOk)
      BY <1>1, <2>2, OnlyIdentifyMovesOn DEF AtaType, PrimaryOnly, disks
    <2> QED  BY <2>1, <2>2
  <1>3. /\ \A d \in Slots : d < call.drive \/ at = "idle" => Found(d)
        /\ \A d \in Slots : d >= call.drive /\ at # "idle" => ~drives[d].present
        /\ \A c \in Channels : c # Chan \/ at # "identify" => Settled(c)
        /\ at \in {"ready", "command", "identify"} => reg[Chan].unit = Unit \/ Floating
        /\ at \in {"command", "identify"} => ~Floating
        /\ at = "identify" =>
             IF kind[call.drive] = "ata"
             THEN dev[Chan].phase \in {"busy", "drq"} /\ dev[Chan].cmd = "identify"
                  /\ dev[Chan].unit = Unit
             ELSE Settled(Chan) \/ (dev[Chan].phase = "busy" /\ dev[Chan].unit = Unit)
    BY <1>2 DEF IdentifyInv
  <1>4. /\ Chan \in Channels /\ Unit \in Units /\ Slot(Chan, Unit) = call.drive
        /\ call.drive \in Slots
        /\ reg[Chan] \in Registers /\ dev[Chan] \in Commands
        /\ reg \in [Channels -> Registers] /\ dev \in [Channels -> Commands]
    BY CallPlace DEF AtaType, Registers, Commands
  \* Steps that keep the call and what is recorded.
  <1>5. ASSUME UNCHANGED <<call, drives>>, at # "idle", at' # "idle"
        PROVE  /\ Chan' = Chan /\ Unit' = Unit /\ Floating' = Floating
               /\ \A d \in Slots : d < call'.drive \/ at' = "idle" => Found(d)'
               /\ \A d \in Slots : d >= call'.drive /\ at' # "idle" => ~drives'[d].present
    BY <1>2, <1>3, <1>5 DEF Chan, Unit, Empty, Found
  \* Steps to the next position, which leave every channel at rest.
  <1>6. ASSUME NextPosition, at = "identify", \A c \in Channels : Settled(c)',
               \A d \in Slots : d = call.drive => Found(d)',
               \A d \in Slots : d < call.drive => drives'[d] = drives[d],
               \A d \in Slots : d > call.drive => ~drives'[d].present
        PROVE  /\ \A d \in Slots : d < call'.drive \/ at' = "idle" => Found(d)'
               /\ \A d \in Slots : d >= call'.drive /\ at' # "idle" => ~drives'[d].present
               /\ \A c \in Channels : Settled(c)'
               /\ at' \in {"select", "idle"}
    <2>1. \/ call.drive < 3 /\ call'.drive = call.drive + 1 /\ at' = "select"
          \/ call.drive = 3 /\ call'.drive = 3 /\ at' = "idle"
      BY <1>6, NextPositionTyped
    <2>2. \A d \in Slots : d < call.drive => Found(d)'
      BY <1>2, <1>3, <1>6 DEF Found
    <2>3. \A d \in Slots : d <= call.drive => Found(d)'
      BY <1>4, <1>6, <2>2 DEF Slots
    <2> QED
      BY <1>4, <1>6, <2>1, <2>3 DEF Slots
  <1>7. Busy(Chan) <=> Floating \/ dev[Chan].phase = "busy"
    BY DEF Busy
  <1>8. CASE Select
    <2>1. at = "select" /\ at' = "ready" /\ UNCHANGED <<dev, call, drives>>
      BY <1>8 DEF Select
    <2>2. Accepts(Chan) \/ Floating
      BY <1>3, <1>4, <2>1 DEF Accepts, Busy, Drq, Shown, Settled
    <2>3. [reg[Chan] EXCEPT !.unit = Unit, !.hi = 0] \in Registers
      BY <1>4, CommandValues DEF Registers
    <2>4. reg'[Chan].unit = Unit \/ Floating
      BY <1>4, <1>8, <2>2, <2>3, OutTyped DEF Select, Registers
    <2>5. \A c \in Channels : Settled(c)'
      BY <1>3, <2>1 DEF Settled
    <2>6. /\ Chan' = Chan /\ Unit' = Unit /\ Floating' = Floating
          /\ \A d \in Slots : d < call'.drive \/ at' = "idle" => Found(d)'
          /\ \A d \in Slots : d >= call'.drive /\ at' # "idle" => ~drives'[d].present
      BY <1>5, <2>1
    <2> HIDE DEF Floating
    <2> QED
      BY <2>1, <2>4, <2>5, <2>6
  <1>9. CASE Ready
    <2>1. at = "ready" /\ at' = "command" /\ UNCHANGED <<reg, dev, call, drives>>
      BY <1>2, <1>9 DEF Ready
    <2>2. ~Floating
      BY <1>7, <1>9 DEF Ready, ata_wait
    <2>5. \A c \in Channels : Settled(c)'
      BY <1>3, <2>1 DEF Settled
    <2>6. /\ Chan' = Chan /\ Unit' = Unit /\ Floating' = Floating
          /\ \A d \in Slots : d < call'.drive \/ at' = "idle" => Found(d)'
          /\ \A d \in Slots : d >= call'.drive /\ at' # "idle" => ~drives'[d].present
      BY <1>5, <2>1
    <2>7. reg[Chan].unit = Unit
      BY <1>3, <2>1, <2>2
    <2> HIDE DEF Floating
    <2> QED
      BY <2>1, <2>2, <2>5, <2>6, <2>7
  <1>10. CASE Command
    <2>1. at = "command" /\ at' = "identify" /\ UNCHANGED <<reg, call, drives>>
      BY <1>2, <1>10 DEF Command
    <2>2. ~Floating /\ reg[Chan].unit = Unit
      BY <1>3, <2>1
    <2>3. Accepts(Chan) /\ Selected(Chan) = kind[call.drive]
      BY <1>3, <1>4, <2>1, <2>2 DEF Accepts, Busy, Drq, Shown, Settled, Selected
    <2>4. /\ \A c \in Channels : c # Chan => dev'[c] = dev[c]
          /\ \/ /\ kind[call.drive] # "none"
                /\ dev'[Chan] = [phase |-> "busy", cmd |-> call.fn, unit |-> reg[Chan].unit,
                                 address |-> Address(Chan), data |-> Junk]
             \/ kind[call.drive] = "none" /\ dev' = dev
      BY <1>2, <1>10, <2>3, OutCmdTyped DEF Command
    <2>5. \A c \in Channels : c # Chan => Settled(c)'
      BY <1>3, <2>4 DEF Settled
    <2>6. /\ Chan' = Chan /\ Unit' = Unit /\ Floating' = Floating
          /\ \A d \in Slots : d < call'.drive \/ at' = "idle" => Found(d)'
          /\ \A d \in Slots : d >= call'.drive /\ at' # "idle" => ~drives'[d].present
      BY <1>5, <2>1
    <2>7. IF kind[call.drive] = "ata"
          THEN dev'[Chan].phase \in {"busy", "drq"} /\ dev'[Chan].cmd = "identify"
               /\ dev'[Chan].unit = Unit
          ELSE Settled(Chan)' \/ (dev'[Chan].phase = "busy" /\ dev'[Chan].unit = Unit)
      BY <1>2, <1>3, <1>4, <2>1, <2>2, <2>4, <2>6 DEF Settled
    <2> HIDE DEF Floating
    <2> QED
      BY <1>2, <2>1, <2>2, <2>5, <2>6, <2>7
  <1>11. CASE IdentifyFails
    <2>1. /\ at = "identify" /\ NextPosition /\ UNCHANGED <<dev, drives>>
          /\ ~Busy(Chan) /\ (Err(Chan) \/ ~Drq(Chan))
      BY <1>11 DEF IdentifyFails
    <2>2. ~Floating /\ dev[Chan].phase # "busy" /\ reg[Chan].unit = Unit
      BY <1>3, <1>7, <2>1
    <2>3. kind[call.drive] # "ata"
      BY <1>3, <2>1, <2>2 DEF Err, Drq, Shown
    <2>4. \A c \in Channels : Settled(c)'
      BY <1>3, <2>1, <2>2, <2>3 DEF Settled
    <2>5. /\ \A d \in Slots : d = call.drive => Found(d)'
          /\ \A d \in Slots : d > call.drive => ~drives'[d].present
      BY <1>2, <1>3, <1>4, <2>1, <2>3 DEF Found, Slots
    <2>6. /\ \A d \in Slots : d < call'.drive \/ at' = "idle" => Found(d)'
          /\ \A d \in Slots : d >= call'.drive /\ at' # "idle" => ~drives'[d].present
          /\ \A c \in Channels : Settled(c)'
          /\ at' \in {"select", "idle"}
      BY <1>6, <2>1, <2>4, <2>5
    <2> QED
      BY <2>6
  <1>12. CASE IdentifyOk
    <2>1. at = "identify" /\ NextPosition /\ ~Busy(Chan) /\ Drq(Chan)
      BY <1>12 DEF IdentifyOk
    <2>2. ~Floating /\ dev[Chan].phase = "drq"
      BY <1>3, <1>7, <2>1 DEF Drq, Shown
    <2>3. kind[call.drive] = "ata" /\ dev[Chan].unit = Unit
      BY <1>3, <2>1, <2>2 DEF Settled
    <2>4. call.drive = Unit
      <3>1. Chan # 1
        BY <1>2, <1>4, <2>3 DEF PrimaryOnly, Units
      <3> QED
        BY <1>4, <3>1 DEF Channels, Units, Slot
    <2>5. /\ dev' = [dev EXCEPT ![Chan] = NoCommand]
          /\ drives'[Unit] = [present |-> TRUE, info |-> Slot(Chan, dev[Chan].unit)]
          /\ drives'[Unit + 1].present => drives[Unit + 1].present
          /\ \A d \in Slots : d \notin {Unit, Unit + 1} => drives'[d] = drives[d]
      BY <1>12, IdentifyOkIs
    <2>6. \A d \in Slots : d = call.drive => Found(d)'
      <3>1. drives'[call.drive] = [present |-> TRUE, info |-> call.drive]
        BY <1>4, <2>3, <2>4, <2>5
      <3> QED
        BY <1>2, <2>3, <3>1 DEF Found
    <2>7. \A d \in Slots : d < call.drive => drives'[d] = drives[d]
      BY <1>4, <2>4, <2>5 DEF Units, Slots
    <2>8. \A d \in Slots : d > call.drive => ~drives'[d].present
      <3>1. Unit + 1 \in Slots /\ Unit + 1 >= call.drive
        BY <1>4, <2>4 DEF Units, Slots
      <3>2. ~drives[Unit + 1].present
        BY <1>3, <2>1, <3>1
      <3> QED
        BY <1>3, <1>4, <2>1, <2>4, <2>5, <3>2 DEF Units, Slots
    <2>9. \A c \in Channels : Settled(c)'
      BY <1>3, <1>4, <2>5 DEF Settled, NoCommand
    <2>10. /\ \A d \in Slots : d < call'.drive \/ at' = "idle" => Found(d)'
           /\ \A d \in Slots : d >= call'.drive /\ at' # "idle" => ~drives'[d].present
           /\ \A c \in Channels : Settled(c)'
           /\ at' \in {"select", "idle"}
      BY <1>6, <2>1, <2>6, <2>7, <2>8, <2>9
    <2> QED
      BY <2>10
  <1>13. CASE OutLow \/ OutHead \/ ReadWait \/ ReadError \/ ReadData \/ WriteNotReady
              \/ WriteData \/ WriteFails \/ WriteOk
    BY <1>2, <1>13 DEF AtaType, AtMatchesCall, OutLow, OutHead, ReadWait, ReadError, ReadData,
                       WriteNotReady, WriteData, WriteFails, WriteOk
  <1>14. ASSUME NEW b \in Channels, DevReady(b) \/ DevFlush(b)
         PROVE  b = Chan /\ at = "identify" /\ at' = "identify"
                /\ UNCHANGED <<reg, call, drives>>
                /\ (\A c \in Channels : c # Chan => dev'[c] = dev[c])
                /\ IF kind[call.drive] = "ata"
                   THEN /\ dev'[Chan].phase \in {"busy", "drq"} /\ dev'[Chan].cmd = "identify"
                        /\ dev'[Chan].unit = Unit
                   ELSE Settled(Chan)'
    <2>1. dev[b].phase = "busy"
      BY <1>14 DEF DevReady, DevFlush
    <2>2. b = Chan /\ at = "identify"
      BY <1>3, <2>1 DEF Settled
    <2>3. /\ dev[Chan].unit = Unit
          /\ kind[call.drive] = "ata" => dev[Chan].cmd = "identify"
      BY <1>3, <2>1, <2>2 DEF Settled
    <2>4. /\ UNCHANGED <<reg, call, drives, at>>
          /\ \A c \in Channels : c # Chan => dev'[c] = dev[c]
      BY <1>14, <2>2, DevReadyIs, DevFlushIs
    <2>5. CASE DevReady(b)
      <3>1. /\ dev'[Chan].unit = Unit
            /\ \/ /\ kind[call.drive] = "ata" /\ dev'[Chan].phase = "drq"
                  /\ dev'[Chan].cmd = dev[Chan].cmd
               \/ /\ kind[call.drive] # "ata" \/ dev[Chan].cmd # "identify"
                  /\ dev'[Chan].phase = "err"
        BY <1>4, <2>2, <2>3, <2>5, DevReadyIs
      <3>2. Chan' = Chan
        BY <2>4 DEF Chan
      <3> QED
        BY <2>2, <2>3, <2>4, <3>1, <3>2 DEF Settled
    <2>6. CASE DevFlush(b)
      <3>1. dev'[Chan].phase \in {"idle", "err"} /\ dev[Chan].cmd = "flush"
        BY <2>2, <2>6, DevFlushIs
      <3>2. Chan' = Chan
        BY <2>4 DEF Chan
      <3> QED
        BY <2>2, <2>3, <2>4, <3>1, <3>2 DEF Settled
    <2> QED  BY <1>14, <2>5, <2>6
  <1>15. CASE Device
    <2>1. PICK b \in Channels : DevReady(b) \/ DevFlush(b)
      BY <1>15 DEF Device
    <2>2. /\ at = "identify" /\ at' = "identify" /\ UNCHANGED <<reg, call, drives>>
          /\ \A c \in Channels : c # Chan => dev'[c] = dev[c]
          /\ IF kind[call.drive] = "ata"
             THEN dev'[Chan].phase \in {"busy", "drq"} /\ dev'[Chan].cmd = "identify"
                  /\ dev'[Chan].unit = Unit
             ELSE Settled(Chan)'
      BY <1>14, <2>1
    <2>5. \A c \in Channels : c # Chan => Settled(c)'
      BY <1>3, <2>2 DEF Settled
    <2>6. /\ Chan' = Chan /\ Unit' = Unit /\ Floating' = Floating
          /\ \A d \in Slots : d < call'.drive \/ at' = "idle" => Found(d)'
          /\ \A d \in Slots : d >= call'.drive /\ at' # "idle" => ~drives'[d].present
      BY <1>5, <2>2
    <2>7. reg[Chan].unit = Unit /\ ~Floating
      BY <1>3, <2>2
    <2> HIDE DEF Floating
    <2> QED
      BY <1>2, <2>2, <2>5, <2>6, <2>7
  <1>16. CASE UNCHANGED vars
    <2>1. /\ Chan' = Chan /\ Unit' = Unit /\ Floating' = Floating
          /\ UNCHANGED <<call, at, reg, dev, drives>>
          /\ \A d \in Slots : Found(d)' = Found(d)
          /\ \A c \in Channels : Settled(c)' = Settled(c)
          /\ Settled(Chan)' = Settled(Chan)
      BY <1>2, <1>16 DEF vars, Chan, Unit, Empty, Found, Settled
    <2> HIDE DEF Floating
    <2> QED
      BY <1>2, <1>3, <2>1
  <1> QED
    BY <1>1, <1>8, <1>9, <1>10, <1>11, <1>12, <1>13, <1>15, <1>16 DEF Next, Driver

-----------------------------------------------------------------------------
(* Theorems. *)

\* The types and the three invariants about sound calls, reads and ata_init
\* hold throughout.
THEOREM AtaAlways == Spec => []AtaInv
  <1>1. Init => AtaInv
    <2> SUFFICES ASSUME Init PROVE AtaInv
      OBVIOUS
    <2>1. call.fn = "identify" /\ call.drive = 0 /\ at = "select"
          /\ (\A c \in Channels : dev[c].phase = "idle")
          /\ \A d \in Slots : ~drives[d].present
      BY DEF Init, Identify, NoCommand, NoDrive
    <2>2. SoundInv /\ ReadInv
      BY <2>1 DEF SoundInv, ReadInv, InCall
    <2>3. IdentifyInv
      BY <2>1 DEF IdentifyInv, Settled, Slots
    <2> QED
      BY <2>2, <2>3, TypeInit DEF AtaInv
  <1>2. AtaInv /\ [Next]_vars => AtaInv'
    BY TypeStep, SoundStep, ReadStep, IdentifyStep DEF AtaInv
  <1> QED
    BY <1>1, <1>2, PTL DEF Spec

\* The register protocol implements Disk: whatever came before, a call that
\* begins on quiet channels and does not time out moves exactly the sector
\* asked for, reports every error of the disk and changes no other sector.
THEOREM AtaRefinesDisk == Spec => ImplementsDisk
  <1>1. Init => D!Init
    BY InitRefines
  <1>2. AtaInv /\ [Next]_vars => [D!Next]_D!vars
    BY StepRefines DEF AtaInv
  <1> QED
    BY <1>1, <1>2, AtaAlways, PTL DEF Spec, ImplementsDisk, D!Spec

\* A read that did not give up in ata_wait leaves its channel quiet, whatever
\* an abandoned command had left there, unless that was a write's data.
THEOREM ReadsSettle == Spec => []ReadSettles
  <1>1. AtaInv => ReadSettles
    <2> SUFFICES ASSUME AtaInv, at = "idle", call.fn = "read", ~gaveUp,
                        before[Chan] # "out", kind[call.drive] = "ata"
                 PROVE  Pending(Chan) = "quiet"
      BY DEF ReadSettles
    <2>1. Settled(Chan) /\ Chan \in Channels
      BY CallPlace DEF AtaInv, ReadInv
    <2> QED
      BY <2>1, QuietIsSettled DEF AtaInv
  <1> QED
    BY <1>1, AtaAlways, PTL

\* With disks on the primary channel only, and none of them too slow, ata_init
\* records exactly the disks, each under its own number, although the last
\* store of an entry goes to the next entry.
THEOREM PrimaryDisksFound == Spec => []PrimaryFound
  <1>1. AtaInv => PrimaryFound
    BY DEF AtaInv, IdentifyInv, PrimaryFound, PrimaryOnly, Found
  <1> QED
    BY <1>1, AtaAlways, PTL

=============================================================================
