-------------------------------- MODULE Disk --------------------------------
(***************************************************************************)
(* What the callers of ata_read_sector and ata_write_sector (fat32.c and   *)
(* the shell) rely on: a call that returns 0 has moved exactly the sector  *)
(* asked for, a call that returns -1 has at most written that sector.      *)
(* `sound' is FALSE when nothing can be promised: a disk outlasted a       *)
(* timeout of the driver, or there is no disk behind the drive number.     *)
(***************************************************************************)
EXTENDS Integers

CONSTANTS Slots, Addresses, Data, None, Error

VARIABLES store, req, ret, sound

vars == <<store, req, ret, sound>>

Requests == [fn : {"read", "write"}, slot : Slots, address : Addresses, data : Data]

Init ==
    /\ store \in [Slots -> [Addresses -> Data]]
    /\ req = None
    /\ ret = None
    /\ sound \in BOOLEAN

Begin ==
    /\ req = None
    /\ req' \in Requests
    /\ ret' = None
    /\ UNCHANGED store

\* The drive number is refused.
Refuse ==
    /\ req = None /\ req' = None
    /\ ret' = Error
    /\ UNCHANGED <<store, sound>>

\* The sector reaches the disk.
Perform ==
    /\ req # None /\ req.fn = "write"
    /\ store' = [store EXCEPT ![req.slot][req.address] = req.data]
    /\ UNCHANGED <<req, ret, sound>>

ReturnOk ==
    /\ req # None
    /\ ret' = store[req.slot][req.address]
    /\ req.fn = "write" => ret' = req.data
    /\ req' = None
    /\ UNCHANGED <<store, sound>>

\* After an error the disk may still be at work on the call.
ReturnError ==
    /\ req # None
    /\ ret' = Error
    /\ req' = None
    /\ UNCHANGED store

Fault ==
    /\ ~sound'
    /\ UNCHANGED <<store, req, ret>>

Next ==
    \/ Begin \/ Refuse \/ Perform \/ ReturnOk \/ ReturnError
    \/ Fault
    \/ ~sound

Spec == Init /\ [][Next]_vars

=============================================================================
