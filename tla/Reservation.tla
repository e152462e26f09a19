------------------------------ MODULE Reservation ------------------------------
(***************************************************************************)
(* The shared disk as persistent_reserve/ uses it: the keys registered     *)
(* with it and the one registrant, if any, that holds its write-exclusive, *)
(* registrants-only reservation.  One operator per call of                 *)
(* struct persistent_reserve_device_class that writes to the disk.         *)
(*                                                                         *)
(* A node stands for its key: Design.md asks for unique keys.  The caller  *)
(* of an operation passes the outcome out it meets:                        *)
(*   "good"  the command took effect and the tool exited with 0,           *)
(*   "error" it had no effect and the tool exited with another status,     *)
(*   "lost"  it took effect, but the tool was not able to say so.          *)
(***************************************************************************)
CONSTANTS Node,   \* the cluster members, each standing for its key
          NoKey   \* the holder of a disk that is not reserved

ASSUME NoKeyAssumption == NoKey \notin Node

VARIABLES registered,   \* the keys registered with the disk
          holder        \* the key that holds the reservation, or NoKey

diskVars == <<registered, holder>>

Outcome == {"good", "error", "lost"}

DiskTypeOK == /\ registered \subseteq Node
              /\ holder \in registered \cup {NoKey}

DiskInit == /\ registered = {}
            /\ holder = NoKey

-----------------------------------------------------------------------------
(***************************************************************************)
(* What the disk grants.  A registrant obtains a free reservation, and     *)
(* repeats its own without harm; any other attempt is a conflict.  Any     *)
(* registrant may send a release, which frees nothing it does not hold.    *)
(***************************************************************************)
CanReserve(n) == n \in registered /\ holder \in {NoKey, n}

CanRelease(n) == n \in registered

\* Faulty variant: the release frees the reservation whoever holds it.
FreedByAnyone(n) == NoKey

FreedBy(n) == IF holder = n THEN NoKey ELSE holder

\* register-ignore: the key is registered whatever was registered before.
Register(n, out) ==
  /\ registered' = IF out = "error" THEN registered ELSE registered \cup {n}
  /\ UNCHANGED holder

\* Faulty variant: the key goes, the reservation stays.
UnregisterOnly(n, out) ==
  /\ registered' = IF out = "error" THEN registered ELSE registered \ {n}
  /\ UNCHANGED holder

\* The registrant that unregisters gives its reservation up with its key.
Unregister(n, out) ==
  IF out = "error" THEN UNCHANGED diskVars
  ELSE /\ registered' = registered \ {n}
       /\ holder' = FreedBy(n)

Reserve(n, out) ==
  /\ out # "error" => CanReserve(n)
  /\ holder' = IF out = "error" THEN holder ELSE n
  /\ UNCHANGED registered

Release(n, out) ==
  /\ out # "error" => CanRelease(n)
  /\ holder' = IF out = "error" THEN holder ELSE FreedBy(n)
  /\ UNCHANGED registered

\* What the disk answers to a command that meets no fault.
Expected(granted) == IF granted THEN "good" ELSE "error"
================================================================================
