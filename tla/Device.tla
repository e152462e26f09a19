--------------------------------- MODULE Device --------------------------------
(***************************************************************************)
(* One host and the disk: the daemon, a qdisktool run beside it, the key   *)
(* file they share, and what persistent_reserve/ makes of the disk's       *)
(* answers.  Qdisk reads the disk once in a heartbeat, lets a node stand   *)
(* for its key and knows no key file; here every command of a heartbeat    *)
(* and every access to the file is a step of its own, and a registration   *)
(* may be one of an earlier life, under another key.                       *)
(*                                                                         *)
(* The other hosts are what this one can see of them: they hold the        *)
(* reservation or not, under OtherKey, and may abort it.  Keys are unique  *)
(* to a host, as Design.md asks.  The states of the tiebreaker that never  *)
(* hold the reservation are one, "idle".                                   *)
(***************************************************************************)
EXTENDS Integers

CONSTANTS Key,       \* the keys this host may use
          HostKey,   \* the one generated from its name
          OtherKey,  \* any key of another host
          Zero,      \* key 0: no key was read
          NoKey,     \* no registration, no reservation
          Kinds,     \* the kinds of disk
          MaxFaults, \* bound on failed commands, failed file accesses and crashes
          MaxChanges \* bound on runs of qdisktool and on what other hosts do

ASSUME KeyAssumption ==
  /\ HostKey \in Key
  /\ {OtherKey, Zero, NoKey} \cap Key = {}
  /\ OtherKey # Zero /\ OtherKey # NoKey /\ Zero # NoKey
  /\ "none" \notin Key /\ "empty" \notin Key /\ "bad" \notin Key
ASSUME KindAssumption == Kinds \subseteq {"nvme", "scsi"}
ASSUME BoundAssumption == MaxFaults \in Nat /\ MaxChanges \in Nat

VARIABLES kind,    \* "scsi" or "nvme": which of the two implementations is in use
          file,    \* the key file: missing, empty, without a number, or a key
          disk,    \* the key of this host's registration; who holds the reservation
          daemon,  \* step and key of the daemon
          tool,    \* step and key of the qdisktool run
          state,   \* the daemon's tiebreaker state
          saw,     \* the reservation holder's key, as this heartbeat read it
          seen,    \* history: the keys that held it since the heartbeat began
          faults,  \* faults so far
          changes  \* commands and other hosts' steps so far

vars == <<kind, file, disk, daemon, tool, state, saw, seen, faults, changes>>
beatVars == <<state, saw>>

Mine == Key \cup {Zero, NoKey}

HolderKeys == Mine \cup {OtherKey}

\* persistent_reserve_device_new, which both processes go through ...
Opening == {"down", "access", "create", "write", "read", "probe"}

\* ... algorithm_init, algorithm_run and algorithm_stop.
Beat == {"owner", "yield", "keys", "act"}
InService == daemon.pc \in Beat \cup {"sleep"}
DaemonPC == Opening \cup Beat \cup
            {"leftover", "clean", "giveup", "register", "share", "sleep", "stop", "unregister"}

TypeOK ==
  /\ kind \in Kinds
  /\ file \in {"none", "empty", "bad"} \cup Key
  /\ disk \in [mine : Mine, holder : {"none", "me", "other"}]
  /\ disk.holder = "me" => disk.mine # NoKey
  /\ daemon \in [pc : DaemonPC, key : Key \cup {Zero}]
  /\ tool \in [pc : Opening \cup {"command"}, key : Key \cup {Zero}]
  /\ state \in {"idle", "reserve", "have", "release"}
  /\ saw \in HolderKeys
  /\ seen \subseteq HolderKeys
  /\ faults \in 0..MaxFaults
  /\ changes \in 0..MaxChanges

Down == [pc |-> "down", key |-> Zero]

\* Earlier lives left a file and a registration, and may have left a reservation.
Init ==
  /\ kind \in Kinds
  /\ file \in {"none", "bad"} \cup Key
  /\ disk \in [mine : Mine, holder : {"none", "me", "other"}]
  /\ disk.mine = Zero => kind = "nvme"
  /\ disk.holder = "me" => disk.mine # NoKey
  /\ daemon = Down /\ tool = Down
  /\ state = "idle" /\ saw = NoKey /\ seen = {}
  /\ faults = 0 /\ changes = 0

-----------------------------------------------------------------------------
NoFault == UNCHANGED faults
Fault == faults < MaxFaults /\ faults' = faults + 1
Change == changes < MaxChanges /\ changes' = changes + 1

DaemonGoes(pc) == daemon' = [daemon EXCEPT !.pc = pc]

-----------------------------------------------------------------------------
(* The disk.                                                               *)

\* The key under which the reservation is held.
HolderKey == IF disk.holder = "none" THEN NoKey
             ELSE IF disk.holder = "me" THEN disk.mine ELSE OtherKey

\* The history of a heartbeat starts with its first read.
Watched ==
  IF daemon'.pc \in Beat
    THEN {HolderKey, HolderKey'} \cup (IF daemon.pc \in Beat THEN seen ELSE {})
    ELSE {}

\* Part of every step.
Watch == seen' = Watched /\ UNCHANGED kind

\* A command the disk grants or refuses.  A fault hides its effect from the caller.
Command(granted, result, ok) ==
  \/ granted /\ disk' = result /\ ok /\ NoFault
  \/ ~ granted /\ disk' = disk /\ ~ ok /\ NoFault
  \/ Fault /\ ~ ok /\ disk' = disk
  \/ Fault /\ ~ ok /\ granted /\ disk' = result

Unregistered ==
  [mine |-> NoKey, holder |-> IF disk.holder = "me" THEN "none" ELSE disk.holder]

\* SCSI registers over any key; NVMe conflicts with another.  Key 0 removes a SCSI
\* registration, and may or may not be taken by an NVMe disk.
register_key(k, ok) ==
  \/ Command(kind = "scsi" \/ disk.mine \in {NoKey, k},
             IF kind = "scsi" /\ k = Zero THEN Unregistered ELSE [disk EXCEPT !.mine = k], ok)
  \/ kind = "nvme" /\ k = Zero /\ disk' = disk /\ ~ ok /\ NoFault

unregister_key(k, ok) == Command(disk.mine = k, Unregistered, ok)

reserve(k, ok) ==
  Command(disk.mine = k /\ disk.holder # "other", [disk EXCEPT !.holder = "me"], ok)

release(k, ok) ==
  Command(disk.mine = k,
          [disk EXCEPT !.holder = IF @ = "me" THEN "none" ELSE @], ok)

\* SCSI preempts the holder and releases; NVMe clears every registration with it.
abort(k, ok) ==
  Command(disk.mine = k /\ (kind = "scsi" => disk.holder # "none"),
          [mine |-> IF kind = "nvme" THEN NoKey ELSE disk.mine, holder |-> "none"], ok)

\* is_reserved: a failed read is negative for SCSI and positive, "reserved", for NVMe.
is_reserved(answer) ==
  \/ answer = (IF disk.holder = "none" THEN "free" ELSE "reserved") /\ NoFault
  \/ answer = (IF kind = "scsi" THEN "failed" ELSE "reserved") /\ Fault

\* The key of the holder.  Neither an error nor "not reserved" gives a key.
owner_key(key) ==
  \/ key = HolderKey /\ NoFault
  \/ key = NoKey /\ Fault

\* This host's part of the list of registered keys.
RegisteredKeys == {disk.mine} \ {NoKey}

-----------------------------------------------------------------------------
(* persistent_reserve_device_new: the daemon and the tool take the same    *)
(* steps; p is the process before a step, q after it.                      *)

access(p, q) ==
  /\ p.pc = "access"
  /\ q = [p EXCEPT !.pc = IF file = "none" THEN "create" ELSE "read"]
  /\ UNCHANGED file /\ NoFault

\* fopen(.., "w") empties the file, whatever another process wrote meanwhile.  Its
\* failure is not looked at: the key stays 0.
create(p, q) ==
  /\ p.pc = "create"
  /\ \/ q = [p EXCEPT !.pc = "write"] /\ file' = "empty" /\ NoFault
     \/ q = [p EXCEPT !.pc = "probe"] /\ UNCHANGED file /\ Fault

\* Faulty variant: the key is used, but never written.
write_nothing(p, q) ==
  /\ p.pc = "write"
  /\ q = [pc |-> "probe", key |-> HostKey]
  /\ UNCHANGED file /\ NoFault

write(p, q) ==
  /\ p.pc = "write"
  /\ q = [pc |-> "probe", key |-> HostKey]
  /\ \/ file' = HostKey /\ NoFault
     \/ UNCHANGED file /\ Fault

\* Faulty variant: whatever the file holds is the key.
read_raw(p, q) ==
  /\ p.pc = "read"
  /\ q = [pc |-> "probe", key |-> file]
  /\ UNCHANGED file /\ NoFault

\* An empty file ends the process; one without a number leaves the key 0.
read(p, q) ==
  /\ p.pc = "read"
  /\ \/ file \in Key /\ q = [pc |-> "probe", key |-> file] /\ NoFault
     \/ file = "bad" /\ q = [pc |-> "probe", key |-> Zero] /\ NoFault
     \/ file = "empty" /\ q = Down /\ NoFault
     \/ q = Down /\ Fault
  /\ UNCHANGED file

\* The disk must answer the probes of its kind.
probe(p, q, next) ==
  /\ p.pc = "probe"
  /\ \/ q = [p EXCEPT !.pc = next] /\ NoFault
     \/ q = Down /\ Fault
  /\ UNCHANGED file

device_new(p, q, next) ==
  access(p, q) \/ create(p, q) \/ write(p, q) \/ read(p, q) \/ probe(p, q, next)

OpenDevice ==
  /\ device_new(daemon, daemon', "leftover")
  /\ UNCHANGED <<disk, tool, beatVars, changes>> /\ Watch

-----------------------------------------------------------------------------
(* algorithm_init, from the open device on (the keys it validates and      *)
(* shares are in Qdisk and VQuorum).                                       *)
OnlyDaemon == UNCHANGED <<file, tool, changes>> /\ Watch

StartDaemon ==
  /\ daemon.pc = "down"
  /\ daemon' = [Down EXCEPT !.pc = "access"]
  /\ state' = "idle" /\ saw' = NoKey
  /\ UNCHANGED <<disk, faults>> /\ OnlyDaemon

FindLeftover ==
  /\ daemon.pc = "leftover"
  /\ \E answer \in {"free", "reserved", "failed"} :
       /\ is_reserved(answer)
       /\ DaemonGoes(IF answer = "reserved" THEN "clean" ELSE "register")
  /\ UNCHANGED <<disk, beatVars>> /\ OnlyDaemon

\* Only a reservation under the daemon's present key is taken for its own.
CheckLeftover ==
  /\ daemon.pc = "clean"
  /\ \E key \in HolderKeys :
       /\ owner_key(key)
       /\ \/ key = daemon.key /\ DaemonGoes("giveup")
          \/ key # daemon.key /\ key = Zero /\ daemon' = Down
          \/ key \notin {daemon.key, Zero} /\ DaemonGoes("register")
  /\ UNCHANGED <<disk, beatVars>> /\ OnlyDaemon

GiveUpLeftover ==
  /\ daemon.pc = "giveup"
  /\ \E ok \in BOOLEAN : release(daemon.key, ok)
  /\ IF daemon.key = Zero THEN daemon' = Down ELSE DaemonGoes("register")
  /\ UNCHANGED beatVars /\ OnlyDaemon

RegisterKey ==
  /\ daemon.pc = "register"
  /\ \E ok \in BOOLEAN :
       /\ register_key(daemon.key, ok)
       /\ IF ok THEN DaemonGoes("share") ELSE daemon' = Down
  /\ UNCHANGED beatVars /\ OnlyDaemon

ShareKey ==
  /\ daemon.pc = "share"
  /\ \/ DaemonGoes("sleep") /\ NoFault /\ UNCHANGED disk
     \/ /\ daemon' = Down /\ Fault
        /\ disk' = IF disk.mine = daemon.key THEN Unregistered ELSE disk
  /\ UNCHANGED beatVars /\ OnlyDaemon

algorithm_init ==
  OpenDevice \/ FindLeftover \/ CheckLeftover \/ GiveUpLeftover \/ RegisterKey \/ ShareKey

-----------------------------------------------------------------------------
(* algorithm_run.  A heartbeat that is skipped goes back to "sleep".       *)

\* Faulty variant: a failed read counts as a free disk.
CheckReservedCarelessly ==
  /\ daemon.pc = "sleep"
  /\ \E answer \in {"free", "reserved", "failed"} :
       /\ is_reserved(answer)
       /\ DaemonGoes(IF answer = "reserved" THEN "owner" ELSE "keys")
  /\ saw' = NoKey
  /\ UNCHANGED <<disk, state>> /\ OnlyDaemon

CheckReserved ==
  /\ daemon.pc = "sleep"
  /\ \/ is_reserved("free") /\ DaemonGoes("keys")
     \/ is_reserved("reserved") /\ DaemonGoes("owner")
     \/ is_reserved("failed") /\ DaemonGoes("sleep")
  /\ saw' = NoKey
  /\ UNCHANGED <<disk, state>> /\ OnlyDaemon

\* Faulty variant: a reservation nobody asked for is kept.
ReadOwnerKeeps ==
  /\ daemon.pc = "owner"
  /\ \E key \in HolderKeys :
       /\ owner_key(key)
       /\ \/ key = NoKey /\ DaemonGoes("sleep") /\ UNCHANGED saw
          \/ key = Zero /\ DaemonGoes("stop") /\ UNCHANGED saw
          \/ key \notin {NoKey, Zero} /\ DaemonGoes("keys") /\ saw' = key
  /\ UNCHANGED <<disk, state>> /\ OnlyDaemon

\* Held in a state that never holds it.
Unexpected(key) == state = "idle" /\ key = daemon.key

\* The holder is read again, and may have let go since.  Key 0 ends the daemon; a
\* reservation it should not hold is given back.
ReadOwner ==
  /\ daemon.pc = "owner"
  /\ \E key \in HolderKeys :
       /\ owner_key(key)
       /\ \/ key = NoKey /\ DaemonGoes("sleep") /\ UNCHANGED saw
          \/ key = Zero /\ DaemonGoes("stop") /\ UNCHANGED saw
          \/ key \notin {NoKey, Zero} /\ Unexpected(key) /\ DaemonGoes("yield") /\ UNCHANGED saw
          \/ key \notin {NoKey, Zero} /\ ~ Unexpected(key) /\ DaemonGoes("keys") /\ saw' = key
  /\ UNCHANGED <<disk, state>> /\ OnlyDaemon

ReleaseUnexpected ==
  /\ daemon.pc = "yield"
  /\ \E ok \in BOOLEAN : release(daemon.key, ok)
  /\ DaemonGoes("sleep")
  /\ UNCHANGED beatVars /\ OnlyDaemon

\* Faulty variant: the list is read, but nothing looks for the key.
CheckKeysBlindly ==
  /\ daemon.pc = "keys"
  /\ \/ DaemonGoes("act") /\ NoFault
     \/ DaemonGoes("sleep") /\ Fault
  /\ UNCHANGED <<disk, beatVars>> /\ OnlyDaemon

CheckKeys ==
  /\ daemon.pc = "keys"
  /\ \/ daemon.key \in RegisteredKeys /\ DaemonGoes("act") /\ NoFault
     \/ daemon.key \notin RegisteredKeys /\ DaemonGoes("stop") /\ NoFault
     \/ DaemonGoes("sleep") /\ Fault
  /\ UNCHANGED <<disk, beatVars>> /\ OnlyDaemon

To(s) == state' = s /\ DaemonGoes("sleep")

ActIdle ==
  /\ state = "idle"
  /\ \/ To("idle")
     \/ saw = NoKey /\ To("reserve")
  /\ UNCHANGED disk /\ NoFault

ActReserve ==
  /\ state = "reserve"
  /\ \E ok \in BOOLEAN :
       /\ reserve(daemon.key, ok)
       /\ \/ ok /\ To("have")
          \/ ~ ok /\ To("idle")
          \/ ~ ok /\ saw = NoKey /\ To("reserve")

ActHave ==
  /\ state = "have"
  /\ \/ saw = daemon.key /\ (To("have") \/ To("release"))
     \/ saw # daemon.key /\ daemon' = Down /\ UNCHANGED state
  /\ UNCHANGED disk /\ NoFault

ActRelease ==
  /\ state = "release"
  /\ \E ok \in BOOLEAN :
       /\ release(daemon.key, ok)
       /\ \/ (ok \/ disk'.holder = "none") /\ To("idle")
          \/ ~ ok /\ To("release")

Act ==
  /\ daemon.pc = "act"
  /\ ActIdle \/ ActReserve \/ ActHave \/ ActRelease
  /\ UNCHANGED saw /\ OnlyDaemon

algorithm_run == CheckReserved \/ ReadOwner \/ ReleaseUnexpected \/ CheckKeys \/ Act

-----------------------------------------------------------------------------
(* The end of the daemon.                                                  *)

\* A signal, or too many heartbeats skipped.
LeaveLoop ==
  /\ daemon.pc = "sleep"
  /\ DaemonGoes("stop")
  /\ Fault
  /\ UNCHANGED <<disk, beatVars>> /\ OnlyDaemon

StopReleases ==
  /\ daemon.pc = "stop"
  /\ \E ok \in BOOLEAN : release(daemon.key, ok)
  /\ DaemonGoes("unregister")
  /\ UNCHANGED beatVars /\ OnlyDaemon

StopUnregisters ==
  /\ daemon.pc = "unregister"
  /\ \E ok \in BOOLEAN : unregister_key(daemon.key, ok)
  /\ daemon' = Down
  /\ UNCHANGED beatVars /\ OnlyDaemon

algorithm_stop == StopReleases \/ StopUnregisters

Crash ==
  /\ \/ daemon.pc # "down" /\ daemon' = Down /\ UNCHANGED tool
     \/ tool.pc # "down" /\ tool' = Down /\ UNCHANGED daemon
  /\ Fault
  /\ UNCHANGED <<file, disk, beatVars, changes>> /\ Watch

DaemonStep == algorithm_init \/ algorithm_run \/ algorithm_stop

-----------------------------------------------------------------------------
(* qdisktool on this host, and the other hosts.                            *)

\* The key comes from the environment or from the key file.
StartTool ==
  /\ tool.pc = "down"
  /\ \/ tool' = [Down EXCEPT !.pc = "access"]
     \/ \E k \in Key : tool' = [pc |-> "probe", key |-> k]
  /\ Change
  /\ UNCHANGED <<file, disk, daemon, beatVars, faults>> /\ Watch

ToolOpens ==
  /\ device_new(tool, tool', "command")
  /\ UNCHANGED <<disk, daemon, beatVars, changes>> /\ Watch

ToolCommand ==
  /\ tool.pc = "command"
  /\ \E ok \in BOOLEAN :
       \/ register_key(tool.key, ok) \/ unregister_key(tool.key, ok)
       \/ reserve(tool.key, ok) \/ release(tool.key, ok) \/ abort(tool.key, ok)
  /\ tool' = Down
  /\ UNCHANGED <<file, daemon, beatVars, changes>> /\ Watch

\* Another host reserves, releases, or takes the reservation by an abort, with
\* which this host loses its registration: always for NVMe, as holder for SCSI.
OtherHost ==
  /\ \/ disk.holder = "none" /\ disk' = [disk EXCEPT !.holder = "other"]
     \/ disk.holder = "other" /\ disk' = [disk EXCEPT !.holder = "none"]
     \/ kind = "scsi" /\ disk.holder = "me" /\ disk' = [mine |-> NoKey, holder |-> "other"]
     \/ kind = "nvme" /\ disk' = [mine |-> NoKey, holder |-> "none"]
  /\ Change
  /\ UNCHANGED <<file, daemon, tool, beatVars, faults>> /\ Watch

-----------------------------------------------------------------------------
Next ==
  \/ StartDaemon \/ DaemonStep \/ LeaveLoop \/ Crash
  \/ StartTool \/ ToolOpens \/ ToolCommand \/ OtherHost

Spec == Init /\ [][Next]_vars

\* timer_cb re-arms itself first, so a daemon that runs goes on; nothing makes one
\* start, and systemd does not restart one that stopped by itself.
FairSpec == Spec /\ WF_vars(DaemonStep)

-----------------------------------------------------------------------------
(* Properties.                                                             *)

\* The heartbeat reads the disk in several commands while other hosts write to it,
\* and a failed read looks like a free disk to one kind and like a reserved one to
\* the other.  What it acts on is still a holder the disk had since the heartbeat
\* began: Qdisk may read the holder in one step.
HeartbeatSawTheDisk == daemon.pc \in {"keys", "act"} => saw \in seen

\* A key file without a number, or one that cannot be created, leaves the key 0 and
\* nobody looks at the result.  A SCSI disk takes the registration of key 0 and removes
\* the one there was; the first heartbeat then stops the daemon before it can act.
ZeroNeverActs == kind = "scsi" /\ daemon.pc = "act" => daemon.key # Zero

\* Two processes may both find the key file missing and both create it.  The second
\* empties what the first wrote, but without a fault it is not left without a key.
KeyFileIsRewritten ==
  file = "empty" /\ faults = 0 => daemon.pc = "write" \/ tool.pc = "write"

\* Whatever key an earlier life or a run of qdisktool registered, a daemon that
\* stays in service ends up registered under the key it shares with the others.
ServesUnderItsKey ==
  <>[] InService => <>[](disk.mine = daemon.key)

\* A reservation of an earlier life, perhaps under another key, one made by qdisktool,
\* or one whose reply was lost is given back by a daemon that does not use it.
UnusedReservationReleased ==
  <>[](InService /\ state = "idle") => <>[](disk.holder # "me")
================================================================================
