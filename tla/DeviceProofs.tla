------------------------------ MODULE DeviceProofs -----------------------------
(***************************************************************************)
(* Proofs about Device.  Each invariant is inductive beside the type       *)
(* invariant; the one about key 0 needs to know that a SCSI disk never     *)
(* keeps a registration of it.                                             *)
(***************************************************************************)
EXTENDS Device, TLAPS

DiskType == /\ disk \in [mine : Mine, holder : {"none", "me", "other"}]
            /\ disk.holder = "me" => disk.mine # NoKey

\* Key 0 removes a SCSI registration instead of making one.
NoScsiZero == kind = "scsi" => disk.mine # Zero

DiskInv == DiskType /\ NoScsiZero

IInv == /\ TypeOK /\ NoScsiZero
        /\ HeartbeatSawTheDisk /\ ZeroNeverActs /\ KeyFileIsRewritten

-----------------------------------------------------------------------------
(* The commands.                                                           *)

\* A fault is counted within its bound, and nothing takes the count back to 0.
LEMMA FaultsCounted ==
  ASSUME faults \in 0..MaxFaults, NoFault \/ Fault
  PROVE  faults' \in 0..MaxFaults /\ (faults' = 0 => faults = 0 /\ NoFault)
BY BoundAssumption DEF NoFault, Fault

LEMMA ChangesCounted ==
  ASSUME changes \in 0..MaxChanges, Change
  PROVE  changes' \in 0..MaxChanges
BY BoundAssumption DEF Change

\* Whatever becomes of a command, it leaves a disk in order and counts its fault.
LEMMA UnregisteredType ==
  ASSUME DiskType
  PROVE  /\ Unregistered \in [mine : Mine, holder : {"none", "me", "other"}]
         /\ Unregistered.mine = NoKey /\ Unregistered.holder # "me"
BY DEF Unregistered, DiskType, Mine

LEMMA RegisterKeeps ==
  ASSUME DiskInv, kind' = kind, NEW k \in Key \cup {Zero}, NEW ok \in BOOLEAN,
         register_key(k, ok)
  PROVE  DiskInv' /\ (NoFault \/ Fault)
<1>1. CASE disk' = disk
  BY <1>1 DEF DiskInv, DiskType, NoScsiZero, register_key, Command
<1>2. CASE disk' = Unregistered
  BY <1>2, UnregisteredType, KeyAssumption
     DEF DiskInv, DiskType, NoScsiZero, register_key, Command
<1>3. CASE disk' = [disk EXCEPT !.mine = k] /\ ~ (kind = "scsi" /\ k = Zero)
  BY <1>3, KeyAssumption DEF DiskInv, DiskType, NoScsiZero, register_key, Command, Mine
<1> QED BY <1>1, <1>2, <1>3 DEF register_key, Command

LEMMA UnregisterKeeps ==
  ASSUME DiskInv, kind' = kind, NEW k \in Key \cup {Zero}, NEW ok \in BOOLEAN,
         unregister_key(k, ok)
  PROVE  DiskInv' /\ (NoFault \/ Fault)
<1>1. CASE disk' = disk
  BY <1>1 DEF DiskInv, DiskType, NoScsiZero, unregister_key, Command
<1>2. CASE disk' = Unregistered
  BY <1>2, UnregisteredType, KeyAssumption
     DEF DiskInv, DiskType, NoScsiZero, unregister_key, Command
<1> QED BY <1>1, <1>2 DEF unregister_key, Command

LEMMA ReserveKeeps ==
  ASSUME DiskInv, kind' = kind, NEW k \in Key \cup {Zero}, NEW ok \in BOOLEAN,
         reserve(k, ok)
  PROVE  DiskInv' /\ (NoFault \/ Fault)
<1>1. CASE disk' = disk
  BY <1>1 DEF DiskInv, DiskType, NoScsiZero, reserve, Command
<1>2. CASE disk.mine = k /\ disk' = [disk EXCEPT !.holder = "me"]
  BY <1>2, KeyAssumption DEF DiskInv, DiskType, NoScsiZero, reserve, Command, Mine
<1> QED BY <1>1, <1>2 DEF reserve, Command

LEMMA ReleaseKeeps ==
  ASSUME DiskInv, kind' = kind, NEW k \in Key \cup {Zero}, NEW ok \in BOOLEAN,
         release(k, ok)
  PROVE  DiskInv' /\ (NoFault \/ Fault)
BY DEF DiskInv, DiskType, NoScsiZero, release, Command

LEMMA AbortKeeps ==
  ASSUME DiskInv, kind' = kind, NEW k \in Key \cup {Zero}, NEW ok \in BOOLEAN,
         abort(k, ok)
  PROVE  DiskInv' /\ (NoFault \/ Fault)
BY KeyAssumption DEF DiskInv, DiskType, NoScsiZero, abort, Command, Mine

\* The holder's key, and so the history of a heartbeat, is of the right kind; it has
\* the holder of this step and keeps what it had.
LEMMA WatchKeeps ==
  ASSUME DiskType, DiskType', seen \subseteq HolderKeys, Watch
  PROVE  /\ HolderKey \in HolderKeys
         /\ seen' \subseteq HolderKeys
         /\ daemon'.pc \in Beat => HolderKey \in seen'
         /\ daemon'.pc \in Beat /\ daemon.pc \in Beat => seen \subseteq seen'
<1>1. HolderKey \in HolderKeys /\ HolderKey' \in HolderKeys
  BY DEF DiskType, HolderKey, HolderKeys, Mine
<1> QED BY <1>1 DEF Watch, Watched

-----------------------------------------------------------------------------
(* persistent_reserve_device_new.                                          *)

\* Of either process: what it is afterwards, and that an empty file without a fault
\* has its writer.
LEMMA DeviceNewKeeps ==
  ASSUME NEW next, NEW p \in [pc : DaemonPC \cup {"command"}, key : Key \cup {Zero}], NEW q,
         file \in {"none", "empty", "bad"} \cup Key,
         faults \in 0..MaxFaults, device_new(p, q, next)
  PROVE  /\ q \in [pc : Opening \cup {next}, key : Key \cup {Zero}]
         /\ file' \in {"none", "empty", "bad"} \cup Key
         /\ NoFault \/ Fault
         /\ file' = "empty" /\ faults' = 0 =>
              q.pc = "write" \/ (file = "empty" /\ p.pc # "write")
<1>1. CASE access(p, q)
  BY <1>1, KeyAssumption DEF access, Opening, NoFault
<1>2. CASE create(p, q)
  BY <1>2, KeyAssumption, FaultsCounted DEF create, Opening, NoFault
<1>3. CASE write(p, q)
  <2>1. q = [pc |-> "probe", key |-> HostKey] /\ p.pc = "write"
    BY <1>3 DEF write
  <2>2. q \in [pc : Opening \cup {next}, key : Key \cup {Zero}]
    BY <2>1, KeyAssumption DEF Opening
  <2>3. file' = HostKey \/ (file' = file /\ Fault)
    BY <1>3 DEF write
  <2>4. NoFault \/ Fault
    BY <1>3 DEF write
  <2>5. file' = HostKey \/ faults' # 0
    BY <2>3, BoundAssumption DEF Fault
  <2> QED BY <2>2, <2>3, <2>4, <2>5, KeyAssumption
<1>4. CASE read(p, q)
  BY <1>4, KeyAssumption DEF read, Opening, NoFault, Down
<1>5. CASE probe(p, q, next)
  BY <1>5, KeyAssumption DEF probe, Opening, NoFault, Down
<1> QED BY <1>1, <1>2, <1>3, <1>4, <1>5 DEF device_new

-----------------------------------------------------------------------------
(* The steps.                                                              *)

\* What a step of the daemon between two disk commands must leave: types, ...
DaemonType == /\ daemon \in [pc : DaemonPC, key : Key \cup {Zero}]
              /\ state \in {"idle", "reserve", "have", "release"}
              /\ saw \in HolderKeys

\* ... what a heartbeat has read, and a key it may act with.
BeatInv == HeartbeatSawTheDisk /\ ZeroNeverActs

\* A step that leaves the file and the tool alone.
LEMMA OnlyDaemonKeeps ==
  ASSUME IInv, OnlyDaemon, NoFault \/ Fault, DiskInv', DaemonType', BeatInv',
         daemon'.pc = "write" <=> daemon.pc = "write"
  PROVE  IInv'
<1>1. seen' \subseteq HolderKeys
  BY WatchKeeps DEF IInv, TypeOK, OnlyDaemon, DiskInv, DiskType
<1>2. faults' \in 0..MaxFaults /\ (faults' = 0 => faults = 0)
  BY FaultsCounted DEF IInv, TypeOK
<1>3. TypeOK'
  BY <1>1, <1>2 DEF IInv, TypeOK, OnlyDaemon, Watch, DiskInv, DiskType, DaemonType
<1>4. KeyFileIsRewritten'
  BY <1>2 DEF IInv, KeyFileIsRewritten, OnlyDaemon
<1> QED BY <1>3, <1>4 DEF IInv, BeatInv, DiskInv

LEMMA IInvDisk ==
  ASSUME IInv
  PROVE  DiskInv /\ DaemonType /\ BeatInv /\ daemon.key \in Key \cup {Zero}
BY DEF IInv, TypeOK, DiskInv, DiskType, DaemonType, BeatInv

\* A disk that stays as it is stays in order.
LEMMA DiskStays ==
  ASSUME DiskInv, disk' = disk, kind' = kind
  PROVE  DiskInv'
BY DEF DiskInv, DiskType, NoScsiZero

\* Outside "keys" and "act" nothing is claimed of a heartbeat.
LEMMA BeatFree ==
  ASSUME daemon'.pc \notin {"keys", "act"}
  PROVE  BeatInv'
BY DEF BeatInv, HeartbeatSawTheDisk, ZeroNeverActs

LEMMA InitStep == Init => IInv
BY KeyAssumption, BoundAssumption
   DEF Init, IInv, TypeOK, NoScsiZero, HeartbeatSawTheDisk, ZeroNeverActs, KeyFileIsRewritten,
       Down, DaemonPC, Opening, Mine, HolderKeys

LEMMA InitialisationKeeps ==
  ASSUME IInv, StartDaemon \/ FindLeftover \/ CheckLeftover \/ GiveUpLeftover
                 \/ RegisterKey \/ ShareKey
  PROVE  IInv'
<1> USE IInvDisk
<1>1. CASE StartDaemon
  <2>1. /\ DaemonType' /\ daemon'.pc = "access" /\ daemon.pc = "down"
        /\ disk' = disk /\ kind' = kind /\ NoFault /\ OnlyDaemon
    BY <1>1 DEF StartDaemon, DaemonType, Down, DaemonPC, Opening, HolderKeys, Mine, NoFault,
                OnlyDaemon, Watch
  <2> QED BY <2>1, DiskStays, BeatFree, OnlyDaemonKeeps
<1>2. CASE FindLeftover
  <2>1. /\ DaemonType' /\ daemon'.pc \in {"clean", "register"} /\ daemon.pc = "leftover"
        /\ disk' = disk /\ kind' = kind /\ (NoFault \/ Fault) /\ OnlyDaemon
    BY <1>2 DEF FindLeftover, DaemonType, DaemonPC, DaemonGoes, is_reserved, OnlyDaemon, Watch,
                beatVars
  <2> QED BY <2>1, DiskStays, BeatFree, OnlyDaemonKeeps
<1>3. CASE CheckLeftover
  <2>1. /\ DaemonType' /\ daemon'.pc \in {"giveup", "register", "down"} /\ daemon.pc = "clean"
        /\ disk' = disk /\ kind' = kind /\ (NoFault \/ Fault) /\ OnlyDaemon
    BY <1>3 DEF CheckLeftover, owner_key, DaemonType, DaemonPC, Opening, Down, DaemonGoes, OnlyDaemon,
                Watch, beatVars
  <2> QED BY <2>1, DiskStays, BeatFree, OnlyDaemonKeeps
<1>4. CASE GiveUpLeftover
  <2>1. /\ DaemonType' /\ daemon'.pc \in {"register", "down"} /\ daemon.pc = "giveup"
        /\ kind' = kind /\ OnlyDaemon
    BY <1>4 DEF GiveUpLeftover, DaemonType, DaemonPC, Opening, Down, DaemonGoes, OnlyDaemon,
                Watch, beatVars
  <2>2. DiskInv' /\ (NoFault \/ Fault)
    BY <1>4, <2>1, ReleaseKeeps DEF GiveUpLeftover
  <2> QED BY <2>1, <2>2, BeatFree, OnlyDaemonKeeps
<1>5. CASE RegisterKey
  <2>1. /\ DaemonType' /\ daemon'.pc \in {"share", "down"} /\ daemon.pc = "register"
        /\ kind' = kind /\ OnlyDaemon
    BY <1>5 DEF RegisterKey, DaemonType, DaemonPC, Opening, Down, DaemonGoes, OnlyDaemon,
                Watch, beatVars
  <2>2. DiskInv' /\ (NoFault \/ Fault)
    BY <1>5, <2>1, RegisterKeeps DEF RegisterKey
  <2> QED BY <2>1, <2>2, BeatFree, OnlyDaemonKeeps
<1>6. CASE ShareKey
  <2>1. /\ DaemonType' /\ daemon'.pc \in {"sleep", "down"} /\ daemon.pc = "share"
        /\ kind' = kind /\ (NoFault \/ Fault) /\ OnlyDaemon
        /\ disk' = disk \/ disk' = Unregistered
    BY <1>6 DEF ShareKey, DaemonType, DaemonPC, Opening, Down, DaemonGoes, OnlyDaemon,
                Watch, beatVars
  <2>2. CASE disk' = Unregistered
    <3>1. DiskInv'
      BY <2>2, UnregisteredType, KeyAssumption DEF DiskInv, DiskType, NoScsiZero
    <3> QED BY <2>1, <3>1, BeatFree, OnlyDaemonKeeps
  <2> QED BY <2>1, <2>2, DiskStays, BeatFree, OnlyDaemonKeeps
<1> QED BY <1>1, <1>2, <1>3, <1>4, <1>5, <1>6

\* The heartbeat: what is read is a holder seen, and the key found is not 0.
LEMMA HeartbeatKeeps ==
  ASSUME IInv, CheckReserved \/ ReadOwner \/ ReleaseUnexpected \/ CheckKeys \/ Act
  PROVE  IInv'
<1> USE IInvDisk
<1>0. seen \subseteq HolderKeys
  BY DEF IInv, TypeOK
<1>1. CASE CheckReserved
  <2>1. /\ DaemonType' /\ daemon'.pc \in {"keys", "owner", "sleep"} /\ daemon.pc = "sleep"
        /\ disk' = disk /\ kind' = kind /\ (NoFault \/ Fault) /\ OnlyDaemon /\ saw' = NoKey
        /\ daemon'.pc = "keys" => disk.holder = "none"
    BY <1>1 DEF CheckReserved, DaemonType, DaemonPC, Beat, DaemonGoes, is_reserved, OnlyDaemon,
                Watch, HolderKeys, Mine
  <2>2. DiskInv'
    BY <2>1, DiskStays
  <2>3. daemon'.pc = "keys" => saw' \in seen'
    BY <1>0, <2>1, <2>2, WatchKeeps DEF OnlyDaemon, Beat, HolderKey, DiskInv
  <2>4. BeatInv'
    BY <2>1, <2>3 DEF BeatInv, HeartbeatSawTheDisk, ZeroNeverActs
  <2> QED BY <2>1, <2>2, <2>4, OnlyDaemonKeeps
<1>2. CASE ReadOwner
  <2>1. /\ DaemonType' /\ daemon'.pc \in {"keys", "yield", "sleep", "stop"}
        /\ daemon.pc = "owner"
        /\ disk' = disk /\ kind' = kind /\ (NoFault \/ Fault) /\ OnlyDaemon
        /\ daemon'.pc = "keys" => saw' = HolderKey
    <3>1. PICK key \in HolderKeys :
            /\ owner_key(key)
            /\ \/ key = NoKey /\ DaemonGoes("sleep") /\ UNCHANGED saw
               \/ key = Zero /\ DaemonGoes("stop") /\ UNCHANGED saw
               \/ key \notin {NoKey, Zero} /\ DaemonGoes("yield") /\ UNCHANGED saw
               \/ key \notin {NoKey, Zero} /\ DaemonGoes("keys") /\ saw' = key
      BY <1>2 DEF ReadOwner
    <3>2. daemon.pc = "owner" /\ disk' = disk /\ state' = state /\ OnlyDaemon /\ kind' = kind
      BY <1>2 DEF ReadOwner, OnlyDaemon, Watch
    <3>3. saw' \in HolderKeys /\ state' \in {"idle", "reserve", "have", "release"}
      BY <3>1, <3>2 DEF DaemonType
    <3>4. /\ daemon' \in [pc : DaemonPC, key : Key \cup {Zero}]
          /\ daemon'.pc \in {"keys", "yield", "sleep", "stop"}
      BY <3>1 DEF DaemonType, DaemonGoes, DaemonPC, Beat
    <3>5. daemon'.pc = "keys" => saw' = HolderKey
      BY <3>1 DEF owner_key, DaemonGoes, DaemonType
    <3>6. NoFault \/ Fault
      BY <3>1 DEF owner_key
    <3> QED BY <3>2, <3>3, <3>4, <3>5, <3>6 DEF DaemonType
  <2>2. DiskInv'
    BY <2>1, DiskStays
  <2>3. daemon'.pc = "keys" => saw' \in seen'
    BY <1>0, <2>1, <2>2, WatchKeeps DEF OnlyDaemon, Beat, DiskInv
  <2>4. BeatInv'
    BY <2>1, <2>3 DEF BeatInv, HeartbeatSawTheDisk, ZeroNeverActs
  <2> QED BY <2>1, <2>2, <2>4, OnlyDaemonKeeps
<1>3. CASE ReleaseUnexpected
  <2>1. /\ DaemonType' /\ daemon'.pc = "sleep" /\ daemon.pc = "yield"
        /\ kind' = kind /\ OnlyDaemon
    BY <1>3 DEF ReleaseUnexpected, DaemonType, DaemonPC, Opening, DaemonGoes, OnlyDaemon,
                Watch, beatVars
  <2>2. DiskInv' /\ (NoFault \/ Fault)
    BY <1>3, <2>1, ReleaseKeeps DEF ReleaseUnexpected
  <2> QED BY <2>1, <2>2, BeatFree, OnlyDaemonKeeps
<1>4. CASE CheckKeys
  <2>1. /\ DaemonType' /\ daemon'.pc \in {"act", "stop", "sleep"} /\ daemon.pc = "keys"
        /\ disk' = disk /\ kind' = kind /\ (NoFault \/ Fault) /\ OnlyDaemon /\ saw' = saw
        /\ daemon'.pc = "act" => daemon'.key = disk.mine
    BY <1>4 DEF CheckKeys, RegisteredKeys, DaemonType, DaemonPC, Beat, DaemonGoes, OnlyDaemon, Watch, beatVars
  <2>2. DiskInv'
    BY <2>1, DiskStays
  <2>3. daemon'.pc = "act" => saw' \in seen'
    BY <1>0, <2>1, <2>2, WatchKeeps DEF OnlyDaemon, Beat, DiskInv, BeatInv, HeartbeatSawTheDisk
  <2>4. BeatInv'
    BY <2>1, <2>3 DEF BeatInv, HeartbeatSawTheDisk, ZeroNeverActs, DiskInv, NoScsiZero
  <2> QED BY <2>1, <2>2, <2>4, OnlyDaemonKeeps
<1>5. CASE Act
  <2>1. /\ DaemonType' /\ daemon'.pc \in {"sleep", "down"} /\ daemon.pc = "act"
        /\ kind' = kind /\ OnlyDaemon
    BY <1>5 DEF Act, ActIdle, ActReserve, ActHave, ActRelease, To, DaemonType, DaemonPC, Opening,
                Down, DaemonGoes, OnlyDaemon, Watch
  <2>2. DiskInv' /\ (NoFault \/ Fault)
    <3>1. CASE ActIdle \/ ActHave
      BY <2>1, <3>1, DiskStays DEF ActIdle, ActHave
    <3>2. CASE ActReserve
      BY <2>1, <3>2, ReserveKeeps DEF ActReserve
    <3>3. CASE ActRelease
      BY <2>1, <3>3, ReleaseKeeps DEF ActRelease
    <3> QED BY <1>5, <3>1, <3>2, <3>3 DEF Act
  <2> QED BY <2>1, <2>2, BeatFree, OnlyDaemonKeeps
<1> QED BY <1>1, <1>2, <1>3, <1>4, <1>5

LEMMA EndKeeps ==
  ASSUME IInv, LeaveLoop \/ StopReleases \/ StopUnregisters
  PROVE  IInv'
<1> USE IInvDisk
<1>1. CASE LeaveLoop
  <2>1. /\ DaemonType' /\ daemon'.pc = "stop" /\ daemon.pc = "sleep"
        /\ disk' = disk /\ kind' = kind /\ Fault /\ OnlyDaemon
    BY <1>1 DEF LeaveLoop, DaemonType, DaemonPC, DaemonGoes, OnlyDaemon, Watch, beatVars
  <2> QED BY <2>1, DiskStays, BeatFree, OnlyDaemonKeeps
<1>2. CASE StopReleases
  <2>1. /\ DaemonType' /\ daemon'.pc = "unregister" /\ daemon.pc = "stop"
        /\ kind' = kind /\ OnlyDaemon
    BY <1>2 DEF StopReleases, DaemonType, DaemonPC, DaemonGoes, OnlyDaemon, Watch, beatVars
  <2>2. DiskInv' /\ (NoFault \/ Fault)
    BY <1>2, <2>1, ReleaseKeeps DEF StopReleases
  <2> QED BY <2>1, <2>2, BeatFree, OnlyDaemonKeeps
<1>3. CASE StopUnregisters
  <2>1. /\ DaemonType' /\ daemon'.pc = "down" /\ daemon.pc = "unregister"
        /\ kind' = kind /\ OnlyDaemon
    BY <1>3 DEF StopUnregisters, DaemonType, DaemonPC, Opening, Down, OnlyDaemon, Watch, beatVars
  <2>2. DiskInv' /\ (NoFault \/ Fault)
    BY <1>3, <2>1, UnregisterKeeps DEF StopUnregisters
  <2> QED BY <2>1, <2>2, BeatFree, OnlyDaemonKeeps
<1> QED BY <1>1, <1>2, <1>3

-----------------------------------------------------------------------------
(* The steps that are not the daemon's own, and the opening of the device. *)

ToolType == tool \in [pc : Opening \cup {"command"}, key : Key \cup {Zero}]

\* A step after which the daemon has read and may do no more than before.
LEMMA OthersKeep ==
  ASSUME IInv, Watch, NoFault \/ Fault, UNCHANGED changes \/ Change, DiskInv',
         DaemonType', ToolType', file' \in {"none", "empty", "bad"} \cup Key,
         saw' = saw, daemon' = daemon \/ daemon'.pc \notin {"keys", "act"},
         KeyFileIsRewritten'
  PROVE  IInv'
<1> USE IInvDisk
<1>1. seen' \subseteq HolderKeys
  BY WatchKeeps DEF IInv, TypeOK, DiskInv
<1>2. TypeOK'
  BY <1>1, FaultsCounted, ChangesCounted
     DEF IInv, TypeOK, Watch, DiskInv, DiskType, DaemonType, ToolType
<1>3. BeatInv'
  <2>1. CASE daemon' = daemon /\ daemon.pc \in {"keys", "act"}
    BY <2>1, WatchKeeps
       DEF IInv, TypeOK, Beat, BeatInv, HeartbeatSawTheDisk, ZeroNeverActs, DiskInv, Watch
  <2> QED BY <2>1, BeatFree
<1> QED BY <1>2, <1>3 DEF IInv, BeatInv, DiskInv

LEMMA OpenDeviceKeeps ==
  ASSUME IInv, OpenDevice
  PROVE  IInv'
<1> USE IInvDisk
<1>1. device_new(daemon, daemon', "leftover") /\ Watch
      /\ UNCHANGED <<disk, tool, beatVars, changes>>
  BY DEF OpenDevice
<1>2. /\ daemon' \in [pc : Opening \cup {"leftover"}, key : Key \cup {Zero}]
      /\ file' \in {"none", "empty", "bad"} \cup Key
      /\ NoFault \/ Fault
      /\ file' = "empty" /\ faults' = 0 =>
           daemon'.pc = "write" \/ (file = "empty" /\ daemon.pc # "write")
  BY <1>1, DeviceNewKeeps DEF IInv, TypeOK
<1>3. DaemonType' /\ daemon'.pc \notin {"keys", "act"} /\ ToolType' /\ saw' = saw
  BY <1>1, <1>2 DEF IInv, TypeOK, DaemonType, ToolType, DaemonPC, Opening, beatVars
<1>4. KeyFileIsRewritten'
  BY <1>1, <1>2, FaultsCounted DEF IInv, TypeOK, KeyFileIsRewritten
<1> QED BY <1>1, <1>2, <1>3, <1>4, DiskStays, OthersKeep DEF Watch

LEMMA ToolKeeps ==
  ASSUME IInv, StartTool \/ ToolOpens \/ ToolCommand
  PROVE  IInv'
<1> USE IInvDisk
<1>1. CASE StartTool
  <2>1. /\ ToolType' /\ tool.pc = "down" /\ Change /\ NoFault /\ Watch
        /\ UNCHANGED <<file, disk, daemon, state, saw, kind>>
    BY <1>1 DEF StartTool, ToolType, Opening, Down, beatVars, NoFault, Watch
  <2>2. KeyFileIsRewritten' /\ DaemonType'
    BY <2>1 DEF IInv, KeyFileIsRewritten, NoFault, DaemonType
  <2> QED BY <2>1, <2>2, DiskStays, OthersKeep DEF IInv, TypeOK
<1>2. CASE ToolOpens
  <2>1. device_new(tool, tool', "command") /\ Watch
        /\ UNCHANGED <<disk, daemon, beatVars, changes>>
    BY <1>2 DEF ToolOpens
  <2>2. /\ tool' \in [pc : Opening \cup {"command"}, key : Key \cup {Zero}]
        /\ file' \in {"none", "empty", "bad"} \cup Key
        /\ NoFault \/ Fault
        /\ file' = "empty" /\ faults' = 0 =>
             tool'.pc = "write" \/ (file = "empty" /\ tool.pc # "write")
    BY <2>1, DeviceNewKeeps DEF IInv, TypeOK, DaemonPC
  <2>3. KeyFileIsRewritten' /\ DaemonType' /\ saw' = saw
    BY <2>1, <2>2, FaultsCounted DEF IInv, TypeOK, KeyFileIsRewritten, DaemonType, beatVars
  <2> QED BY <2>1, <2>2, <2>3, DiskStays, OthersKeep DEF Watch, ToolType
<1>3. CASE ToolCommand
  <2>1. /\ tool.pc = "command" /\ tool' = Down /\ Watch
        /\ UNCHANGED <<file, daemon, state, saw, changes, kind>>
    BY <1>3 DEF ToolCommand, Watch, beatVars
  <2>2. PICK ok \in BOOLEAN :
          \/ register_key(tool.key, ok) \/ unregister_key(tool.key, ok)
          \/ reserve(tool.key, ok) \/ release(tool.key, ok) \/ abort(tool.key, ok)
    BY <1>3 DEF ToolCommand
  <2>3. tool.key \in Key \cup {Zero}
    BY DEF IInv, TypeOK
  <2>4. DiskInv' /\ (NoFault \/ Fault)
    BY <2>1, <2>2, <2>3, RegisterKeeps, UnregisterKeeps, ReserveKeeps, ReleaseKeeps, AbortKeeps
  <2>5. KeyFileIsRewritten' /\ DaemonType' /\ ToolType'
    BY <2>1, <2>4, FaultsCounted
       DEF IInv, TypeOK, KeyFileIsRewritten, DaemonType, ToolType, Down, Opening
  <2> QED BY <2>1, <2>4, <2>5, OthersKeep DEF IInv, TypeOK
<1> QED BY <1>1, <1>2, <1>3

LEMMA OtherHostKeeps ==
  ASSUME IInv, OtherHost
  PROVE  IInv'
<1> USE IInvDisk
<1>1. Change /\ NoFault /\ Watch /\ UNCHANGED <<file, daemon, tool, state, saw, kind>>
  BY DEF OtherHost, beatVars, NoFault, Watch
<1>2. DiskInv'
  BY <1>1, KeyAssumption DEF OtherHost, DiskInv, DiskType, NoScsiZero, Mine
<1>3. KeyFileIsRewritten' /\ DaemonType' /\ ToolType'
  BY <1>1 DEF IInv, TypeOK, KeyFileIsRewritten, DaemonType, ToolType, NoFault
<1> QED BY <1>1, <1>2, <1>3, OthersKeep DEF IInv, TypeOK

LEMMA CrashKeeps ==
  ASSUME IInv, Crash
  PROVE  IInv'
<1> USE IInvDisk
<1>1. /\ Fault /\ Watch /\ UNCHANGED <<file, disk, state, saw, changes, kind>>
      /\ \/ daemon' = Down /\ tool' = tool
         \/ tool' = Down /\ daemon' = daemon
  BY DEF Crash, beatVars, Watch
<1>2. DaemonType' /\ ToolType' /\ (daemon' = daemon \/ daemon'.pc \notin {"keys", "act"})
  BY <1>1 DEF IInv, TypeOK, DaemonType, ToolType, Down, DaemonPC, Opening
<1>3. KeyFileIsRewritten'
  BY <1>1, BoundAssumption DEF IInv, TypeOK, KeyFileIsRewritten, Fault
<1> QED BY <1>1, <1>2, <1>3, DiskStays, OthersKeep DEF IInv, TypeOK

LEMMA NextStep == IInv /\ [Next]_vars => IInv'
<1> SUFFICES ASSUME IInv, [Next]_vars PROVE IInv'
  OBVIOUS
<1>1. CASE UNCHANGED vars
  BY <1>1 DEF vars, IInv, TypeOK, NoScsiZero, HeartbeatSawTheDisk, ZeroNeverActs,
              KeyFileIsRewritten
<1>2. CASE Next
  BY <1>2, OpenDeviceKeeps, InitialisationKeeps, HeartbeatKeeps, EndKeeps, ToolKeeps,
     OtherHostKeeps, CrashKeeps
     DEF Next, DaemonStep, algorithm_init, algorithm_run, algorithm_stop
<1> QED BY <1>1, <1>2

-----------------------------------------------------------------------------
\* The invariant holds throughout: two processes, their key file, lost replies, crashes
\* and other hosts included.
THEOREM Invariance == Spec => []IInv
<1> QED BY InitStep, NextStep, PTL DEF Spec

\* Every variable stays within its set (device.c, algorithm.c).
THEOREM TypeCorrect == Spec => []TypeOK
<1>1. IInv => TypeOK
  BY DEF IInv
<1> QED BY <1>1, Invariance, PTL

\* What a heartbeat acts on is a holder the disk had since it began, whatever other
\* hosts do between its commands and whichever of them fail (algorithm.c:227-298).
THEOREM HeartbeatSaw == Spec => []HeartbeatSawTheDisk
<1>1. IInv => HeartbeatSawTheDisk
  BY DEF IInv
<1> QED BY <1>1, Invariance, PTL

\* No daemon acts under key 0 on a SCSI disk (device.c:102, 110; algorithm.c:290).
THEOREM ZeroStops == Spec => []ZeroNeverActs
<1>1. IInv => ZeroNeverActs
  BY DEF IInv
<1> QED BY <1>1, Invariance, PTL

\* Without a fault, an emptied key file is about to be written (device.c:75-93).
THEOREM KeyFileRewritten == Spec => []KeyFileIsRewritten
<1>1. IInv => KeyFileIsRewritten
  BY DEF IInv
<1> QED BY <1>1, Invariance, PTL
================================================================================
