------------------------------- MODULE QdiskAdmin ------------------------------
(***************************************************************************)
(* The cluster of Qdisk with an administrator who runs qdisktool on its    *)
(* hosts.  The tool reads the daemon's own key file, so each command acts  *)
(* on the disk in the name of a node whose daemon does not expect it: this *)
(* is how a winner loses its reservation (algorithm.c:393) and a daemon    *)
(* finds its key gone from the disk (algorithm.c:290).                     *)
(***************************************************************************)
EXTENDS Qdisk

CONSTANTS Hosts,      \* the hosts on which the administrator runs it
          Kinds,      \* the kinds of disk, whose aborts differ
          MaxCommands \* bound on the commands the administrator runs

ASSUME AdminAssumption ==
  Hosts \subseteq Daemon /\ Kinds \subseteq {"nvme", "scsi"} /\ MaxCommands \in Nat

VARIABLES tool,     \* the SCSI abort under way: its step, its host, the key it read
          commands, \* commands run so far
          breaks    \* history: how often the tool has changed the holder

adminVars == <<vars, tool, commands, breaks>>

NoAbort == [step |-> "none", on |-> NoKey, key |-> NoKey]

AdminTypeOK ==
  /\ TypeOK
  /\ tool \in [step : {"none", "preempt", "release"},
               on : Daemon \cup {NoKey}, key : Node \cup {NoKey}]
  /\ commands \in 0..MaxCommands
  /\ breaks \in Nat

AdminInit == Init /\ tool = NoAbort /\ commands = 0 /\ breaks = 0

-----------------------------------------------------------------------------
NewCommand == commands < MaxCommands /\ commands' = commands + 1

\* The tool writes to the disk, if at all, and to nothing else of the cluster.
OnlyDisk ==
  /\ UNCHANGED <<clusterVars, proc, faults>>
  /\ breaks' = IF holder' = holder THEN breaks ELSE breaks + 1

\* qdisktool register, unregister, reserve and release.
ToolRegister(n) ==
  NewCommand /\ Register(n, "good") /\ OnlyDisk /\ UNCHANGED tool

ToolUnregister(n) ==
  NewCommand /\ Unregister(n, "good") /\ OnlyDisk /\ UNCHANGED tool

ToolReserve(n) ==
  NewCommand /\ Reserve(n, "good") /\ OnlyDisk /\ UNCHANGED tool

ToolRelease(n) ==
  NewCommand /\ Release(n, "good") /\ OnlyDisk /\ UNCHANGED tool

\* NVMe: clearing removes the reservation and every registration.
NvmeAbort(n) ==
  /\ "nvme" \in Kinds
  /\ NewCommand
  /\ n \in registered
  /\ registered' = {}
  /\ holder' = NoKey
  /\ OnlyDisk /\ UNCHANGED tool

\* SCSI: read the key that holds the reservation, ...
ScsiAbortRead(n) ==
  /\ "scsi" \in Kinds
  /\ tool = NoAbort
  /\ NewCommand
  /\ tool' = [step |-> "preempt", on |-> n, key |-> holder]
  /\ UNCHANGED diskVars /\ OnlyDisk

\* Faulty variant: the preempted key leaves its reservation behind.
ScsiAbortExpels ==
  /\ tool.step = "preempt"
  /\ registered' = registered \ {tool.key}
  /\ UNCHANGED holder
  /\ tool' = [tool EXCEPT !.step = "release"]
  /\ OnlyDisk /\ UNCHANGED commands

\* ... preempt that key, which may have let go meanwhile, ...
ScsiAbortPreempt ==
  LET n == tool.on IN
  /\ tool.step = "preempt"
  /\ IF n \in registered /\ tool.key \in registered
       THEN /\ registered' = registered \ ({tool.key} \ {n})
            /\ holder' = IF holder = tool.key THEN n ELSE holder
            /\ tool' = [tool EXCEPT !.step = "release"]
       ELSE UNCHANGED diskVars /\ tool' = NoAbort
  /\ OnlyDisk /\ UNCHANGED commands

\* ... and release the reservation taken over.
ScsiAbortRelease ==
  /\ tool.step = "release"
  /\ IF CanRelease(tool.on) THEN Release(tool.on, "good") ELSE UNCHANGED diskVars
  /\ tool' = NoAbort
  /\ OnlyDisk /\ UNCHANGED commands

Command(n) ==
  \/ ToolRegister(n) \/ ToolUnregister(n) \/ ToolReserve(n) \/ ToolRelease(n)
  \/ NvmeAbort(n) \/ ScsiAbortRead(n)

FinishAbort == ScsiAbortPreempt \/ ScsiAbortRelease

AdminNext ==
  \/ Next /\ UNCHANGED <<tool, commands, breaks>>
  \/ \E n \in Hosts : Command(n)
  \/ FinishAbort

AdminSpec == AdminInit /\ [][AdminNext]_adminVars

\* Both steps of an abort follow the first unless the tool is killed.
AdminFairness == Fairness /\ WF_adminVars(FinishAbort)

-----------------------------------------------------------------------------
\* Two nodes may both be in HAVE_QDISK after a command, but not for long: the one that
\* lost the reservation finds out and aborts.
OneWinnerAgain == []<>(\A n \in In({"HAVE_QDISK"}) : holder = n)

\* With an administrator the lock of Tiebreaker can be broken: a command takes the
\* reservation from its holder, or gives it to a node that did not ask.
Broken == INSTANCE BreakableLock
            WITH None <- NoKey, owner <- holder,
                 winners <- {n \in Daemon : Winning(n)}

\* The daemons go on implementing the lock around the commands: nothing but a
\* command makes a winner lose the reservation or gives it to another, and no
\* daemon starts to win without it, whatever was done to the disk before.
BrokenLockSpec == Broken!Spec

\* So each winner without the reservation (algorithm.c:393 tells it one heartbeat later)
\* was made by a write of the tool that changed the holder: there are never more of them
\* than such writes, of which a plain command is one at most and a SCSI abort two.
FewStaleWinners == Cardinality(In({"HAVE_QDISK"}) \ {holder}) <= breaks

\* A daemon whose key was removed from the disk stops, unless the key is back in
\* time, and does not leave its vote behind.
ExpelledStops ==
  []<>(\A n \in Daemon : n \notin registered => n \notin In(State) /\ ~ vote[n])
================================================================================
