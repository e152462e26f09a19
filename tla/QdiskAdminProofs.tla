--------------------------- MODULE QdiskAdminProofs ----------------------------
(***************************************************************************)
(* Proofs about QdiskAdmin.  A step of a daemon is one in its own name     *)
(* also when an administrator has written to the disk before               *)
(* (QdiskProofs, under TInv), so it is a step of the breakable lock that   *)
(* breaks nothing; a command is a break, or none.  The bound on the        *)
(* winners without the reservation then follows from the breakable lock    *)
(* alone.                                                                  *)
(***************************************************************************)
EXTENDS QdiskAdmin, QdiskProofs, FiniteSetTheorems

AdminInv == TInv /\ AdminTypeOK

lockVars == <<holder, Winners, breaks>>

-----------------------------------------------------------------------------
(* What a command may do.                                                  *)

\* The disk stays well formed under every command.
LEMMA CommandKeepsDisk ==
  ASSUME AdminInv, (\E n \in Daemon : Command(n)) \/ FinishAbort
  PROVE  DiskTypeOK'
<1>1. DiskTypeOK /\ Daemon \subseteq Node
  BY NodeAssumption DEF AdminInv, TInv, TypeOK
<1>2. CASE \E n \in Daemon : ToolRegister(n) \/ ToolUnregister(n)
  BY <1>1, <1>2, NoKeyAssumption
     DEF ToolRegister, ToolUnregister, Register, Unregister, FreedBy, DiskTypeOK, diskVars
<1>3. CASE \E n \in Daemon : ToolReserve(n) \/ ToolRelease(n)
  BY <1>1, <1>3, NoKeyAssumption
     DEF ToolReserve, ToolRelease, Reserve, Release, CanReserve, FreedBy, DiskTypeOK
<1>4. CASE \E n \in Daemon : NvmeAbort(n) \/ ScsiAbortRead(n)
  BY <1>1, <1>4 DEF NvmeAbort, ScsiAbortRead, DiskTypeOK, diskVars
<1>5. CASE ScsiAbortPreempt
  BY <1>1, <1>5, NoKeyAssumption DEF ScsiAbortPreempt, DiskTypeOK, diskVars
<1>6. CASE ScsiAbortRelease
  BY <1>1, <1>6, NoKeyAssumption DEF ScsiAbortRelease, Release, FreedBy, DiskTypeOK, diskVars
<1> QED BY <1>2, <1>3, <1>4, <1>5, <1>6 DEF Command, FinishAbort

\* Everything but the disk stays as it is.
LEMMA CommandLeavesDaemons ==
  ASSUME (\E n \in Daemon : Command(n)) \/ FinishAbort
  PROVE  OnlyDisk
BY DEF Command, FinishAbort, ToolRegister, ToolUnregister, ToolReserve, ToolRelease, NvmeAbort,
       ScsiAbortRead, ScsiAbortPreempt, ScsiAbortRelease

\* The tool is in a state of its own type, and so is the count of its writes.
LEMMA CommandKeepsTool ==
  ASSUME AdminInv, (\E n \in Daemon : Command(n)) \/ FinishAbort
  PROVE  /\ tool' \in [step : {"none", "preempt", "release"},
                       on : Daemon \cup {NoKey}, key : Node \cup {NoKey}]
         /\ commands' \in 0..MaxCommands
         /\ breaks' \in Nat
<1>1. /\ tool \in [step : {"none", "preempt", "release"},
                   on : Daemon \cup {NoKey}, key : Node \cup {NoKey}]
      /\ commands \in 0..MaxCommands /\ MaxCommands \in Nat
      /\ holder \in Node \cup {NoKey}
  BY AdminAssumption, NodeAssumption DEF AdminInv, AdminTypeOK, TInv, TypeOK, DiskTypeOK
<1>2. NewCommand => commands' \in 0..MaxCommands
  BY <1>1 DEF NewCommand
<1>0. breaks' \in Nat
  BY CommandLeavesDaemons DEF OnlyDisk, AdminInv, AdminTypeOK
<1>3. CASE \E n \in Daemon : Command(n) /\ ~ ScsiAbortRead(n)
  BY <1>0, <1>1, <1>2, <1>3
     DEF Command, ToolRegister, ToolUnregister, ToolReserve, ToolRelease, NvmeAbort
<1>4. CASE \E n \in Daemon : ScsiAbortRead(n)
  BY <1>0, <1>1, <1>2, <1>4 DEF ScsiAbortRead
<1>5. CASE FinishAbort
  BY <1>0, <1>1, <1>5 DEF FinishAbort, ScsiAbortPreempt, ScsiAbortRelease, NoAbort
<1> QED BY <1>3, <1>4, <1>5

-----------------------------------------------------------------------------
(* Types.                                                                  *)

\* All is well formed at first.
LEMMA AdminInitInv == AdminInit => AdminInv
<1> SUFFICES ASSUME AdminInit PROVE AdminInv
  OBVIOUS
<1>1. TInv
  BY InitInvariant DEF AdminInit, IInv
<1> QED BY <1>1, AdminAssumption DEF AdminInit, AdminInv, AdminTypeOK, NoAbort, TInv

\* Every step keeps the types.
LEMMA AdminNextInv == AdminInv /\ [AdminNext]_adminVars => AdminInv'
<1> SUFFICES ASSUME AdminInv, [AdminNext]_adminVars PROVE AdminInv'
  OBVIOUS
<1>1. CASE [Next]_vars /\ UNCHANGED <<tool, commands, breaks>>
  <2>1. TInv'
    BY <1>1, NextIsOwn DEF AdminInv
  <2> QED BY <1>1, <2>1 DEF AdminInv, AdminTypeOK, TInv
<1>2. CASE (\E n \in Daemon : Command(n)) \/ FinishAbort
  <2>1. OnlyDisk /\ DiskTypeOK'
    BY <1>2, CommandLeavesDaemons, CommandKeepsDisk
  <2>2. TypeOK' /\ StartsInStart'
    BY <2>1 DEF OnlyDisk, clusterVars, AdminInv, TInv, TypeOK, StartsInStart
  <2> QED BY <1>2, <2>2, CommandKeepsTool DEF AdminInv, AdminTypeOK, TInv
<1> QED BY <1>1, <1>2, AdminAssumption DEF AdminNext, adminVars

(* Whatever an administrator does to the disk and whenever, every variable *)
(* keeps its type and the holder of the reservation is a registrant.       *)
THEOREM AdminTypeCorrect == AdminSpec => []AdminTypeOK
<1>1. AdminInv => AdminTypeOK
  BY DEF AdminInv
<1> QED BY <1>1, AdminInitInv, AdminNextInv, PTL DEF AdminSpec

-----------------------------------------------------------------------------
(* The refinement.                                                         *)

\* What a daemon does breaks nothing.
LEMMA OwnStepIsBrokenStep ==
  ASSUME TInv, NEW n \in Daemon, OwnStep(n), UNCHANGED breaks
  PROVE  [Broken!Next]_lockVars
<1>1. \A m \in Daemon \ {n} : Winning(m)' = Winning(m)
  BY OthersKept DEF Winning, Serving
<1>2. Winners' \ {n} = Winners \ {n} /\ n \in Node /\ n # NoKey
  BY <1>1, NodeAssumption, NoKeyAssumption DEF Winners
<1>3. Winners' \in {Winners, Winners \cup {n}, Winners \ {n}}
  BY <1>2
<1>4. n \in Winners' => holder' = n \/ (n \in Winners /\ holder # n)
  BY DEF OwnStep, OwnClaims, Preempted, Winners, Winning, Serving
<1>5. CASE holder' = holder
  <2>1. CASE Winners' = Winners
    BY <1>5, <2>1 DEF lockVars
  <2>2. CASE n \in Winners' /\ n \notin Winners
    <3>1. holder = n /\ Winners' = Winners \cup {n}
      BY <1>3, <1>4, <1>5, <2>2
    <3> QED BY <1>2, <1>5, <3>1 DEF Broken!Next, Broken!Win, Winners, lockVars
  <2>3. CASE n \in Winners /\ n \notin Winners'
    <3>1. Winners' = Winners \ {n}
      BY <1>3, <2>3
    <3> QED BY <1>2, <1>5, <2>3, <3>1 DEF Broken!Next, Broken!Resign, Winners, lockVars
  <2> QED BY <1>3, <2>1, <2>2, <2>3
<1>6. CASE holder' # holder /\ holder' = n
  <2>1. holder = NoKey /\ n \notin Winners
    BY <1>6 DEF OwnStep, OwnDisk, Winners
  <2>2. Winners' \in {Winners, Winners \cup {n}}
    BY <1>3, <2>1
  <2> QED BY <1>2, <1>6, <2>1, <2>2 DEF Broken!Next, Broken!Acquire, Winners, lockVars
<1>7. CASE holder' # holder /\ holder' = NoKey
  <2>1. holder = n /\ n \notin Winners
    BY <1>7 DEF OwnStep, OwnDisk, Winners
  <2>2. Winners' = Winners
    BY <1>2, <1>3, <1>4, <1>7, <2>1
  <2> QED BY <1>2, <1>7, <2>1, <2>2 DEF Broken!Next, Broken!LetGo, Winners, lockVars
<1> QED BY <1>5, <1>6, <1>7 DEF OwnStep, OwnDisk

\* A command breaks the lock when it changes the holder, and does nothing to it otherwise.
LEMMA CommandIsBrokenStep ==
  ASSUME AdminInv, AdminInv', (\E n \in Daemon : Command(n)) \/ FinishAbort
  PROVE  [Broken!Next]_lockVars
<1>1. Winners' = Winners /\ holder' \in Node \cup {NoKey}
  BY CommandLeavesDaemons, NodeAssumption
     DEF OnlyDisk, Winners, Winning, Serving, AdminInv, TInv, TypeOK, DiskTypeOK
<1>2. breaks' = IF holder' = holder THEN breaks ELSE breaks + 1
  BY CommandLeavesDaemons DEF OnlyDisk
<1>3. CASE holder' = holder
  BY <1>1, <1>2, <1>3 DEF lockVars
<1>4. CASE holder' # holder
  BY <1>1, <1>2, <1>4 DEF Broken!Next, Broken!Break, Winners
<1> QED BY <1>3, <1>4

\* So is every step of the cluster and its administrator.
LEMMA AdminNextIsBrokenStep ==
  ASSUME AdminInv, [AdminNext]_adminVars
  PROVE  [Broken!Next]_lockVars
<1>1. CASE [Next]_vars /\ UNCHANGED <<tool, commands, breaks>>
  <2>1. UNCHANGED breaks
    BY <1>1
  <2>2. SameClaims \/ \E n \in Daemon : OwnStep(n)
    BY <1>1, NextIsOwn DEF AdminInv
  <2>3. CASE SameClaims
    BY <2>1, <2>3 DEF SameClaims, Winners, lockVars
  <2>4. CASE \E n \in Daemon : OwnStep(n)
    BY <2>1, <2>4, OwnStepIsBrokenStep DEF AdminInv
  <2> QED BY <2>2, <2>3, <2>4
<1>2. CASE (\E n \in Daemon : Command(n)) \/ FinishAbort
  BY <1>2, CommandIsBrokenStep, AdminNextInv
<1> QED BY <1>1, <1>2, AdminAssumption DEF AdminNext, adminVars

\* At first the lock is free and unbroken.
LEMMA AdminInitIsBrokenInit == AdminInit => Broken!Init
<1> SUFFICES ASSUME AdminInit PROVE Broken!Init
  OBVIOUS
<1>1. holder = NoKey /\ {n \in Daemon : Winning(n)} = {}
  BY BootIsProcess DEF AdminInit, Init, DiskInit, Winning, Serving
<1> QED BY <1>1 DEF AdminInit, Broken!Init

(* The daemons implement the lock around an administrator: nothing but     *)
(* a command takes the reservation from a winner or gives it to another,   *)
(* and no daemon starts to win without it, whatever was done to the disk.  *)
THEOREM ImplementsBrokenLock == AdminSpec => BrokenLockSpec
<1>1. AdminInv /\ [AdminNext]_adminVars => [Broken!Next]_lockVars
  BY AdminNextIsBrokenStep
<1> QED BY <1>1, AdminInitInv, AdminNextInv, AdminInitIsBrokenInit, PTL
        DEF AdminSpec, BrokenLockSpec, Broken!Spec, lockVars, Winners

-----------------------------------------------------------------------------
(* How many winners there may be.                                          *)

\* The winners are finitely many.
LEMMA WinnersFinite ==
  /\ IsFiniteSet(Winners)
  /\ \A h : /\ IsFiniteSet(Winners \ {h}) /\ Cardinality(Winners \ {h}) \in Nat
            /\ Cardinality(Winners) <= Cardinality(Winners \ {h}) + 1
<1>1. IsFiniteSet(Winners)
  BY NodeAssumption, FS_Subset DEF Winners
<1>2. ASSUME NEW h
      PROVE  /\ IsFiniteSet(Winners \ {h}) /\ Cardinality(Winners \ {h}) \in Nat
             /\ Cardinality(Winners) <= Cardinality(Winners \ {h}) + 1
  <2>1. IsFiniteSet(Winners \ {h}) /\ Cardinality(Winners \ {h}) \in Nat
    BY <1>1, FS_RemoveElement, FS_CardinalityType
  <2>2. CASE h \in Winners
    BY <1>1, <2>1, <2>2, FS_RemoveElement, FS_CardinalityType
  <2>3. CASE h \notin Winners
    <3>1. Winners \ {h} = Winners
      BY <2>3
    <3> QED BY <2>1, <3>1
  <2> QED BY <2>1, <2>2, <2>3
<1> QED BY <1>1, <1>2

\* So are those that have lost the reservation.
LEMMA FewIsNat ==
  ASSUME NEW W, NEW h, W \subseteq Daemon
  PROVE  IsFiniteSet(W \ {h}) /\ Cardinality(W \ {h}) \in Nat
<1>1. IsFiniteSet(W)
  BY NodeAssumption, FS_Subset
<1> QED BY <1>1, FS_RemoveElement, FS_CardinalityType

\* A step of the breakable lock keeps the bound: only a break makes a winner lose it.
LEMMA BrokenStepKeepsBound ==
  ASSUME AdminInv, [Broken!Next]_lockVars, FewStaleWinners
  PROVE  FewStaleWinners'
<1> DEFINE few == Cardinality(Winners \ {holder})
           few2 == Cardinality(Winners' \ {holder'})
<1>0. Winners \subseteq Daemon /\ Winners' \subseteq Daemon
  BY DEF Winners
<1>1. few \in Nat /\ few2 \in Nat /\ breaks \in Nat
  BY <1>0, FewIsNat DEF AdminInv, AdminTypeOK
<1>2. few <= breaks
  BY DEF FewStaleWinners, In, Winners, Winning
<1>3. few2 <= breaks' => FewStaleWinners'
  BY DEF FewStaleWinners, In, Winners, Winning
<1>4. CASE breaks' = breaks /\ Winners' \ {holder'} \subseteq Winners \ {holder}
  <2>1. few2 <= few
    BY <1>0, <1>4, FewIsNat, FS_Subset
  <2> HIDE DEF few, few2
  <2> QED BY <1>1, <1>2, <1>3, <1>4, <2>1
<1>5. CASE Broken!Break
  <2>1. breaks' = breaks + 1 /\ Winners' = Winners
    BY <1>5 DEF Broken!Break, Winners
  <2>2. few2 <= Cardinality(Winners)
    BY <2>1, WinnersFinite, FS_Subset
  <2>3. Cardinality(Winners) <= few + 1 /\ Cardinality(Winners) \in Nat
    BY WinnersFinite, FS_CardinalityType
  <2> HIDE DEF few, few2
  <2> QED BY <1>1, <1>2, <1>3, <2>1, <2>2, <2>3
<1>6. ASSUME NEW n \in Node,
             Broken!Acquire(n) \/ Broken!Win(n) \/ Broken!Resign(n) \/ Broken!LetGo(n)
      PROVE  breaks' = breaks /\ Winners' \ {holder'} \subseteq Winners \ {holder}
  <2>1. NoKey \notin Winners
    BY NodeAssumption, NoKeyAssumption DEF Winners
  <2>2. breaks' = breaks
    BY <1>6 DEF Broken!Acquire, Broken!Win, Broken!Resign, Broken!LetGo
  <2>3. Winners' \ {holder'} \subseteq Winners \ {holder}
    BY <1>6, <2>1 DEF Broken!Acquire, Broken!Win, Broken!Resign, Broken!LetGo, Winners
  <2> QED BY <2>2, <2>3
<1> HIDE DEF few, few2
<1> QED BY <1>4, <1>5, <1>6 DEF Broken!Next, lockVars, Winners

\* At first there are no winners.
LEMMA AdminInitBounded == AdminInit => FewStaleWinners
<1> SUFFICES ASSUME AdminInit PROVE FewStaleWinners
  OBVIOUS
<1>1. {n \in Daemon : Winning(n)} \ {holder} = {} /\ breaks = 0
  BY AdminInitIsBrokenInit DEF Broken!Init
<1> QED BY <1>1, FS_EmptySet DEF FewStaleWinners, In, Winning

(* For every cluster and any number of commands: there are never more      *)
(* daemons that act as the winner without the reservation than there were  *)
(* writes of the tool that changed its holder.                             *)
THEOREM StaleWinnersBounded == AdminSpec => []FewStaleWinners
<1>1. AdminInv /\ FewStaleWinners /\ [AdminNext]_adminVars => FewStaleWinners'
  BY AdminNextIsBrokenStep, BrokenStepKeepsBound
<1> QED BY <1>1, AdminInitInv, AdminNextInv, AdminInitBounded, PTL DEF AdminSpec
================================================================================
