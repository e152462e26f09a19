------------------------------ MODULE SplitProofs ------------------------------
(***************************************************************************)
(* The first split of a cluster at rest: WinnersOnHoldersSide for every    *)
(* cluster, every layout the network may change to and every interleaving  *)
(* of the daemons, as long as no command fails and nothing crashes         *)
(* (MaxFaults = 0) and the network changes once at most.                   *)
(*                                                                         *)
(* A daemon engages in the tie only on a view that is half of the members, *)
(* which the view from before the split is not; so its view is its         *)
(* partition.  The holder never changes once there is one; so a holder     *)
(* that was read is still the holder when the decision is taken.           *)
(***************************************************************************)
EXTENDS Qdisk, FiniteSetTheorems, TLAPS

(* A daemon that takes part in the race for the reservation, or has won or *)
(* lost it on the winner's side.                                           *)
Engaged == {"RESERVE_DISK", "RECV_VOTE", "HAVE_QDISK"}

ClusterRests ==
  /\ faults = 0
  /\ registered = Daemon
  /\ shared = Daemon
  /\ holder \in Daemon \cup {NoKey}

NetworkSplitsOnce ==
  /\ changes \in 0..1
  /\ network \in [Node -> SUBSET Node]
  /\ \A n \in Node : n \in network[n]
  /\ changes = 0 => \A n \in Node : network[n] = Node

\* What process p of daemon n runs ...
Runs(n, p) ==
  /\ p \in Process
  /\ p.pc \in {"sleep", "command", "poll"}
  /\ p.state \in Engaged \cup {"IDLE", "RESIGNED"}
  /\ p.pc = "command" => p.state = "RESERVE_DISK"

\* ... what it knows ...
Knows(n, p) ==
  /\ p.view \in {Node, network[n]}
  /\ p.state \in Engaged => changes = 1 /\ p.view = network[n] /\ p.view \in Halves
  /\ p.pc = "command" => p.saw \in {NoKey, holder}

\* ... and what it counts on.
Counts(n, p) ==
  /\ p.state = "RECV_VOTE" => holder \in network[n]
  /\ p.state = "HAVE_QDISK" <=> holder = n

Place(n, p) == Runs(n, p) /\ Knows(n, p) /\ Counts(n, p)

DaemonsInPlace ==
  /\ proc = [n \in Daemon |-> proc[n]]
  /\ \A n \in Daemon : Place(n, proc[n])

SplitInv == ClusterRests /\ NetworkSplitsOnce /\ DaemonsInPlace

-----------------------------------------------------------------------------
\* All the members are not half of them.
LEMMA WholeIsNoHalf == Node # {} => Node \notin Halves
<1> SUFFICES ASSUME Node # {}, Node \in Halves PROVE FALSE
  OBVIOUS
<1>1. Cardinality(Node) \in Nat /\ Cardinality(Node) # 0
  BY NodeAssumption, FS_CardinalityType, FS_EmptySet
<1>2. 2 * Cardinality(Node) = Cardinality(Node)
  BY DEF Halves
<1> QED BY <1>1, <1>2

\* A view that is half of the members is the partition after the split.
LEMMA HalfIsPartition ==
  ASSUME SplitInv, NEW n \in Daemon, tiebreak_needed(n)
  PROVE  /\ changes = 1
         /\ proc[n].view = network[n]
         /\ proc[n].view \in Halves
<1>1. n \in Node /\ proc[n].view \in Halves
  BY NodeAssumption DEF tiebreak_needed
<1>2. proc[n].view # Node
  BY <1>1, WholeIsNoHalf
<1>3. proc[n].view = network[n]
  BY <1>2 DEF SplitInv, DaemonsInPlace, Place, Knows
<1>4. changes # 0
  BY <1>1, <1>2, <1>3 DEF SplitInv, NetworkSplitsOnce
<1>5. changes \in 0..1
  BY DEF SplitInv, NetworkSplitsOnce
<1> QED BY <1>1, <1>3, <1>4, <1>5

\* An engaged daemon still sees the tie.
LEMMA EngagedNeedsTiebreak ==
  ASSUME SplitInv, NEW n \in Daemon, proc[n].state \in Engaged
  PROVE  tiebreak_needed(n)
BY DEF SplitInv, DaemonsInPlace, Place, Knows, tiebreak_needed

\* Nothing is paid for as a fault.
LEMMA NoFaultsLeft ==
  ASSUME SplitInv, MaxFaults = 0
  PROVE  ~ Fault
BY DEF SplitInv, ClusterRests, Fault

\* A visible holder is a daemon.
LEMMA VisibleIsDaemon ==
  ASSUME SplitInv, NEW n \in Daemon, NEW key, HolderVisible(n, key)
  PROVE  key \in Daemon /\ key # NoKey /\ key \in proc[n].view
BY NodeAssumption, NoKeyAssumption DEF SplitInv, ClusterRests, HolderVisible

-----------------------------------------------------------------------------
(* The processes a heartbeat produces are in place.                        *)

\* A heartbeat that goes on to a state that counts on nothing.
LEMMA CastInPlace ==
  ASSUME SplitInv, NEW n \in Daemon, holder # n,
         NEW s \in {"IDLE", "RESIGNED"}, NEW c \in BOOLEAN
  PROVE  /\ Place(n, Cast(proc[n], s, c))
         /\ Place(n, Cast(Armed(proc[n]), s, c))
<1>1. Place(n, proc[n])
  BY DEF SplitInv, DaemonsInPlace
<1>2. /\ Runs(n, Cast(proc[n], s, c))
      /\ Runs(n, Cast(Armed(proc[n]), s, c))
  BY <1>1 DEF Place, Runs, Cast, Armed, Process, PC, State
<1>3. /\ Knows(n, Cast(proc[n], s, c))
      /\ Knows(n, Cast(Armed(proc[n]), s, c))
  BY <1>1 DEF Place, Runs, Knows, Cast, Armed, Process, Engaged
<1>4. /\ Counts(n, Cast(proc[n], s, c))
      /\ Counts(n, Cast(Armed(proc[n]), s, c))
  BY <1>1 DEF Place, Runs, Counts, Cast, Armed, Process
<1> QED BY <1>2, <1>3, <1>4 DEF Place

\* A heartbeat of a daemon in a tie that goes on to race or to follow.
LEMMA EngageInPlace ==
  ASSUME SplitInv, NEW n \in Daemon, tiebreak_needed(n), holder # n,
         NEW s \in {"RESERVE_DISK", "RECV_VOTE"}, NEW c \in BOOLEAN,
         s = "RECV_VOTE" => holder \in network[n]
  PROVE  /\ Place(n, Cast(proc[n], s, c))
         /\ Place(n, Cast(Armed(proc[n]), s, c))
<1>1. Place(n, proc[n])
  BY DEF SplitInv, DaemonsInPlace
<1>2. changes = 1 /\ proc[n].view = network[n] /\ proc[n].view \in Halves
  BY HalfIsPartition
<1>3. /\ Runs(n, Cast(proc[n], s, c))
      /\ Runs(n, Cast(Armed(proc[n]), s, c))
  BY <1>1 DEF Place, Runs, Cast, Armed, Process, PC, State, Engaged
<1>4. /\ Knows(n, Cast(proc[n], s, c))
      /\ Knows(n, Cast(Armed(proc[n]), s, c))
  BY <1>1, <1>2 DEF Place, Runs, Knows, Cast, Armed, Process
<1>5. /\ Counts(n, Cast(proc[n], s, c))
      /\ Counts(n, Cast(Armed(proc[n]), s, c))
  BY <1>1 DEF Place, Runs, Counts, Cast, Armed, Process
<1> QED BY <1>3, <1>4, <1>5 DEF Place

\* A heartbeat that ends without a poll.
LEMMA SkipInPlace ==
  ASSUME SplitInv, NEW n \in Daemon
  PROVE  Place(n, SkipPoll(proc[n]))
<1>1. Place(n, proc[n])
  BY DEF SplitInv, DaemonsInPlace
<1>2. Runs(n, SkipPoll(proc[n]))
  BY <1>1 DEF Place, Runs, SkipPoll, Process, PC
<1>3. Knows(n, SkipPoll(proc[n]))
  BY <1>1 DEF Place, Runs, Knows, SkipPoll, Process
<1>4. Counts(n, SkipPoll(proc[n]))
  BY <1>1 DEF Place, Runs, Counts, SkipPoll, Process
<1> QED BY <1>2, <1>3, <1>4 DEF Place

-----------------------------------------------------------------------------
(* A step of one daemon that leaves disk and network alone needs to care   *)
(* for its own process only.                                               *)
QuietStep(n) ==
  /\ Update(n, proc'[n])
  /\ Place(n, proc'[n])
  /\ UNCHANGED <<registered, holder, network, shared, changes, faults>>

\* A quiet step keeps the invariant.
LEMMA QuietStepKeeps ==
  ASSUME SplitInv, NEW n \in Daemon, QuietStep(n)
  PROVE  SplitInv'
<1>1. ClusterRests'
  BY DEF SplitInv, ClusterRests, QuietStep
<1>2. NetworkSplitsOnce'
  BY DEF SplitInv, NetworkSplitsOnce, QuietStep
<1>3. ASSUME NEW m \in Daemon
      PROVE  Place(m, proc'[m])
  <2>1. Place(m, proc[m])
    BY DEF SplitInv, DaemonsInPlace
  <2>2. m # n => proc'[m] = proc[m]
    BY DEF QuietStep, Update, SplitInv, DaemonsInPlace
  <2> QED BY <2>1, <2>2 DEF QuietStep
<1>4. \A m \in Daemon : Place(m, proc[m])'
  BY <1>3 DEF Place, Runs, Knows, Counts, QuietStep
<1>5. proc' = [m \in Daemon |-> proc'[m]]
  BY DEF QuietStep, Update, SplitInv, DaemonsInPlace
<1> QED BY <1>1, <1>2, <1>4, <1>5 DEF SplitInv, DaemonsInPlace

\* A step that puts a process in place is quiet.
LEMMA UpdateIsQuiet ==
  ASSUME SplitInv, NEW n \in Daemon, NEW q, Update(n, q), Place(n, q),
         UNCHANGED <<registered, holder, network, shared, changes, faults>>
  PROVE  QuietStep(n)
<1>1. proc'[n] = q
  BY DEF Update, SplitInv, DaemonsInPlace
<1> QED BY <1>1 DEF QuietStep

-----------------------------------------------------------------------------
(* One lemma per step of a daemon.                                         *)

\* A daemon with a place cannot be in any other state than those of Place.
LEMMA InPlace ==
  ASSUME SplitInv, NEW n \in Daemon
  PROVE  /\ proc[n] \in Process
         /\ proc[n].pc \in {"sleep", "command", "poll"}
         /\ proc[n].state \in Engaged \cup {"IDLE", "RESIGNED"}
         /\ proc[n].pc = "command" => proc[n].state = "RESERVE_DISK"
         /\ proc[n].state = "HAVE_QDISK" <=> holder = n
         /\ n \in registered
BY DEF SplitInv, ClusterRests, DaemonsInPlace, Place, Runs, Counts

\* Neither of the checks fails.
LEMMA ChecksPass ==
  ASSUME SplitInv, NEW n \in Daemon
  PROVE  ~ ChecksFail(n)
<1>1. holder = n => proc[n].state = "HAVE_QDISK"
  BY InPlace
<1>2. n \in registered
  BY InPlace
<1> QED BY <1>1, <1>2 DEF ChecksFail, UnexpectedlyHolding, KeyExpelled, HoldingStates

\* A daemon leaves IDLE for the race or for the holder only on a view it can trust.
LEMMA RunIdleQuiet ==
  ASSUME SplitInv, NEW n \in Daemon, RunIdle(n)
  PROVE  QuietStep(n)
<1>1. /\ proc[n].state = "IDLE" /\ holder # n
      /\ UNCHANGED <<registered, holder, network, shared, changes, faults>>
  BY DEF RunIdle, Beats, diskVars, clusterVars, HoldingStates
<1>2. CASE tiebreak_needed(n) /\ IdleInTie(n, proc[n])
  <2>1. CASE HolderVisible(n, holder) /\ Update(n, Cast(Armed(proc[n]), "RECV_VOTE", TRUE))
    <3>1. holder \in network[n]
      BY <1>2, <2>1, VisibleIsDaemon, HalfIsPartition
    <3>2. Place(n, Cast(Armed(proc[n]), "RECV_VOTE", TRUE))
      BY <1>1, <1>2, <3>1, EngageInPlace
    <3> QED BY <1>1, <2>1, <3>2, UpdateIsQuiet
  <2>2. CASE holder = NoKey /\ Update(n, Cast(Armed(proc[n]), "RESERVE_DISK", TRUE))
    <3>1. Place(n, Cast(Armed(proc[n]), "RESERVE_DISK", TRUE))
      BY <1>1, <1>2, EngageInPlace
    <3> QED BY <1>1, <2>2, <3>1, UpdateIsQuiet
  <2>3. CASE Update(n, Cast(proc[n], "RESIGNED", FALSE)) \/ Update(n, SkipPoll(proc[n]))
    BY <1>1, <2>3, CastInPlace, SkipInPlace, UpdateIsQuiet
  <2> QED BY <1>2, <2>1, <2>2, <2>3 DEF IdleInTie
<1>3. CASE Update(n, Cast(proc[n], "RESIGNED", FALSE))
  BY <1>1, <1>3, CastInPlace, UpdateIsQuiet
<1>4. CASE Update(n, Cast(Armed(proc[n]), "IDLE", TRUE))
  BY <1>1, <1>4, CastInPlace, UpdateIsQuiet
<1> QED BY <1>2, <1>3, <1>4 DEF RunIdle

\* A follower goes on with a holder that has not changed.
LEMMA RunRecvVoteQuiet ==
  ASSUME SplitInv, NEW n \in Daemon, RunRecvVote(n)
  PROVE  QuietStep(n)
<1>1. /\ proc[n].state = "RECV_VOTE" /\ holder # n
      /\ UNCHANGED <<registered, holder, network, shared, changes, faults>>
  BY DEF RunRecvVote, Beats, diskVars, clusterVars, HoldingStates
<1>2. tiebreak_needed(n)
  BY <1>1, EngagedNeedsTiebreak DEF Engaged
<1>3. holder \in network[n]
  BY <1>1 DEF SplitInv, DaemonsInPlace, Place, Counts
<1>4. /\ Place(n, Cast(proc[n], "RECV_VOTE", TRUE))
      /\ Place(n, Cast(Armed(proc[n]), "RECV_VOTE", TRUE))
  BY <1>1, <1>2, <1>3, EngageInPlace
<1>5. Place(n, Cast(proc[n], "IDLE", TRUE))
  BY <1>1, CastInPlace
<1>6. CASE Update(n, Cast(Armed(proc[n]), "RECV_VOTE", TRUE))
  BY <1>1, <1>4, <1>6, UpdateIsQuiet
<1>7. CASE Update(n, Cast(proc[n], IF proc[n].late THEN "IDLE" ELSE "RECV_VOTE", TRUE))
  <2>1. CASE proc[n].late
    BY <1>1, <1>5, <1>7, <2>1, UpdateIsQuiet
  <2>2. CASE ~ proc[n].late
    BY <1>1, <1>4, <1>7, <2>2, UpdateIsQuiet
  <2> QED BY <2>1, <2>2
<1> QED BY <1>6, <1>7 DEF RunRecvVote

\* The winner keeps the reservation as long as the tie lasts.
LEMMA RunHaveQdiskQuiet ==
  ASSUME SplitInv, NEW n \in Daemon, RunHaveQdisk(n)
  PROVE  QuietStep(n)
<1>1. /\ proc[n].state = "HAVE_QDISK"
      /\ UNCHANGED <<registered, holder, network, shared, changes, faults>>
  BY DEF RunHaveQdisk, Beats, diskVars, clusterVars
<1>2. holder = n /\ tiebreak_needed(n)
  BY <1>1, InPlace, EngagedNeedsTiebreak DEF Engaged
<1>3. Update(n, Cast(proc[n], "HAVE_QDISK", TRUE))
  BY <1>2 DEF RunHaveQdisk
<1>4. Place(n, proc[n]) /\ proc[n].pc = "sleep"
  BY DEF SplitInv, DaemonsInPlace, RunHaveQdisk, Beats
<1>5. Place(n, Cast(proc[n], "HAVE_QDISK", TRUE))
  BY <1>1, <1>2, <1>4 DEF Place, Runs, Knows, Counts, Cast, Process, PC, State, Engaged
<1> QED BY <1>1, <1>3, <1>5, UpdateIsQuiet

\* RESIGNED is left for IDLE only.
LEMMA RunResignedQuiet ==
  ASSUME SplitInv, NEW n \in Daemon, RunResigned(n)
  PROVE  QuietStep(n)
<1>1. /\ holder # n
      /\ UNCHANGED <<registered, holder, network, shared, changes, faults>>
  BY DEF RunResigned, Beats, diskVars, clusterVars, HoldingStates
<1>2. PICK s \in {"IDLE", "RESIGNED"} : Update(n, Cast(proc[n], s, FALSE))
  BY DEF RunResigned
<1>3. Place(n, Cast(proc[n], s, FALSE))
  BY <1>1, CastInPlace
<1> QED BY <1>1, <1>2, <1>3, UpdateIsQuiet

\* The holder it keeps for the decision is the holder of the moment.
LEMMA ReadBeforeCommandQuiet ==
  ASSUME SplitInv, NEW n \in Daemon, ReadBeforeCommand(n)
  PROVE  QuietStep(n)
<1>1. /\ proc[n].state \in {"RESERVE_DISK", "RELEASE_QDISK"}
      /\ UNCHANGED <<registered, holder, network, shared, changes, faults>>
  BY DEF ReadBeforeCommand, Beats, diskVars, clusterVars
<1>2. proc[n].state = "RESERVE_DISK"
  BY <1>1, InPlace DEF Engaged
<1> DEFINE q == [proc[n] EXCEPT !.pc = "command", !.saw = holder]
<1>3. Place(n, proc[n]) /\ holder \in Node \cup {NoKey}
  BY NodeAssumption DEF SplitInv, ClusterRests, DaemonsInPlace
<1>4. Place(n, q)
  BY <1>2, <1>3 DEF Place, Runs, Knows, Counts, Process, PC, Engaged
<1> QED BY <1>1, <1>4, UpdateIsQuiet DEF ReadBeforeCommand

\* Handing the vote over changes nothing the decisions rest on.
LEMMA PollQuiet ==
  ASSUME SplitInv, NEW n \in Daemon, Poll(n)
  PROVE  QuietStep(n)
<1> DEFINE q == [proc[n] EXCEPT !.pc = "sleep", !.cast = FALSE,
                                !.beat = IF proc[n].synced THEN "polled" ELSE "silent"]
<1>1. UNCHANGED <<registered, holder, network, shared, changes, faults>> /\ Update(n, q)
  BY DEF Poll, diskVars
<1>2. Place(n, proc[n])
  BY DEF SplitInv, DaemonsInPlace
<1>3. Place(n, q)
  BY <1>2 DEF Place, Runs, Knows, Counts, Process, PC
<1> QED BY <1>1, <1>3, UpdateIsQuiet

\* The refusal is decided on a holder that is still the holder.
LEMMA RefusedQuiet ==
  ASSUME SplitInv, NEW n \in Daemon,
         proc[n].pc = "command", proc[n].state = "RESERVE_DISK",
         UNCHANGED <<registered, holder, network, shared, changes, faults>>,
         ReserveRefused(n, proc[n])
  PROVE  QuietStep(n)
<1>1. holder # n /\ tiebreak_needed(n)
  BY InPlace, EngagedNeedsTiebreak DEF Engaged
<1>2. CASE HolderVisible(n, proc[n].saw) /\ Update(n, Cast(proc[n], "RECV_VOTE", TRUE))
  <2>1. proc[n].saw # NoKey /\ proc[n].saw \in network[n]
    BY <1>1, <1>2, VisibleIsDaemon, HalfIsPartition
  <2>2. holder \in network[n]
    BY <2>1 DEF SplitInv, DaemonsInPlace, Place, Knows
  <2>3. Place(n, Cast(proc[n], "RECV_VOTE", TRUE))
    BY <1>1, <2>2, EngageInPlace
  <2> QED BY <1>2, <2>3, UpdateIsQuiet
<1>3. CASE Update(n, Cast(proc[n], "RESIGNED", FALSE)) \/ Update(n, SkipPoll(proc[n]))
  BY <1>1, <1>3, CastInPlace, SkipInPlace, UpdateIsQuiet
<1> QED BY <1>2, <1>3 DEF ReserveRefused

\* A daemon that obtains the reservation is the first to do so.
LEMMA ObtainedKeeps ==
  ASSUME SplitInv, NEW n \in Daemon,
         proc[n].pc = "command", proc[n].state = "RESERVE_DISK", holder = NoKey,
         holder' = n, UNCHANGED <<registered, network, shared, changes, faults>>,
         Update(n, Cast(proc[n], "HAVE_QDISK", TRUE))
  PROVE  SplitInv'
<1>1. ClusterRests'
  BY DEF SplitInv, ClusterRests
<1>2. NetworkSplitsOnce'
  BY DEF SplitInv, NetworkSplitsOnce
<1>3. proc' = [m \in Daemon |-> proc'[m]]
  BY DEF Update, SplitInv, DaemonsInPlace
<1>4. ASSUME NEW m \in Daemon
      PROVE  Place(m, proc[m])'
  <2>1. Place(m, proc[m]) /\ m \in Node
    BY NodeAssumption DEF SplitInv, DaemonsInPlace
  <2>2. CASE m = n
    <3>1. proc'[m] = Cast(proc[m], "HAVE_QDISK", TRUE)
      BY <2>2 DEF Update, SplitInv, DaemonsInPlace
    <3> QED BY <2>1, <2>2, <3>1
            DEF Place, Runs, Knows, Counts, Cast, Process, PC, State, Engaged
  <2>3. CASE m # n
    <3>1. proc'[m] = proc[m]
      BY <2>3 DEF Update, SplitInv, DaemonsInPlace
    <3>2. holder \notin network[m] /\ holder # m
      BY <2>1, NoKeyAssumption DEF SplitInv, NetworkSplitsOnce
    <3>3. Runs(m, proc[m])'
      BY <2>1, <3>1 DEF Place, Runs
    <3>4. Knows(m, proc[m])'
      BY <2>1, <3>1 DEF Place, Knows
    <3>5. Counts(m, proc[m])'
      BY <2>1, <2>3, <3>1, <3>2 DEF Place, Counts
    <3> QED BY <3>3, <3>4, <3>5 DEF Place
  <2> QED BY <2>2, <2>3
<1> QED BY <1>1, <1>2, <1>3, <1>4 DEF SplitInv, DaemonsInPlace

\* The reserve succeeds on a free disk, or is refused.
LEMMA RunReserveDiskKeeps ==
  ASSUME SplitInv, MaxFaults = 0, NEW n \in Daemon, RunReserveDisk(n)
  PROVE  SplitInv'
<1>1. /\ proc[n].pc = "command" /\ proc[n].state = "RESERVE_DISK"
      /\ UNCHANGED <<network, shared, changes>>
  BY DEF RunReserveDisk, clusterVars
<1>2. PICK out \in Outcome :
        /\ Reserve(n, out)
        /\ Charge(out, Expected(CanReserve(n)))
        /\ IF out = "good" THEN Update(n, Cast(proc[n], "HAVE_QDISK", TRUE))
                           ELSE ReserveRefused(n, proc[n])
  BY DEF RunReserveDisk
<1>3. out = Expected(CanReserve(n)) /\ UNCHANGED <<registered, faults>>
  BY <1>2, NoFaultsLeft DEF Charge, NoFault, Reserve
<1>4. holder # n
  BY <1>1, InPlace
<1>5. CASE CanReserve(n)
  BY <1>1, <1>2, <1>3, <1>4, <1>5, ObtainedKeeps DEF Reserve, CanReserve, Expected
<1>6. CASE ~ CanReserve(n)
  <2>1. holder' = holder /\ ReserveRefused(n, proc[n])
    BY <1>2, <1>3, <1>6 DEF Reserve, Expected
  <2> QED BY <1>1, <1>3, <2>1, RefusedQuiet, QuietStepKeeps
<1> QED BY <1>5, <1>6

\* A notification brings the partition, or whether it is quorate.
LEMMA CallbackQuiet ==
  ASSUME SplitInv, NEW n \in Daemon, Callback(n)
  PROVE  QuietStep(n)
<1>1. UNCHANGED <<registered, holder, network, shared, changes, faults>>
  BY DEF Callback, nodelist_notification_fn, quorum_notification_fn, diskVars, clusterVars
<1>2. Place(n, proc[n]) /\ n \in Node
  BY NodeAssumption DEF SplitInv, DaemonsInPlace
<1>3. CASE nodelist_notification_fn(n)
  <2> DEFINE q == [proc[n] EXCEPT !.view = network[n], !.synced = TRUE]
  <2>1. network[n] \subseteq Node
    BY <1>2 DEF SplitInv, NetworkSplitsOnce
  <2>2. Place(n, q)
    BY <1>2, <2>1 DEF Place, Runs, Knows, Counts, Process
  <2> QED BY <1>1, <1>3, <2>2, UpdateIsQuiet DEF nodelist_notification_fn
<1>4. CASE quorum_notification_fn(n)
  <2> DEFINE q == [proc[n] EXCEPT !.quorate = Quorate(n)]
  <2>1. Quorate(n) \in BOOLEAN
    BY DEF Quorate
  <2>2. Place(n, q)
    BY <1>2, <2>1 DEF Place, Runs, Knows, Counts, Process
  <2> QED BY <1>1, <1>4, <2>2, UpdateIsQuiet DEF quorum_notification_fn
<1> QED BY <1>3, <1>4 DEF Callback

\* Nothing rests on the timeout.
LEMMA TimeoutQuiet ==
  ASSUME SplitInv, NEW n \in Daemon, TimeoutPasses(n)
  PROVE  QuietStep(n)
<1> DEFINE q == [proc[n] EXCEPT !.late = TRUE]
<1>1. UNCHANGED <<registered, holder, network, shared, changes, faults>> /\ Update(n, q)
  BY DEF TimeoutPasses, diskVars, clusterVars
<1>2. Place(n, proc[n])
  BY DEF SplitInv, DaemonsInPlace
<1>3. Place(n, q)
  BY <1>2 DEF Place, Runs, Knows, Counts, Process
<1> QED BY <1>1, <1>3, UpdateIsQuiet

\* The split finds no daemon engaged.
LEMMA NetworkChangeKeeps ==
  ASSUME SplitInv, MaxChanges \in 0..1, NetworkChange
  PROVE  SplitInv'
<1>1. changes = 0 /\ changes' = 1
  BY DEF NetworkChange, SplitInv, NetworkSplitsOnce
<1>2. network' \in Layouts /\ UNCHANGED <<registered, holder, shared, faults>>
  BY DEF NetworkChange
<1>3. ClusterRests'
  BY <1>2 DEF SplitInv, ClusterRests
<1>4. NetworkSplitsOnce'
  BY <1>1, <1>2, LayoutAssumption DEF NetworkSplitsOnce
<1>5. ASSUME NEW m \in Daemon
      PROVE  Place(m, proc[m])'
  <2>1. Place(m, proc[m]) /\ m \in Node
    BY NodeAssumption DEF SplitInv, DaemonsInPlace
  <2>2. network[m] = Node
    BY <1>1, <2>1 DEF SplitInv, NetworkSplitsOnce
  <2>3. proc[m].view = Node /\ proc[m].state \notin Engaged
    BY <1>1, <2>1, <2>2 DEF Place, Knows
  <2> DEFINE on == proc[m].synced /\ network'[m] = network[m]
  <2>4. proc'[m] = [proc[m] EXCEPT !.synced = on]
    BY DEF NetworkChange
  <2>5. on \in BOOLEAN
    BY <2>1 DEF Place, Runs, Process
  <2> HIDE DEF on
  <2>6. Runs(m, proc[m])'
    BY <2>1, <2>4, <2>5 DEF Place, Runs, Process
  <2>7. Knows(m, proc[m])'
    BY <1>2, <2>1, <2>3, <2>4 DEF Place, Runs, Knows, Process
  <2>8. Counts(m, proc[m])'
    BY <1>2, <2>1, <2>3, <2>4 DEF Place, Runs, Counts, Process, Engaged
  <2> QED BY <2>6, <2>7, <2>8 DEF Place
<1>6. proc' = [m \in Daemon |-> proc'[m]]
  BY DEF NetworkChange
<1> QED BY <1>3, <1>4, <1>5, <1>6 DEF SplitInv, DaemonsInPlace

-----------------------------------------------------------------------------
\* A step of one daemon keeps the invariant.
LEMMA DaemonKeeps ==
  ASSUME SplitInv, MaxFaults = 0, NEW n \in Daemon,
         \/ StartDaemon(n) \/ DaemonStep(n) \/ SkipHeartbeat(n) \/ PollFails(n)
         \/ Callback(n) \/ TimeoutPasses(n) \/ VoteExpires(n)
         \/ LeaveLoop(n) \/ Crash(n)
  PROVE  SplitInv'
<1>1. /\ proc[n].pc \in {"sleep", "command", "poll"}
      /\ proc[n].state \notin {"START", "RELEASE_QDISK"}
      /\ ~ Fault
  BY InPlace, NoFaultsLeft DEF Engaged
<1>2. ~ (StartDaemon(n) \/ algorithm_init(n) \/ algorithm_stop(n))
  BY <1>1 DEF StartDaemon, algorithm_init, ValidateKeys, ReleaseLeftover, RegisterKey,
              ShareKeyFails, algorithm_stop, StopRelease, StopUnregister
<1>3. ~ (SkipHeartbeat(n) \/ PollFails(n) \/ LeaveLoop(n) \/ Crash(n))
  BY <1>1 DEF SkipHeartbeat, PollFails, LeaveLoop, Crash
<1>4. ~ (ChecksFail(n) \/ RunStart(n) \/ RunReleaseQdisk(n))
  BY <1>1, ChecksPass DEF RunStart, Beats, RunReleaseQdisk
<1>5. CASE RunIdle(n) \/ RunRecvVote(n) \/ RunHaveQdisk(n) \/ RunResigned(n)
  BY <1>5, RunIdleQuiet, RunRecvVoteQuiet, RunHaveQdiskQuiet, RunResignedQuiet,
     QuietStepKeeps
<1>6. CASE ReadBeforeCommand(n) \/ Poll(n) \/ Callback(n) \/ TimeoutPasses(n)
  BY <1>6, ReadBeforeCommandQuiet, PollQuiet, CallbackQuiet, TimeoutQuiet, QuietStepKeeps
<1>7. CASE RunReserveDisk(n)
  BY <1>7, RunReserveDiskKeeps
<1>8. CASE VoteExpires(n)
  BY <1>8 DEF VoteExpires, SplitInv, ClusterRests, NetworkSplitsOnce, DaemonsInPlace,
              Place, Runs, Knows, Counts
<1> QED BY <1>2, <1>3, <1>4, <1>5, <1>6, <1>7, <1>8
        DEF DaemonStep, algorithm_run, Heartbeat

\* The cluster at rest satisfies the invariant.
LEMMA RestSatisfies == RestInit => SplitInv
<1> SUFFICES ASSUME RestInit PROVE SplitInv
  OBVIOUS
<1>1. ClusterRests /\ NetworkSplitsOnce
  BY NodeAssumption DEF RestInit, ClusterRests, NetworkSplitsOnce
<1>2. AtRest \in Process /\ AtRest.pc = "sleep" /\ AtRest.state = "IDLE"
      /\ AtRest.view = Node
  BY DEF AtRest, Boot, Process, PC, State
<1>3. ASSUME NEW n \in Daemon
      PROVE  proc[n] = AtRest /\ holder # n
  BY NodeAssumption, NoKeyAssumption DEF RestInit
<1>4. ASSUME NEW n \in Daemon
      PROVE  Place(n, proc[n])
  BY <1>2, <1>3 DEF Place, Runs, Knows, Counts, Engaged
<1>5. proc = [n \in Daemon |-> proc[n]]
  BY DEF RestInit
<1> QED BY <1>1, <1>4, <1>5 DEF SplitInv, DaemonsInPlace

\* So does every state after a step.
LEMMA StepKeeps ==
  ASSUME MaxFaults = 0, MaxChanges \in 0..1, SplitInv, [Next]_vars
  PROVE  SplitInv'
<1>1. CASE NetworkChange
  BY <1>1, NetworkChangeKeeps
<1>2. ASSUME NEW n \in Daemon,
             \/ StartDaemon(n) \/ DaemonStep(n) \/ SkipHeartbeat(n) \/ PollFails(n)
             \/ Callback(n) \/ TimeoutPasses(n) \/ VoteExpires(n)
             \/ LeaveLoop(n) \/ Crash(n)
      PROVE  SplitInv'
  BY <1>2, DaemonKeeps
<1>3. CASE UNCHANGED vars
  BY <1>3 DEF vars, SplitInv, ClusterRests, NetworkSplitsOnce, DaemonsInPlace,
              Place, Runs, Knows, Counts
<1> QED BY <1>1, <1>2, <1>3 DEF Next

\* While the first split of a cluster at rest lasts, every node that counts on the
\* reservation can see its holder: each decision of algorithm_run is taken on the
\* holder and the view it is valid for.
THEOREM SplitSafe ==
  ASSUME MaxFaults = 0, MaxChanges \in 0..1
  PROVE  RestSpec => []WinnersOnHoldersSide
<1>1. RestInit => SplitInv
  BY RestSatisfies
<1>2. SplitInv /\ [Next]_vars => SplitInv'
  BY StepKeeps
<1>3. SplitInv => WinnersOnHoldersSide
  <2> SUFFICES ASSUME SplitInv, NEW n \in In({"HAVE_QDISK", "RECV_VOTE"})
               PROVE  holder \in network[n]
    BY DEF WinnersOnHoldersSide
  <2>1. n \in Daemon /\ n \in Node /\ proc[n].state \in {"HAVE_QDISK", "RECV_VOTE"}
    BY NodeAssumption DEF In
  <2>2. n \in network[n]
    BY <2>1 DEF SplitInv, NetworkSplitsOnce
  <2> QED BY <2>1, <2>2 DEF SplitInv, DaemonsInPlace, Place, Counts
<1> QED BY <1>1, <1>2, <1>3, PTL DEF RestSpec
================================================================================
