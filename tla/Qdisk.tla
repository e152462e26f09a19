--------------------------------- MODULE Qdisk ---------------------------------
(***************************************************************************)
(* A cluster whose members run corosync-qdisk against one shared disk.     *)
(*                                                                         *)
(* Each daemon is one thread: a loop that runs algorithm_run every         *)
(* heartbeat and the votequorum callbacks in between.  A heartbeat is cut  *)
(* where another node or corosync can act:                                 *)
(*   - one step reads the disk and takes every decision that needs no      *)
(*     further disk command;                                               *)
(*   - for RESERVE_DISK and RELEASE_QDISK a second step (pc "command")     *)
(*     runs the command and decides with the holder read by the first;     *)
(*   - the last step (pc "poll") hands the vote to votequorum.  The        *)
(*     callbacks vquorum_qdevice_poll dispatches first are steps that may  *)
(*     come before it.                                                     *)
(* Corosync (rings, quorum, votes) is external: it is modelled by what the *)
(* callbacks and calls in vquorum.c rely on.                               *)
(***************************************************************************)
EXTENDS Reservation, Integers, FiniteSets

CONSTANTS Daemon,     \* the members that run a daemon
          Layouts,    \* the networks: each maps a node to its partition
          MaxChanges, \* bound on network changes
          MaxFaults   \* bound on crashes, stops and disk errors

ASSUME NodeAssumption == IsFiniteSet(Node) /\ Daemon \subseteq Node
ASSUME LayoutAssumption ==
  /\ Layouts \subseteq [Node -> SUBSET Node]
  /\ \A net \in Layouts : \A n \in Node : n \in net[n]
ASSUME BoundAssumption == MaxChanges \in Nat /\ MaxFaults \in Nat

VARIABLES network,  \* the current layout
          proc,     \* the daemons: the globals of each process
          shared,   \* the nodes whose key votequorum knows
          vote,     \* does corosync on the node assert the vote of its daemon?
          changes,  \* network changes so far
          faults    \* faults so far

clusterVars == <<network, shared, vote, changes>>
vars == <<registered, holder, network, proc, shared, vote, changes, faults>>

State == {"START", "IDLE", "RESERVE_DISK", "RECV_VOTE", "HAVE_QDISK",
          "RELEASE_QDISK", "RESIGNED"}

PC == {"down", "validate", "clean", "register",     \* algorithm_init
       "sleep", "command", "poll",                  \* the main loop
       "stop", "unregister"}                        \* algorithm_stop

(***************************************************************************)
(* The process: late is "gettime_ms() > timeout_time"; beat says how the   *)
(* last heartbeat ended ("none" before the first complete one, when        *)
(* good_heartbeat_timeout is UINT64_MAX); synced is "g_ring_id is the      *)
(* ring corosync is in"; saw and cast live from the step that computes     *)
(* them to the one that uses them.                                         *)
(***************************************************************************)
Process == [pc : PC, state : State, saw : Node \cup {NoKey}, cast : BOOLEAN,
            late : BOOLEAN, beat : {"none", "polled", "silent"},
            view : SUBSET Node, synced : BOOLEAN, quorate : BOOLEAN]

\* The static initialisers of algorithm.c and vquorum.c.
Boot == [pc |-> "down", state |-> "START", saw |-> NoKey, cast |-> FALSE,
         late |-> TRUE, beat |-> "none",
         view |-> {}, synced |-> FALSE, quorate |-> FALSE]

TypeOK ==
  /\ DiskTypeOK
  /\ network \in Layouts
  /\ proc \in [Daemon -> Process]
  /\ shared \subseteq Daemon
  /\ vote \in [Node -> BOOLEAN]
  /\ changes \in 0..MaxChanges
  /\ faults \in 0..MaxFaults

Init ==
  /\ DiskInit
  /\ network \in Layouts
  /\ proc = [n \in Daemon |-> Boot]
  /\ shared = {}
  /\ vote = [n \in Node |-> FALSE]
  /\ changes = 0
  /\ faults = 0

-----------------------------------------------------------------------------
(* Faults: an outcome the disk would not give by itself is paid for.       *)
NoFault == UNCHANGED faults

Fault == faults < MaxFaults /\ faults' = faults + 1

Charge(out, expected) == IF out = expected THEN NoFault ELSE Fault

Update(n, p) == proc' = [proc EXCEPT ![n] = p]

\* The daemon is in its main loop, at or between heartbeats.
Serving(n) == proc[n].pc \in {"sleep", "command", "poll"}

-----------------------------------------------------------------------------
(* Corosync.                                                               *)

\* total_votes against the quorum of expected_votes = |Node| + 1.  A node adds the vote
\* of its own daemon, and of no other.
Quorate(n) ==
  LET extra == IF vote[n] THEN 1 ELSE 0
  IN  2 * (Cardinality(network[n]) + extra) > Cardinality(Node) + 1

\* A network change gives every partition that differs a new ring.
NetworkChange ==
  /\ changes < MaxChanges
  /\ changes' = changes + 1
  /\ network' \in Layouts \ {network}
  /\ proc' = [n \in Daemon |->
                [proc[n] EXCEPT !.synced = @ /\ network'[n] = network[n]]]
  /\ UNCHANGED <<registered, holder, shared, vote, faults>>

\* The votequorum qdevice timer: no poll came in time.
VoteExpires(n) ==
  /\ vote[n]
  /\ proc[n].beat # "polled"
  /\ vote' = [vote EXCEPT ![n] = FALSE]
  /\ UNCHANGED <<registered, holder, network, proc, shared, changes, faults>>

(* The callbacks, which run in vquorum_init, in the main loop between      *)
(* heartbeats and in the dispatch of vquorum_qdevice_poll.                 *)
Dispatching(n) == proc[n].pc \in {"validate", "sleep", "poll"}

nodelist_notification_fn(n) ==
  /\ Dispatching(n)
  /\ ~ proc[n].synced
  /\ Update(n, [proc[n] EXCEPT !.view = network[n], !.synced = TRUE])
  /\ UNCHANGED <<diskVars, clusterVars, faults>>

quorum_notification_fn(n) ==
  /\ Dispatching(n)
  /\ proc[n].quorate # Quorate(n)
  /\ Update(n, [proc[n] EXCEPT !.quorate = Quorate(n)])
  /\ UNCHANGED <<diskVars, clusterVars, faults>>

Callback(n) == nodelist_notification_fn(n) \/ quorum_notification_fn(n)

-----------------------------------------------------------------------------
(* algorithm_init                                                          *)

StartDaemon(n) ==
  /\ proc[n].pc = "down"
  /\ Update(n, [Boot EXCEPT !.pc = "validate"])
  /\ UNCHANGED <<diskVars, clusterVars, faults>>

\* The process ends after vquorum_qdevice_unregister, or dies without it.
Exit(n) == Update(n, Boot) /\ shared' = shared \ {n}

\* Every key listed for a visible node must be on the disk.  Keys that have not arrived
\* yet are not listed (VQuorum).
ValidateKeys(n) ==
  /\ proc[n].pc = "validate"
  /\ \E known \in SUBSET (proc[n].view \cap shared) :
       \/ /\ known \subseteq registered
          /\ Update(n, [proc[n] EXCEPT !.pc = "clean"])
          /\ NoFault
          /\ UNCHANGED shared
       \/ /\ IF known \subseteq registered THEN Fault ELSE NoFault
          /\ Exit(n)
  /\ UNCHANGED <<diskVars, network, vote, changes>>

\* A reservation of an earlier life is released; nobody looks at the result.
ReleaseLeftover(n) ==
  /\ proc[n].pc = "clean"
  /\ IF holder = n
       THEN \E out \in Outcome : Release(n, out) /\ Charge(out, Expected(CanRelease(n)))
       ELSE UNCHANGED diskVars /\ NoFault
  /\ Update(n, [proc[n] EXCEPT !.pc = "register"])
  /\ UNCHANGED clusterVars

\* Faulty variant: the result of the registration is not looked at.
RegisterKeyUnchecked(n) ==
  /\ proc[n].pc = "register"
  /\ \E out \in Outcome : Register(n, out) /\ Charge(out, "good")
  /\ Update(n, [proc[n] EXCEPT !.pc = "sleep"])
  /\ shared' = shared \cup {n}
  /\ UNCHANGED <<network, vote, changes>>

RegisterKey(n) ==
  /\ proc[n].pc = "register"
  /\ \E out \in Outcome :
       /\ Register(n, out)
       /\ Charge(out, "good")
       /\ IF out = "good"
            THEN /\ Update(n, [proc[n] EXCEPT !.pc = "sleep"])
                 /\ shared' = shared \cup {n}
            ELSE Exit(n)
  /\ UNCHANGED <<network, vote, changes>>

\* The key cannot be shared: the registration just made is taken back.
ShareKeyFails(n) ==
  /\ proc[n].pc = "register"
  /\ Fault
  /\ Unregister(n, "good")
  /\ Exit(n)
  /\ UNCHANGED <<network, vote, changes>>

algorithm_init(n) ==
  ValidateKeys(n) \/ ReleaseLeftover(n) \/ RegisterKey(n) \/ ShareKeyFails(n)

-----------------------------------------------------------------------------
(* algorithm_run: the heartbeat.                                           *)

\* Faulty variant: a holder whose key is known counts as visible.
HolderKnown(n, key) == key \in shared

\* resv_node_visible for the holder read.
HolderVisible(n, key) == key \in proc[n].view \cap shared

\* It stays FALSE for a holder out of sight.  The key of a daemon that has died is with
\* votequorum still, but one that started since has not been told of it.
HolderHidden(n, key) == HolderVisible(n, key) => ~ Serving(key)

\* Exactly half, more than half and less than half of the members.
Halves     == {S \in SUBSET Node : 2 * Cardinality(S) = Cardinality(Node)}
Majorities == {S \in SUBSET Node : 2 * Cardinality(S) > Cardinality(Node)}
Minorities == {S \in SUBSET Node : 2 * Cardinality(S) < Cardinality(Node)}

tiebreak_needed(n) == proc[n].view \in Halves

\* States that may hold the reservation when a heartbeat starts.
HoldingStates == {"HAVE_QDISK", "RELEASE_QDISK", "RESERVE_DISK"}

\* The reads a heartbeat starts with succeed and show nothing unexpected.
Beats(n, s) ==
  /\ proc[n].pc = "sleep"
  /\ proc[n].state = s
  /\ s \notin HoldingStates => holder # n
  /\ n \in registered
  /\ UNCHANGED <<diskVars, clusterVars, faults>>

\* What process p becomes when the heartbeat goes on to state s and its vote ...
Cast(p, s, c) == [p EXCEPT !.pc = "poll", !.state = s, !.cast = c, !.saw = NoKey]

\* ... and when it ends without a poll.
SkipPoll(p) == [p EXCEPT !.pc = "sleep", !.beat = "silent", !.saw = NoKey]

Armed(p) == [p EXCEPT !.late = FALSE]

\* A read fails: nothing is done in this heartbeat.
SkipHeartbeat(n) ==
  /\ proc[n].pc = "sleep"
  /\ proc[n].beat = "polled"
  /\ Fault
  /\ Update(n, SkipPoll(proc[n]))
  /\ UNCHANGED <<diskVars, clusterVars>>

\* Faulty variant: the heartbeat is skipped, the reservation is kept.
UnexpectedlyKept(n) ==
  /\ proc[n].state \notin HoldingStates
  /\ holder = n
  /\ Update(n, SkipPoll(proc[n]))
  /\ UNCHANGED <<diskVars, clusterVars, faults>>

UnexpectedlyHolding(n) ==
  /\ proc[n].state \notin HoldingStates
  /\ holder = n
  /\ \E out \in Outcome : Release(n, out) /\ Charge(out, Expected(CanRelease(n)))
  /\ Update(n, SkipPoll(proc[n]))
  /\ UNCHANGED clusterVars

\* Faulty variant: without its key the daemon only skips the heartbeat.
KeyMissingSkips(n) ==
  /\ proc[n].state \notin HoldingStates => holder # n
  /\ n \notin registered
  /\ Update(n, SkipPoll(proc[n]))
  /\ UNCHANGED <<diskVars, clusterVars, faults>>

\* Our key is gone from the disk: algorithm_stop, exit(1).
KeyExpelled(n) ==
  /\ proc[n].state \notin HoldingStates => holder # n
  /\ n \notin registered
  /\ Update(n, [proc[n] EXCEPT !.pc = "stop"])
  /\ UNCHANGED <<diskVars, clusterVars, faults>>

\* The two checks whose failure ends the heartbeat.
ChecksFail(n) == proc[n].pc = "sleep" /\ (UnexpectedlyHolding(n) \/ KeyExpelled(n))

RunStart(n) ==
  /\ Beats(n, "START")
  /\ Update(n, Cast(proc[n], IF proc[n].quorate THEN "IDLE" ELSE "START", FALSE))

\* Faulty variant: the wait for a holder out of sight has no end.
IdleWaitsInTie(n, p) ==
  \/ HolderVisible(n, holder) /\ Update(n, Cast(Armed(p), "RECV_VOTE", TRUE))
  \/ holder = NoKey /\ Update(n, Cast(Armed(p), "RESERVE_DISK", TRUE))
  \/ holder # NoKey /\ HolderHidden(n, holder) /\ Update(n, Cast(p, "IDLE", TRUE))

\* In a tie: follow a visible holder, race for a free disk, or wait for a holder
\* out of sight, until the timeout, without a poll.
IdleInTie(n, p) ==
  \/ HolderVisible(n, holder) /\ Update(n, Cast(Armed(p), "RECV_VOTE", TRUE))
  \/ holder = NoKey /\ Update(n, Cast(Armed(p), "RESERVE_DISK", TRUE))
  \/ /\ holder # NoKey /\ HolderHidden(n, holder)
     /\ IF p.late THEN Update(n, Cast(p, "RESIGNED", FALSE)) ELSE Update(n, SkipPoll(p))

\* Faulty variant: every view but a tie counts as the whole cluster.
RunIdleTieOnly(n) ==
  LET p == proc[n] IN
  /\ Beats(n, "IDLE")
  /\ \/ tiebreak_needed(n) /\ IdleInTie(n, p)
     \/ ~ tiebreak_needed(n) /\ Update(n, Cast(Armed(p), "IDLE", TRUE))

RunIdle(n) ==
  LET p == proc[n] IN
  /\ Beats(n, "IDLE")
  /\ \/ tiebreak_needed(n) /\ IdleInTie(n, p)
     \/ p.view \in Minorities /\ Update(n, Cast(p, "RESIGNED", FALSE))
     \/ p.view \in Majorities /\ Update(n, Cast(Armed(p), "IDLE", TRUE))

\* Faulty variant: the timeout is not renewed while the holder is visible.
RunRecvVoteOnce(n) ==
  LET p == proc[n] IN
  /\ Beats(n, "RECV_VOTE")
  /\ Update(n, Cast(p, IF p.late THEN "IDLE" ELSE "RECV_VOTE", TRUE))

RunRecvVote(n) ==
  LET p == proc[n] IN
  /\ Beats(n, "RECV_VOTE")
  /\ \/ /\ HolderVisible(n, holder) /\ tiebreak_needed(n)
        /\ Update(n, Cast(Armed(p), "RECV_VOTE", TRUE))
     \/ /\ HolderHidden(n, holder) \/ ~ tiebreak_needed(n)
        /\ Update(n, Cast(p, IF p.late THEN "IDLE" ELSE "RECV_VOTE", TRUE))

\* Faulty variant: the winner does not check that it still holds the reservation.
RunHaveQdiskUnchecked(n) ==
  /\ Beats(n, "HAVE_QDISK")
  /\ Update(n, Cast(proc[n], IF tiebreak_needed(n) THEN "HAVE_QDISK" ELSE "RELEASE_QDISK",
                    TRUE))

\* Losing the reservation aborts the process.
RunHaveQdisk(n) ==
  /\ Beats(n, "HAVE_QDISK")
  /\ \/ holder # n /\ Update(n, Boot)
     \/ holder = n /\ tiebreak_needed(n) /\ Update(n, Cast(proc[n], "HAVE_QDISK", TRUE))
     \/ holder = n /\ ~ tiebreak_needed(n) /\ Update(n, Cast(proc[n], "RELEASE_QDISK", TRUE))

\* Faulty variant: there is no way back from RESIGNED.
RunResignedStays(n) ==
  Beats(n, "RESIGNED") /\ Update(n, Cast(proc[n], "RESIGNED", FALSE))

\* Faulty variant: a node that has resigned tries again after the timeout.
RunResignedRetries(n) ==
  /\ Beats(n, "RESIGNED")
  /\ Update(n, Cast(proc[n], IF proc[n].quorate \/ proc[n].late THEN "IDLE" ELSE "RESIGNED",
                    FALSE))

RunResigned(n) ==
  /\ Beats(n, "RESIGNED")
  /\ Update(n, Cast(proc[n], IF proc[n].quorate THEN "IDLE" ELSE "RESIGNED", FALSE))

\* The two states whose heartbeat goes on to write to the disk.
ReadBeforeCommand(n) ==
  /\ Beats(n, "RESERVE_DISK") \/ Beats(n, "RELEASE_QDISK")
  /\ Update(n, [proc[n] EXCEPT !.pc = "command", !.saw = holder])

\* Faulty variant: the loser of the race resigns, but still sends its vote.
ReserveRefusedVotes(n, p) ==
  \/ HolderVisible(n, p.saw) /\ Update(n, Cast(p, "RECV_VOTE", TRUE))
  \/ p.saw # NoKey /\ HolderHidden(n, p.saw) /\ Update(n, Cast(p, "RESIGNED", TRUE))
  \/ p.saw = NoKey /\ p.late /\ Update(n, Cast(p, "RESIGNED", TRUE))
  \/ p.saw = NoKey /\ ~ p.late /\ Update(n, SkipPoll(p))

\* The reserve fails: the decision is taken with the holder read before it.
ReserveRefused(n, p) ==
  \/ HolderVisible(n, p.saw) /\ Update(n, Cast(p, "RECV_VOTE", TRUE))
  \/ p.saw # NoKey /\ HolderHidden(n, p.saw) /\ Update(n, Cast(p, "RESIGNED", FALSE))
  \/ p.saw = NoKey /\ p.late /\ Update(n, Cast(p, "RESIGNED", FALSE))
  \/ p.saw = NoKey /\ ~ p.late /\ Update(n, SkipPoll(p))

\* Faulty variant: a conflict counts as success.
RunReserveUnchecked(n) ==
  /\ proc[n].pc = "command"
  /\ proc[n].state = "RESERVE_DISK"
  /\ \E out \in Outcome :
       Reserve(n, out) /\ Charge(out, Expected(CanReserve(n)))
  /\ Update(n, Cast(proc[n], "HAVE_QDISK", TRUE))
  /\ UNCHANGED clusterVars

RunReserveDisk(n) ==
  /\ proc[n].pc = "command"
  /\ proc[n].state = "RESERVE_DISK"
  /\ \E out \in Outcome :
       /\ Reserve(n, out)
       /\ Charge(out, Expected(CanReserve(n)))
       /\ IF out = "good" THEN Update(n, Cast(proc[n], "HAVE_QDISK", TRUE))
                          ELSE ReserveRefused(n, proc[n])
  /\ UNCHANGED clusterVars

\* Faulty variant: RELEASE_QDISK repeats the release for ever.
RunReleaseForever(n) ==
  /\ proc[n].pc = "command"
  /\ proc[n].state = "RELEASE_QDISK"
  /\ \E out \in Outcome :
       Release(n, out) /\ Charge(out, Expected(CanRelease(n)))
  /\ Update(n, Cast(proc[n], "RELEASE_QDISK", TRUE))
  /\ UNCHANGED clusterVars

\* A release that fails is repeated unless the disk then shows no holder.
RunReleaseQdisk(n) ==
  /\ proc[n].pc = "command"
  /\ proc[n].state = "RELEASE_QDISK"
  /\ \E out \in Outcome :
       /\ Release(n, out)
       /\ Charge(out, Expected(CanRelease(n)))
       /\ \/ /\ out = "good" \/ holder' = NoKey
             /\ Update(n, Cast(proc[n], "IDLE", TRUE))
          \/ out # "good" /\ Update(n, Cast(proc[n], "RELEASE_QDISK", TRUE))
  /\ UNCHANGED clusterVars

\* vquorum_qdevice_poll: corosync takes the vote only for its current ring.
Poll(n) ==
  LET p == proc[n] IN
  /\ p.pc = "poll"
  /\ vote' = IF p.synced THEN [vote EXCEPT ![n] = p.cast] ELSE vote
  /\ Update(n, [p EXCEPT !.pc = "sleep", !.cast = FALSE,
                         !.beat = IF p.synced THEN "polled" ELSE "silent"])
  /\ UNCHANGED <<diskVars, network, shared, changes, faults>>

\* The dispatch or the poll fails, and nobody looks at the result: corosync hears
\* nothing of this heartbeat.
PollFails(n) ==
  /\ proc[n].pc = "poll"
  /\ Fault
  /\ Update(n, SkipPoll([proc[n] EXCEPT !.cast = FALSE]))
  /\ UNCHANGED <<diskVars, clusterVars>>

\* The effect of time on timeout_time.
TimeoutPasses(n) ==
  /\ Serving(n)
  /\ ~ proc[n].late
  /\ Update(n, [proc[n] EXCEPT !.late = TRUE])
  /\ UNCHANGED <<diskVars, clusterVars, faults>>

Heartbeat(n) ==
  \/ ChecksFail(n) \/ RunStart(n) \/ RunIdle(n) \/ RunRecvVote(n)
  \/ RunHaveQdisk(n) \/ RunResigned(n) \/ ReadBeforeCommand(n)

algorithm_run(n) ==
  Heartbeat(n) \/ RunReserveDisk(n) \/ RunReleaseQdisk(n) \/ Poll(n)

-----------------------------------------------------------------------------
(* The end of a process.                                                   *)

\* A signal stops the main loop, or too many heartbeats were skipped in a row.
LeaveLoop(n) ==
  /\ proc[n].pc = "sleep"
  /\ Fault
  /\ Update(n, [proc[n] EXCEPT !.pc = "stop"])
  /\ UNCHANGED <<diskVars, clusterVars>>

StopRelease(n) ==
  /\ proc[n].pc = "stop"
  /\ \E out \in Outcome : Release(n, out) /\ Charge(out, Expected(CanRelease(n)))
  /\ Update(n, [proc[n] EXCEPT !.pc = "unregister"])
  /\ UNCHANGED clusterVars

\* Faulty variant: the key stays on the disk.
StopKeepsKey(n) ==
  /\ proc[n].pc = "unregister"
  /\ Exit(n)
  /\ UNCHANGED <<diskVars, network, vote, changes, faults>>

StopUnregister(n) ==
  /\ proc[n].pc = "unregister"
  /\ \E out \in Outcome : Unregister(n, out) /\ Charge(out, "good")
  /\ Exit(n)
  /\ UNCHANGED <<network, vote, changes>>

algorithm_stop(n) == StopRelease(n) \/ StopUnregister(n)

\* The process dies where it is: disk and votequorum keep what they know.
Crash(n) ==
  /\ proc[n].pc # "down"
  /\ Fault
  /\ Update(n, Boot)
  /\ UNCHANGED <<diskVars, clusterVars>>

-----------------------------------------------------------------------------
DaemonStep(n) == algorithm_init(n) \/ algorithm_run(n) \/ algorithm_stop(n)

Next ==
  \/ NetworkChange
  \/ \E n \in Daemon :
       \/ StartDaemon(n) \/ DaemonStep(n) \/ SkipHeartbeat(n) \/ PollFails(n)
       \/ Callback(n) \/ TimeoutPasses(n) \/ VoteExpires(n)
       \/ LeaveLoop(n) \/ Crash(n)

Spec == Init /\ [][Next]_vars

(***************************************************************************)
(* Fairness.  timer_cb re-arms itself before it runs a heartbeat, so a     *)
(* running daemon goes on; time passes, and corosync expires a vote that   *)
(* is not renewed.  A callback waits while a heartbeat runs, hence strong  *)
(* fairness: qb_loop polls the votequorum descriptor after every timer.    *)
(* Nothing forces a start, a fault or a network change.                    *)
(***************************************************************************)
Fairness ==
  \A n \in Daemon :
    /\ WF_vars(DaemonStep(n))
    /\ WF_vars(TimeoutPasses(n))
    /\ WF_vars(VoteExpires(n))
    /\ SF_vars(nodelist_notification_fn(n))
    /\ SF_vars(quorum_notification_fn(n))

FairSpec == Spec /\ Fairness

-----------------------------------------------------------------------------
(* A cluster at rest: all members see each other, every daemon is in IDLE  *)
(* and casts its vote.                                                     *)
AtRest == [Boot EXCEPT !.pc = "sleep", !.state = "IDLE", !.late = FALSE,
                       !.beat = "polled", !.view = Node, !.synced = TRUE,
                       !.quorate = TRUE]

RestInit ==
  /\ registered = Daemon
  /\ holder = NoKey
  /\ network = [n \in Node |-> Node]
  /\ proc = [n \in Daemon |-> AtRest]
  /\ shared = Daemon
  /\ vote = [n \in Node |-> n \in Daemon]
  /\ changes = 0
  /\ faults = 0

RestSpec == RestInit /\ [][Next]_vars

-----------------------------------------------------------------------------
(* Properties.                                                             *)

\* A running daemon in HAVE_QDISK (a winner) holds the reservation: two nodes are never
\* winners together, and the abort of algorithm.c:393-397 is not reached while
\* only daemons write to the disk.
Winning(n) == Serving(n) /\ proc[n].state = "HAVE_QDISK"

HaveQdiskHolds == \A n \in Daemon : Winning(n) => holder = n

\* A daemon that dies with the reservation keeps everybody else from it until it has
\* started again (algorithm.c:130): no step of another node frees or takes it, so the
\* half that lost the tie cannot win it by the winner's crash.
DeadHolderKeeps ==
  [][\A n \in Daemon :
       holder = n /\ proc[n].pc \in {"down", "validate"} => holder' = n]_vars

\* Design.md: the partition which fails in reserving the disk rescinds the vote.  A
\* daemon that waits in START or RESIGNED does not vote once a heartbeat of its
\* has reached corosync, whatever was cast, skipped or ignored before.
ResignedDoesNotVote ==
  \A n \in Daemon :
    /\ proc[n].pc = "sleep" /\ proc[n].beat = "polled"
    /\ proc[n].state \in {"START", "RESIGNED"}
    => ~ vote[n]

\* Design.md: nodes that lost the tie wait in RESIGNED for a quorum.  A half that has
\* given up, with no vote and no daemon beyond START or RESIGNED, does not come back as
\* long as the split lasts: not by a crash or a restart of its daemons or of the
\* winner, a timeout, or a quorum notification that comes late.
GivenUp(half) ==
  /\ half \in Halves
  /\ \A n \in half : network[n] = half /\ ~ vote[n]
  /\ \A n \in Daemon \cap half :
       /\ ~ proc[n].quorate
       /\ Serving(n) => proc[n].state \in {"START", "RESIGNED"}

LostTieStays ==
  [][\A half \in SUBSET Node :
       GivenUp(half) /\ network' = network => GivenUp(half)']_vars

\* Design.md: the partition that has the reservation keeps the vote.  In a tie that
\* lasts, a winner goes on winning, and those of its half that follow it go on
\* following, for as long as its process and theirs run: the race of the others,
\* their failures and their restarts do not disturb them, nor a skipped heartbeat.
KnowsTie(n) == Serving(n) /\ proc[n].synced /\ network[n] \in Halves

CountsOn(n, w) ==
  /\ KnowsTie(n) /\ proc[n].state \in {"HAVE_QDISK", "RECV_VOTE"}
  /\ KnowsTie(w) /\ Winning(w) /\ holder = w /\ w \in network[n]

WonTieStays ==
  [][\A n, w \in Daemon :
       CountsOn(n, w) /\ network' = network /\ Serving(n)' /\ Serving(w)'
         => CountsOn(n, w)']_vars

\* The key of a running daemon stays registered whatever the others do, so
\* the exit of algorithm.c:290-297 is not reached either, and no holder is left
\* without a registration.
ServingIsRegistered ==
  \A n \in Daemon : Serving(n) => n \in registered

\* The daemons implement the lock: the holder changes only through a release
\* by a holder that has stopped being the winner, across crashes, restarts,
\* lost replies and stale reads.
Lock == INSTANCE Tiebreaker
          WITH None <- NoKey, owner <- holder,
               winners <- {n \in Daemon : Winning(n)}

LockSpec == Lock!Spec

\* The running daemons in one of the given states.
In(states) == {n \in Daemon : Serving(n) /\ proc[n].state \in states}

\* However the two halves race, the vote ends up on one side: in a lasting tie
\* two nodes that cannot see each other do not both assert it for ever.
\* (Design.md: the partition which fails in reserving the disk will rescind the
\* QDisk vote.)
LastingTieHasOneSide ==
  \A m \in Daemon : \A n \in Daemon :
    <>[](network[n] \in Halves /\ network[m] \in Halves /\ m \notin network[n])
      => <>[](~ vote[m] \/ ~ vote[n])

\* Design.md: nodes in a partition larger than half the cluster remain in, or
\* transition to, IDLE; this includes the heal after a tie, where the winner
\* gives the reservation back and the loser leaves RESIGNED.
MajorityReturnsToIdle ==
  \A n \in Daemon :
    <>[](network[n] \in Majorities /\ n \in In(State))
      => <>[](n \in In({"IDLE"}) /\ holder # n)

\* Design.md: nodes in a partition too small to support quorum even with the
\* extra vote transition to RESIGNED, or wait in START; they then neither vote
\* nor keep the reservation from the others.
MinorityYields ==
  \A n \in Daemon :
    <>[](network[n] \in Minorities /\ n \in In(State))
      => <>[](n \in In({"START", "RESIGNED"}) /\ ~ vote[n] /\ holder # n)

\* A reservation its holder does not use as the winner of a tie (a lost reply to
\* a reserve, a leftover of a crash) is released once the daemon runs.
UnusedReservationReleased ==
  \A n \in Daemon :
    <>[](n \in In(State \ {"HAVE_QDISK"})) => <>[](holder # n)

\* A daemon that gives up, by a signal, after too many skipped heartbeats or without
\* its key, leaves neither reservation nor registration nor vote behind if no command
\* fails on the way, until it serves again.  Design.md, "Normal Shutdown": release
\* any reservation, unregister the key.
StopGivesUp ==
  \A n \in Daemon :
    proc[n].pc = "stop" /\ faults = MaxFaults
      ~> Serving(n) \/ (holder # n /\ n \notin registered /\ ~ vote[n])

\* Design.md, "When tiebreaking is required": a cluster that splits in two halves
\* ends with one node in HAVE_QDISK, the others of its half in RECV_VOTE, all
\* casting the vote, and the other half RESIGNED and without it.
Settled ==
  \E w \in In({"HAVE_QDISK"}) : \A n \in Daemon :
    IF n \in network[w]
      THEN n \in In({"HAVE_QDISK", "RECV_VOTE"}) /\ vote[n]
      ELSE n \in In({"RESIGNED"}) /\ ~ vote[n]

TieLasts == <>[](\A n \in Node : network[n] \in Halves)

SplitSettles == TieLasts => <>[] Settled

\* What the code keeps of it, also when a daemon fails: in a lasting split in halves
\* every daemon comes to rest, as the winner or a follower of a holder in sight, with
\* its vote, or without one where it has given up, waits for a quorum or is down.
\* That nobody wins takes a fault, or more changes than a split and another one.
Decided(n) ==
  \/ Winning(n) /\ vote[n]
  \/ n \in In({"RECV_VOTE"}) /\ holder \in network[n] /\ vote[n]
  \/ n \notin In(State \ {"START", "RESIGNED"}) /\ ~ vote[n]

SomebodyWins == \E n \in Daemon : Winning(n)

SplitDecides ==
  TieLasts => <>[](/\ \A n \in Daemon : Decided(n)
                   /\ faults > 0 \/ changes > 2 \/ SomebodyWins)

\* While the first split of a cluster at rest lasts, the nodes that count on the
\* reservation are all on its holder's side: no decision taken on a stale view,
\* a stale holder or an expired timeout puts a winner into each half.
WinnersOnHoldersSide ==
  \A n \in In({"HAVE_QDISK", "RECV_VOTE"}) : holder \in network[n]
================================================================================
