------------------------------- MODULE TieProofs -------------------------------
(***************************************************************************)
(* Proofs about Qdisk: a tie that is decided stays decided while the split *)
(* lasts, on the side that lost it and on the side that won it.  Neither   *)
(* needs that nothing fails.                                               *)
(***************************************************************************)
EXTENDS QdiskProofs, FiniteSetTheorems

-----------------------------------------------------------------------------
(* The half that has given up.  A process p of it waits and is not told of *)
(* a quorum, and so it will be.                                            *)
Beaten(p) ==
  /\ ~ p.quorate
  /\ p.pc \in {"sleep", "command", "poll"} => p.state \in Waiting

\* Half of the members is no quorum without the vote of the disk.
LEMMA NoQuorumWithoutVote ==
  ASSUME NEW half, GivenUp(half), NEW n \in half
  PROVE  ~ Quorate(n)
<1> DEFINE size == Cardinality(half)
<1>1. size \in Nat /\ Cardinality(Node) = 2 * size
  BY NodeAssumption, FS_CardinalityType, FS_Subset DEF GivenUp, Halves
<1>2. network[n] = half /\ \A m \in half : ~ vote[m]
  BY DEF GivenUp
<1>3. ~ vote[n]
  BY <1>2
<1>4. Quorate(n) <=> 2 * (size + 0) > 2 * size + 1
  BY <1>1, <1>2, <1>3 DEF Quorate
<1> HIDE DEF size
<1> QED BY <1>1, <1>4

\* A process that starts, ends or goes on in START is beaten.
LEMMA BeatenProcesses ==
  ASSUME NEW p \in Process, Beaten(p)
  PROVE  /\ Beaten(Boot) /\ Beaten([Boot EXCEPT !.pc = "validate"])
         /\ \A l \in PC : p.state \in Waiting \/ l \in {"stop", "unregister"}
                            => Beaten([p EXCEPT !.pc = l])
         /\ p.state \in Waiting
              => Beaten(SkipPoll(p)) /\ \A s \in Waiting : \A c : Beaten(Cast(p, s, c))
BY DEF Beaten, Boot, Process, SkipPoll, Cast, Waiting

\* The process of n becomes q.
LEMMA BecomesBeaten ==
  ASSUME TInv, NEW n \in Daemon, NEW q, Update(n, q), Beaten(q)
  PROVE  Beaten(proc'[n])
<1>1. proc'[n] = q
  BY DEF Update, TInv, TypeOK
<1> QED BY <1>1

\* A beaten daemon that starts again, stops or dies waits in START.
LEMMA StartOrEndStaysBeaten ==
  ASSUME TInv, NEW n \in Daemon, Beaten(proc[n]),
         \/ StartDaemon(n) \/ algorithm_init(n)
         \/ LeaveLoop(n) \/ algorithm_stop(n) \/ Crash(n)
  PROVE  Beaten(proc'[n])
<1>1. proc[n] \in Process /\ (proc[n].pc \in {"validate", "clean", "register"}
                                => proc[n].state \in Waiting)
  BY DEF TInv, TypeOK, StartsInStart, Waiting
<1>2. CASE Update(n, Boot) \/ Update(n, [Boot EXCEPT !.pc = "validate"])
  BY <1>1, <1>2, BeatenProcesses, BecomesBeaten
<1>3. CASE /\ proc[n].state \in Waiting
           /\ \E l \in {"clean", "register", "sleep"} : Update(n, [proc[n] EXCEPT !.pc = l])
  BY <1>1, <1>3, BeatenProcesses, BecomesBeaten DEF PC
<1>4. CASE \E l \in {"stop", "unregister"} : Update(n, [proc[n] EXCEPT !.pc = l])
  BY <1>1, <1>4, BeatenProcesses, BecomesBeaten DEF PC
<1>5. StartDaemon(n) \/ StopUnregister(n) \/ Crash(n) \/ ShareKeyFails(n)
        => Update(n, Boot) \/ Update(n, [Boot EXCEPT !.pc = "validate"])
  BY DEF StartDaemon, StopUnregister, Crash, ShareKeyFails, Exit
<1>6. ValidateKeys(n) \/ ReleaseLeftover(n) \/ RegisterKey(n)
        => \/ Update(n, Boot)
           \/ /\ proc[n].state \in Waiting
              /\ \E l \in {"clean", "register", "sleep"} : Update(n, [proc[n] EXCEPT !.pc = l])
  BY <1>1 DEF ValidateKeys, ReleaseLeftover, RegisterKey, Exit
<1>7. LeaveLoop(n) \/ StopRelease(n)
        => \E l \in {"stop", "unregister"} : Update(n, [proc[n] EXCEPT !.pc = l])
  BY DEF LeaveLoop, StopRelease
<1> QED BY <1>2, <1>3, <1>4, <1>5, <1>6, <1>7 DEF algorithm_init, algorithm_stop

\* A heartbeat of START or RESIGNED without quorum waits on.
LEMMA HeartbeatStaysBeaten ==
  ASSUME TInv, NEW n \in Daemon, Beaten(proc[n]),
         \/ Heartbeat(n) \/ SkipHeartbeat(n) \/ RunReserveDisk(n) \/ RunReleaseQdisk(n)
  PROVE  Beaten(proc'[n])
<1>1. proc[n] \in Process /\ (proc[n].pc \in {"sleep", "command"} => proc[n].state \in Waiting)
  BY DEF TInv, TypeOK, Beaten
<1>2. CASE RunStart(n) \/ RunResigned(n)
  <2>1. \E s \in Waiting : Update(n, Cast(proc[n], s, FALSE)) /\ proc[n].state \in Waiting
    BY <1>2 DEF RunStart, RunResigned, Beats, Beaten, Waiting
  <2> QED BY <1>1, <2>1, BeatenProcesses, BecomesBeaten
<1>3. CASE ChecksFail(n) \/ SkipHeartbeat(n)
  <2>1. /\ proc[n].state \in Waiting
        /\ Update(n, SkipPoll(proc[n])) \/ Update(n, [proc[n] EXCEPT !.pc = "stop"])
    BY <1>1, <1>3 DEF ChecksFail, UnexpectedlyHolding, KeyExpelled, SkipHeartbeat
  <2> QED BY <1>1, <2>1, BeatenProcesses, BecomesBeaten DEF PC
<1>4. ~ RunIdle(n) /\ ~ RunRecvVote(n) /\ ~ RunHaveQdisk(n) /\ ~ ReadBeforeCommand(n)
      /\ ~ RunReserveDisk(n) /\ ~ RunReleaseQdisk(n)
  BY <1>1 DEF RunIdle, RunRecvVote, RunHaveQdisk, ReadBeforeCommand, Beats, RunReserveDisk,
              RunReleaseQdisk, Waiting
<1> QED BY <1>2, <1>3, <1>4 DEF Heartbeat

\* Polls, callbacks and time change neither state nor, without quorum, the flag.
LEMMA PollStaysBeaten ==
  ASSUME TInv, NEW n \in Daemon, Beaten(proc[n]), ~ Quorate(n),
         Poll(n) \/ PollFails(n) \/ Callback(n) \/ TimeoutPasses(n)
  PROVE  Beaten(proc'[n])
<1>1. proc[n] \in Process
  BY DEF TInv, TypeOK
<1>2. CASE Poll(n)
  <2> DEFINE q == [proc[n] EXCEPT !.pc = "sleep", !.cast = FALSE,
                                  !.beat = IF proc[n].synced THEN "polled" ELSE "silent"]
  <2>1. Beaten(q)
    BY <1>1, <1>2 DEF Beaten, Process, Poll
  <2>2. Update(n, q)
    BY <1>2 DEF Poll
  <2> HIDE DEF q
  <2> QED BY <2>1, <2>2, BecomesBeaten
<1>3. CASE Callback(n) \/ TimeoutPasses(n)
  <2>1. /\ Beaten([proc[n] EXCEPT !.view = network[n], !.synced = TRUE])
        /\ Beaten([proc[n] EXCEPT !.quorate = Quorate(n)])
        /\ Beaten([proc[n] EXCEPT !.late = TRUE])
    BY <1>1 DEF Beaten, Process
  <2>2. PICK q : Update(n, q) /\ Beaten(q)
    BY <1>3, <2>1 DEF Callback, nodelist_notification_fn, quorum_notification_fn, TimeoutPasses
  <2> QED BY <2>2, BecomesBeaten
<1>4. CASE PollFails(n)
  <2>1. Beaten(SkipPoll([proc[n] EXCEPT !.cast = FALSE]))
    BY <1>1, <1>4 DEF Beaten, Process, SkipPoll, PollFails
  <2> QED BY <1>4, <2>1, BecomesBeaten DEF PollFails
<1> QED BY <1>2, <1>3, <1>4

\* A daemon of a beaten half casts no vote.
LEMMA BeatenDoesNotVote ==
  ASSUME TInv, VoteInv, NEW n \in Daemon, Beaten(proc[n]), ~ vote[n], ProcessStep(n)
  PROVE  ~ vote'[n]
<1>1. CASE Poll(n)
  <2>1. ~ proc[n].cast
    BY <1>1 DEF Poll, VoteInv, Honest, Beaten
  <2> QED BY <1>1, <2>1, NodeAssumption DEF Poll, TInv, TypeOK
<1>2. CASE ~ Poll(n)
  BY <1>2, VoteMovesInPoll
<1> QED BY <1>1, <1>2

\* A step keeps a half that has given up as it is.
LEMMA StepKeepsGivenUp ==
  ASSUME TInv, VoteInv, [Next]_vars, NEW half \in SUBSET Node, GivenUp(half),
         UNCHANGED network
  PROVE  GivenUp(half)'
<1>0. \A n \in Daemon \cap half : Beaten(proc[n])
  BY DEF GivenUp, Beaten, Serving, Waiting
<1>1. (/\ \A n \in half : ~ vote'[n]
       /\ \A n \in Daemon \cap half : Beaten(proc'[n])) => GivenUp(half)'
  BY DEF GivenUp, Beaten, Serving, Waiting
<1>2. CASE \E m \in Daemon : ProcessStep(m)
  <2>1. PICK m \in Daemon : ProcessStep(m)
    BY <1>2
  <2>2. ASSUME NEW n \in half, n # m
        PROVE  ~ vote'[n] /\ (n \in Daemon => Beaten(proc'[n]))
    BY <1>0, <2>1, <2>2, OthersVote, ProcessStepIsOwn, OthersKept DEF GivenUp
  <2>3. ASSUME m \in half
        PROVE  ~ vote'[m] /\ Beaten(proc'[m])
    <3>1. Beaten(proc[m]) /\ ~ vote[m] /\ ~ Quorate(m)
      BY <1>0, <2>3, NoQuorumWithoutVote DEF GivenUp
    <3>2. ~ vote'[m]
      BY <2>1, <3>1, BeatenDoesNotVote
    <3>3. Beaten(proc'[m])
      BY <2>1, <3>1, StartOrEndStaysBeaten, HeartbeatStaysBeaten, PollStaysBeaten
         DEF ProcessStep, DaemonStep, algorithm_run
    <3> QED BY <3>2, <3>3
  <2> QED BY <1>1, <2>2, <2>3
<1>3. CASE \E m \in Daemon : VoteExpires(m)
  <2>1. proc' = proc /\ \A n \in half : ~ vote'[n]
    BY <1>3 DEF VoteExpires, TInv, TypeOK, GivenUp
  <2> QED BY <1>0, <1>1, <2>1
<1>4. CASE UNCHANGED vars
  BY <1>0, <1>1, <1>4 DEF vars, GivenUp
<1>5. ~ NetworkChange
  BY DEF NetworkChange
<1> QED BY <1>2, <1>3, <1>4, <1>5 DEF Next, ProcessStep

(* A half that has given up does not come back as long as the split lasts, *)
(* whatever fails, starts or times out on either side.                     *)
THEOREM LostStays == Spec => LostTieStays
<1> DEFINE Keeps == \A half \in SUBSET Node :
             GivenUp(half) /\ network' = network => GivenUp(half)'
<1>1. TInv /\ VoteInv /\ [Next]_vars => [Keeps]_vars
  BY StepKeepsGivenUp
<1>2. IInv => TInv
  BY DEF IInv
<1> QED BY <1>1, <1>2, InitIsVoteInv, NextKeepsHonest, Invariance, PTL DEF Spec, LostTieStays

-----------------------------------------------------------------------------
(* The half that has won.  What its daemons know is still so: a ring that  *)
(* is the current one came with its members, and who runs has shared its   *)
(* key.                                                                    *)
SyncedSeesNetwork == \A n \in Daemon : proc[n].synced => proc[n].view = network[n]

ServingIsShared == \A n \in Daemon : Serving(n) => n \in shared

KnownInv == SyncedSeesNetwork /\ ServingIsShared

\* Process q has no ring that p did not have.
SameRing(p, q) == q.synced => p.synced /\ q.view = p.view

\* The processes a step may produce have no new ring.
LEMMA SameRings ==
  ASSUME NEW p \in Process
  PROVE  /\ SameRing(p, Boot) /\ SameRing(p, [Boot EXCEPT !.pc = "validate"])
         /\ SameRing(p, SkipPoll(p)) /\ SameRing(p, [p EXCEPT !.late = TRUE])
         /\ SameRing(p, SkipPoll([p EXCEPT !.cast = FALSE]))
         /\ \A l : SameRing(p, [p EXCEPT !.pc = l])
         /\ \A l, k : SameRing(p, [p EXCEPT !.pc = l, !.saw = k])
         /\ \A b : SameRing(p, [p EXCEPT !.quorate = b])
         /\ \A s, c : SameRing(p, Cast(p, s, c)) /\ SameRing(p, Cast(Armed(p), s, c))
         /\ \A b : SameRing(p, [p EXCEPT !.pc = "sleep", !.cast = FALSE, !.beat = b])
BY DEF SameRing, Boot, SkipPoll, Cast, Armed, Process

\* Only the nodelist callback brings a ring.
LEMMA RingFromNodelist ==
  ASSUME TInv, NEW n \in Daemon, ProcessStep(n), ~ nodelist_notification_fn(n)
  PROVE  SameRing(proc[n], proc'[n])
<1>1. proc[n] \in Process
  BY DEF TInv, TypeOK
<1>2. \A q : Update(n, q) /\ SameRing(proc[n], q) => SameRing(proc[n], proc'[n])
  BY DEF TInv, TypeOK, Update
<1>3. StartDaemon(n) \/ algorithm_init(n) \/ LeaveLoop(n) \/ algorithm_stop(n) \/ Crash(n)
        => \E q : Update(n, q) /\ SameRing(proc[n], q)
  BY <1>1, SameRings
     DEF StartDaemon, algorithm_init, ValidateKeys, ReleaseLeftover, RegisterKey, ShareKeyFails,
         Exit, LeaveLoop, algorithm_stop, StopRelease, StopUnregister, Crash
<1>4. ChecksFail(n) \/ SkipHeartbeat(n) \/ ReadBeforeCommand(n) \/ RunStart(n) \/ RunResigned(n)
        => \E q : Update(n, q) /\ SameRing(proc[n], q)
  BY <1>1, SameRings
     DEF ChecksFail, UnexpectedlyHolding, KeyExpelled, SkipHeartbeat, ReadBeforeCommand, RunStart,
         RunResigned
<1>5. RunIdle(n) \/ RunRecvVote(n) \/ RunHaveQdisk(n)
        => \E q : Update(n, q) /\ SameRing(proc[n], q)
  BY <1>1, SameRings DEF RunIdle, IdleInTie, RunRecvVote, RunHaveQdisk
<1>6. RunReserveDisk(n) \/ RunReleaseQdisk(n) \/ Poll(n) \/ PollFails(n) \/ TimeoutPasses(n)
      \/ quorum_notification_fn(n)
        => \E q : Update(n, q) /\ SameRing(proc[n], q)
  BY <1>1, SameRings
     DEF RunReserveDisk, ReserveRefused, RunReleaseQdisk, Poll, PollFails, TimeoutPasses,
         quorum_notification_fn
<1> QED BY <1>2, <1>3, <1>4, <1>5, <1>6
    DEF ProcessStep, DaemonStep, algorithm_run, Heartbeat, Callback

\* A daemon leaves the network alone.
LEMMA NetworkStays ==
  ASSUME NEW n \in Daemon, ProcessStep(n)
  PROVE  UNCHANGED network
<1>1. StartDaemon(n) \/ algorithm_init(n) \/ algorithm_stop(n) => UNCHANGED network
  BY DEF StartDaemon, algorithm_init, ValidateKeys, ReleaseLeftover, RegisterKey, ShareKeyFails,
         algorithm_stop, StopRelease, StopUnregister, clusterVars
<1>2. algorithm_run(n) => UNCHANGED network
  BY DEF algorithm_run, Heartbeat, ChecksFail, UnexpectedlyHolding, KeyExpelled, RunStart,
         RunIdle, RunRecvVote, RunHaveQdisk, RunResigned, ReadBeforeCommand, Beats,
         RunReserveDisk, RunReleaseQdisk, Poll, clusterVars
<1>3. Callback(n) \/ SkipHeartbeat(n) \/ PollFails(n) \/ TimeoutPasses(n) \/ LeaveLoop(n)
      \/ Crash(n) => UNCHANGED network
  BY DEF Callback, nodelist_notification_fn, quorum_notification_fn, SkipHeartbeat, PollFails,
         TimeoutPasses, LeaveLoop, Crash, clusterVars
<1> QED BY <1>1, <1>2, <1>3 DEF ProcessStep, DaemonStep

\* A key is shared on the way into the main loop and withdrawn outside it.
LEMMA SharedWhileServing ==
  ASSUME TInv, NEW n \in Daemon, ProcessStep(n)
  PROVE  \/ shared' = shared \cup {n}
         \/ shared' = shared \ {n} /\ ~ Serving(n)'
         \/ shared' = shared /\ (Serving(n)' => Serving(n))
<1>1. proc[n] \in Process /\ \A q : Update(n, q) => proc'[n] = q
  BY DEF TInv, TypeOK, Update
<1>2. CASE algorithm_init(n) \/ StartDaemon(n)
  BY <1>1, <1>2 DEF algorithm_init, ValidateKeys, ReleaseLeftover, RegisterKey, ShareKeyFails,
                    StartDaemon, Exit, Serving, Boot, Process, clusterVars
<1>3. CASE algorithm_stop(n) \/ Crash(n) \/ LeaveLoop(n)
  BY <1>1, <1>3 DEF algorithm_stop, StopRelease, StopUnregister, Crash, LeaveLoop, Exit, Serving,
                    Boot, Process, clusterVars
<1>4. CASE Callback(n) \/ TimeoutPasses(n)
  BY <1>1, <1>4 DEF Callback, nodelist_notification_fn, quorum_notification_fn, TimeoutPasses,
                    Serving, Process, clusterVars
<1>5. CASE algorithm_run(n) \/ SkipHeartbeat(n) \/ PollFails(n)
  BY <1>5 DEF algorithm_run, Heartbeat, ChecksFail, UnexpectedlyHolding, KeyExpelled, RunStart,
              RunIdle, RunRecvVote, RunHaveQdisk, RunResigned, ReadBeforeCommand, Beats,
              RunReserveDisk, RunReleaseQdisk, Poll, SkipHeartbeat, PollFails, Serving,
              clusterVars
<1> QED BY <1>2, <1>3, <1>4, <1>5 DEF ProcessStep, DaemonStep

\* Every step keeps what is known.
LEMMA NextKeepsKnown == TInv /\ KnownInv /\ [Next]_vars => KnownInv'
<1> SUFFICES ASSUME TInv, KnownInv, [Next]_vars, NEW m \in Daemon
             PROVE  /\ proc'[m].synced => proc'[m].view = network'[m]
                    /\ Serving(m)' => m \in shared'
  BY DEF KnownInv, SyncedSeesNetwork, ServingIsShared
<1>0. /\ proc[m] \in Process
      /\ proc[m].synced => proc[m].view = network[m]
      /\ Serving(m) => m \in shared
  BY DEF KnownInv, SyncedSeesNetwork, ServingIsShared, TInv, TypeOK
<1>1. CASE NetworkChange
  <2>1. proc'[m] = [proc[m] EXCEPT !.synced = @ /\ network'[m] = network[m]]
    BY <1>1 DEF NetworkChange
  <2> QED BY <1>0, <1>1, <2>1 DEF NetworkChange, Process, Serving
<1>2. CASE \E n \in Daemon : VoteExpires(n)
  BY <1>0, <1>2 DEF VoteExpires, Serving
<1>3. CASE \E n \in Daemon : ProcessStep(n)
  <2>1. PICK n \in Daemon : ProcessStep(n)
    BY <1>3
  <2>2. UNCHANGED network
    BY <2>1, NetworkStays
  <2>3. CASE m # n
    <3>1. proc'[m] = proc[m]
      BY <2>1, <2>3, ProcessStepIsOwn, OthersKept
    <3>2. m \in shared => m \in shared'
      BY <2>1, <2>3, SharedWhileServing
    <3> QED BY <1>0, <2>2, <3>1, <3>2 DEF Serving
  <2>4. CASE m = n
    <3>1. Serving(m)' => m \in shared'
      BY <1>0, <2>1, <2>4, SharedWhileServing
    <3>2. CASE nodelist_notification_fn(m)
      <4>1. proc'[m] = [proc[m] EXCEPT !.view = network[m], !.synced = TRUE]
        BY <3>2 DEF nodelist_notification_fn, Update, TInv, TypeOK
      <4> QED BY <1>0, <2>2, <3>1, <4>1 DEF Process
    <3>3. CASE ~ nodelist_notification_fn(m)
      BY <1>0, <2>1, <2>2, <2>4, <3>1, <3>3, RingFromNodelist DEF SameRing
    <3> QED BY <3>2, <3>3
  <2> QED BY <2>3, <2>4
<1>4. CASE UNCHANGED vars
  BY <1>0, <1>4 DEF vars, Serving
<1> QED BY <1>1, <1>2, <1>3, <1>4 DEF Next, ProcessStep

\* A cluster of daemons that have not started knows nothing.
LEMMA InitIsKnownInv == Init => KnownInv
<1> SUFFICES ASSUME Init, NEW n \in Daemon PROVE ~ proc[n].synced /\ ~ Serving(n)
  BY DEF KnownInv, SyncedSeesNetwork, ServingIsShared
<1> QED BY DEF Init, Boot, Serving

-----------------------------------------------------------------------------
(* A daemon that counts on a winner.                                       *)
Counting == {"HAVE_QDISK", "RECV_VOTE"}

\* It goes on doing so in every step of its own that it survives.
LEMMA OwnStepCounts ==
  ASSUME TInv, NEW n \in Daemon, ProcessStep(n),
         Serving(n), Serving(n)', proc[n].synced, proc[n].state \in Counting,
         tiebreak_needed(n), n \in registered,
         proc[n].state = "HAVE_QDISK" => holder = n,
         proc[n].state = "RECV_VOTE" =>
           holder # n /\ HolderVisible(n, holder) /\ Serving(holder)
  PROVE  proc'[n].synced /\ proc'[n].state = proc[n].state
<1>1. proc[n] \in Process /\ \A q : Update(n, q) => proc'[n] = q
  BY DEF TInv, TypeOK, Update
<1> DEFINE Same(q) == q.synced /\ q.state = proc[n].state
<1>2. \A q : Update(n, q) /\ Same(q) => Same(proc'[n])
  BY <1>1
<1>3. /\ Same(SkipPoll(proc[n])) /\ Same([proc[n] EXCEPT !.late = TRUE])
      /\ Same(SkipPoll([proc[n] EXCEPT !.cast = FALSE]))
      /\ \A b : Same([proc[n] EXCEPT !.quorate = b])
      /\ \A c : Same(Cast(proc[n], proc[n].state, c)) /\ Same(Cast(Armed(proc[n]), proc[n].state, c))
      /\ \A b : Same([proc[n] EXCEPT !.pc = "sleep", !.cast = FALSE, !.beat = b])
  BY <1>1 DEF SkipPoll, Cast, Armed, Process
<1>4. ~ StartDaemon(n) /\ ~ algorithm_init(n) /\ ~ algorithm_stop(n)
  BY DEF StartDaemon, algorithm_init, ValidateKeys, ReleaseLeftover, RegisterKey, ShareKeyFails,
         algorithm_stop, StopRelease, StopUnregister, Serving
<1>5. ~ LeaveLoop(n) /\ ~ Crash(n)
  BY <1>1 DEF LeaveLoop, Crash, Serving, Boot, Process
<1>6. ~ ChecksFail(n) /\ ~ RunStart(n) /\ ~ RunIdle(n) /\ ~ RunResigned(n)
      /\ ~ ReadBeforeCommand(n) /\ ~ RunReserveDisk(n) /\ ~ RunReleaseQdisk(n)
      /\ ~ nodelist_notification_fn(n)
  BY DEF ChecksFail, UnexpectedlyHolding, KeyExpelled, HoldingStates, RunStart, RunIdle,
         RunResigned, ReadBeforeCommand, Beats, RunReserveDisk, RunReleaseQdisk, Counting,
         nodelist_notification_fn
<1>7. CASE RunRecvVote(n)
  <2>1. Update(n, Cast(Armed(proc[n]), proc[n].state, TRUE))
    BY <1>7 DEF RunRecvVote, Beats, HolderHidden
  <2> QED BY <1>2, <1>3, <2>1
<1>8. CASE RunHaveQdisk(n)
  <2>1. Update(n, Cast(proc[n], proc[n].state, TRUE))
    BY <1>8 DEF RunHaveQdisk, Beats
  <2> QED BY <1>2, <1>3, <2>1
<1>9. CASE SkipHeartbeat(n) \/ quorum_notification_fn(n) \/ TimeoutPasses(n)
  BY <1>2, <1>3, <1>9 DEF SkipHeartbeat, quorum_notification_fn, TimeoutPasses
<1>10. CASE Poll(n) \/ PollFails(n)
  BY <1>2, <1>3, <1>10 DEF Poll, PollFails
<1> QED BY <1>4, <1>5, <1>6, <1>7, <1>8, <1>9, <1>10
    DEF ProcessStep, DaemonStep, algorithm_run, Heartbeat, Callback

\* A step keeps a daemon counting on its winner.
LEMMA StepKeepsCounting ==
  ASSUME IInv, KnownInv, [Next]_vars, NEW n \in Daemon, NEW w \in Daemon, CountsOn(n, w),
         UNCHANGED network, Serving(n)', Serving(w)'
  PROVE  CountsOn(n, w)'
<1>0. /\ TInv /\ holder = w /\ Winning(w) /\ w # NoKey
      /\ proc[w].state = "HAVE_QDISK" /\ Serving(w) /\ Serving(n)
      /\ proc[w].synced /\ proc[n].synced /\ proc[n].state \in Counting
      /\ network[n] \in Halves /\ network[w] \in Halves /\ w \in network[n]
      /\ proc[n].state = "HAVE_QDISK" => n = w
  BY NodeAssumption, NoKeyAssumption
     DEF IInv, HaveQdiskHolds, CountsOn, KnowsTie, Winning, Counting
<1>1. /\ tiebreak_needed(n) /\ tiebreak_needed(w)
      /\ HolderVisible(n, w) /\ n \in registered /\ w \in registered
  BY <1>0 DEF tiebreak_needed, HolderVisible, KnownInv, SyncedSeesNetwork, ServingIsShared, IInv,
              ServingIsRegistered
<1>2. SUFFICES /\ holder' = w
               /\ proc'[n].synced /\ proc'[n].state = proc[n].state
               /\ proc'[w].synced /\ proc'[w].state = proc[w].state
  BY <1>0 DEF CountsOn, KnowsTie, Winning, Counting
<1>3. CASE \E m \in Daemon : ProcessStep(m)
  <2>1. PICK m \in Daemon : ProcessStep(m)
    BY <1>3
  <2>2. OwnStep(m)
    BY <1>0, <2>1, ProcessStepIsOwn
  <2>3. holder' = w
    BY <1>0, <2>2 DEF OwnStep, OwnDisk
  <2>4. proc'[w].synced /\ proc'[w].state = proc[w].state
    <3>1. CASE m = w
      BY <1>0, <1>1, <2>1, <3>1, OwnStepCounts DEF Counting
    <3>2. CASE m # w
      BY <1>0, <2>2, <3>2, OthersKept
    <3> QED BY <3>1, <3>2
  <2>5. proc'[n].synced /\ proc'[n].state = proc[n].state
    <3>1. CASE n = w
      BY <2>4, <3>1
    <3>2. CASE m = n /\ n # w
      BY <1>0, <1>1, <2>1, <3>2, OwnStepCounts
    <3>3. CASE m # n
      BY <1>0, <2>2, <3>3, OthersKept
    <3> QED BY <3>1, <3>2, <3>3
  <2> QED BY <2>3, <2>4, <2>5
<1>4. CASE \E m \in Daemon : VoteExpires(m)
  BY <1>0, <1>4 DEF VoteExpires
<1>5. CASE UNCHANGED vars
  BY <1>0, <1>5 DEF vars
<1>6. ~ NetworkChange
  BY DEF NetworkChange
<1> QED BY <1>3, <1>4, <1>5, <1>6 DEF Next, ProcessStep

(* A tie that has been won stays won: the winner and those that follow it  *)
(* count on the reservation for as long as the split lasts and they run.   *)
THEOREM WonStays == Spec => WonTieStays
<1> DEFINE Keeps == \A n, w \in Daemon :
             CountsOn(n, w) /\ network' = network /\ Serving(n)' /\ Serving(w)'
               => CountsOn(n, w)'
<1>1. IInv /\ KnownInv /\ [Next]_vars => [Keeps]_vars
  BY StepKeepsCounting
<1>2. IInv => TInv
  BY DEF IInv
<1> QED BY <1>1, <1>2, InitIsKnownInv, NextKeepsKnown, Invariance, PTL DEF Spec, WonTieStays
================================================================================
