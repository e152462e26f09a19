------------------------------ MODULE QdiskProofs ------------------------------
(***************************************************************************)
(* Proofs about Qdisk.  A step of a daemon touches the disk in its own     *)
(* name only, and lets the reservation go only when it is not the winner   *)
(* (OwnStep); that is what keeps the invariant and what the abstract lock  *)
(* asks for.  One lemma per action shows that it is such a step.           *)
(***************************************************************************)
EXTENDS Qdisk, TLAPS

(* A daemon that has not reached its main loop has not left START.         *)
StartsInStart ==
  \A n \in Daemon :
    proc[n].pc \in {"down", "validate", "clean", "register"} => proc[n].state = "START"

(* What holds whoever writes to the disk, and what holds while only the    *)
(* daemons do.                                                             *)
TInv == TypeOK /\ StartsInStart

IInv == TInv /\ HaveQdiskHolds /\ ServingIsRegistered

(* What a step of daemon n may do.                                         *)
OwnProcess(n) ==
  /\ proc' = [proc EXCEPT ![n] = proc'[n]]
  /\ proc'[n] \in Process
  /\ proc'[n].pc \in {"down", "validate", "clean", "register"} => proc'[n].state = "START"

OwnDisk(n) ==
  /\ registered' \subseteq registered \cup {n}
  /\ registered \subseteq registered' \cup {n}
  /\ holder' \in {holder, n, NoKey}
  /\ holder' # holder /\ holder' = n => holder = NoKey /\ n \in registered' /\ ~ Winning(n)
  /\ holder' # holder /\ holder' = NoKey => holder = n /\ ~ Winning(n)
  /\ holder' = n => n \in registered'

(* It makes no claim that the disk does not confirm; one that others have  *)
(* made stale it may keep for a while.                                     *)
Unregistered(n) == Serving(n) /\ n \notin registered
Preempted(n)    == Winning(n) /\ holder # n

OwnClaims(n) ==
  /\ proc'[n].pc \in {"sleep", "command", "poll"} => n \in registered' \/ Unregistered(n)
  /\ proc'[n].pc \in {"sleep", "command", "poll"} /\ proc'[n].state = "HAVE_QDISK"
       => holder' = n \/ Preempted(n)

ClusterTypeOK ==
  /\ network \in Layouts
  /\ shared \subseteq Daemon
  /\ vote \in [Node -> BOOLEAN]
  /\ changes \in 0..MaxChanges
  /\ faults \in 0..MaxFaults

OwnStep(n) == OwnProcess(n) /\ OwnDisk(n) /\ OwnClaims(n) /\ ClusterTypeOK'

-----------------------------------------------------------------------------
(* The processes the heartbeat produces.                                   *)

\* A process that is not running is in START.
LEMMA BootIsProcess == Boot \in Process /\ Boot.pc = "down" /\ Boot.state = "START"
BY DEF Boot, Process, PC, State

\* A process that is about to poll.
LEMMA CastIsProcess ==
  ASSUME NEW p \in Process, NEW s \in State, NEW c \in BOOLEAN
  PROVE  /\ Cast(p, s, c) \in Process
         /\ Cast(p, s, c).pc = "poll"
         /\ Cast(p, s, c).state = s
BY DEF Cast, Process, PC

\* A process whose heartbeat ended without a poll.
LEMMA SkipPollIsProcess ==
  ASSUME NEW p \in Process
  PROVE  /\ SkipPoll(p) \in Process
         /\ SkipPoll(p).pc = "sleep"
         /\ SkipPoll(p).state = p.state
BY DEF SkipPoll, Process, PC

\* A process whose poll failed.
LEMMA PollFailedIsProcess ==
  ASSUME NEW p \in Process
  PROVE  /\ [p EXCEPT !.cast = FALSE] \in Process
         /\ SkipPoll([p EXCEPT !.cast = FALSE]) \in Process
         /\ SkipPoll([p EXCEPT !.cast = FALSE]).pc = "sleep"
         /\ SkipPoll([p EXCEPT !.cast = FALSE]).state = p.state
<1>1. [p EXCEPT !.cast = FALSE] \in Process /\ [p EXCEPT !.cast = FALSE].state = p.state
  BY DEF Process
<1> QED BY <1>1, SkipPollIsProcess

\* A process that set its timeout.
LEMMA ArmedIsProcess ==
  ASSUME NEW p \in Process
  PROVE  Armed(p) \in Process /\ Armed(p).state = p.state
BY DEF Armed, Process

\* Moving the program counter changes nothing else of a process.
LEMMA PCIsProcess ==
  ASSUME NEW p \in Process, NEW l \in PC
  PROVE  /\ [p EXCEPT !.pc = l] \in Process
         /\ [p EXCEPT !.pc = l].pc = l
         /\ [p EXCEPT !.pc = l].state = p.state
BY DEF Process

\* The same for the process of a daemon in a state of the invariant.
LEMMA MoveIsProcess ==
  ASSUME TInv, NEW n \in Daemon, NEW l \in PC
  PROVE  /\ proc[n] \in Process
         /\ [proc[n] EXCEPT !.pc = l] \in Process
         /\ [proc[n] EXCEPT !.pc = l].pc = l
         /\ [proc[n] EXCEPT !.pc = l].state = proc[n].state
<1>1. proc[n] \in Process
  BY DEF TInv, TypeOK
<1> QED BY <1>1, PCIsProcess

\* A daemon in algorithm_init is in START.
LEMMA StartingIsStart ==
  ASSUME TInv, NEW n \in Daemon, proc[n].pc \in {"down", "validate", "clean", "register"}
  PROVE  proc[n].state = "START"
BY DEF TInv, StartsInStart

(* Replacing the process of n.                                             *)
LEMMA UpdateOwn ==
  ASSUME TInv, NEW n \in Daemon, NEW q \in Process, Update(n, q),
         q.pc \in {"down", "validate", "clean", "register"} => q.state = "START"
  PROVE  OwnProcess(n) /\ proc'[n] = q
BY DEF TInv, TypeOK, Update, OwnProcess

(* What holds of the cluster variables and the bounds.                     *)
LEMMA ClusterKept ==
  ASSUME TInv, UNCHANGED clusterVars, NoFault \/ Fault
  PROVE  ClusterTypeOK'
BY BoundAssumption DEF TInv, TypeOK, ClusterTypeOK, clusterVars, NoFault, Fault

\* So does the end of a process, and the sharing of its key.
LEMMA ClusterKeptByExit ==
  ASSUME TInv, NEW n \in Daemon, UNCHANGED <<network, vote, changes>>, NoFault \/ Fault,
         shared' \in {shared, shared \cup {n}, shared \ {n}}
  PROVE  ClusterTypeOK'
BY BoundAssumption DEF TInv, TypeOK, ClusterTypeOK, NoFault, Fault

\* A command counts as one fault at most.
LEMMA ChargeIsFault ==
  ASSUME NEW out, NEW expected, Charge(out, expected)
  PROVE  NoFault \/ Fault
BY DEF Charge

(* The commands act in the caller's name.                                  *)
LEMMA IdleDisk ==
  ASSUME TInv, NEW n \in Daemon, UNCHANGED diskVars
  PROVE  OwnDisk(n)
BY NodeAssumption, NoKeyAssumption DEF TInv, TypeOK, DiskTypeOK, OwnDisk, diskVars

\* A release frees at most the reservation of its caller.
LEMMA ReleaseOwn ==
  ASSUME TInv, NEW n \in Daemon, NEW out \in Outcome, Release(n, out), ~ Winning(n)
  PROVE  OwnDisk(n) /\ registered' = registered
BY NodeAssumption, NoKeyAssumption
   DEF TInv, TypeOK, DiskTypeOK, OwnDisk, Release, FreedBy, CanRelease

\* Removing a key frees at most the reservation of its owner.
LEMMA UnregisterOwn ==
  ASSUME TInv, NEW n \in Daemon, NEW out \in Outcome, Unregister(n, out), ~ Winning(n)
  PROVE  OwnDisk(n)
BY NodeAssumption, NoKeyAssumption
   DEF TInv, TypeOK, DiskTypeOK, OwnDisk, Unregister, FreedBy, diskVars

\* A registration adds the caller's key and touches no reservation.
LEMMA RegisterOwn ==
  ASSUME TInv, NEW n \in Daemon, NEW out \in Outcome, Register(n, out)
  PROVE  OwnDisk(n) /\ (out = "good" => n \in registered')
BY NodeAssumption, NoKeyAssumption
   DEF TInv, TypeOK, DiskTypeOK, OwnDisk, Register

\* A reservation is taken only when it is free or held already.
LEMMA ReserveOwn ==
  ASSUME TInv, NEW n \in Daemon, NEW out \in Outcome, Reserve(n, out), ~ Winning(n)
  PROVE  OwnDisk(n) /\ registered' = registered /\ (out = "good" => holder' = n)
BY NodeAssumption, NoKeyAssumption
   DEF TInv, TypeOK, DiskTypeOK, OwnDisk, Reserve, CanReserve

(* A step of n whose process becomes q, from the facts each action gives.  *)
LEMMA StepTo ==
  ASSUME TInv, NEW n \in Daemon, NEW q \in Process, Update(n, q),
         OwnDisk(n), ClusterTypeOK',
         q.pc \in {"down", "validate", "clean", "register"} => q.state = "START",
         q.pc \in {"sleep", "command", "poll"} => n \in registered' \/ Unregistered(n),
         q.pc \in {"sleep", "command", "poll"} /\ q.state = "HAVE_QDISK"
           => holder' = n \/ Preempted(n)
  PROVE  OwnStep(n)
BY UpdateOwn DEF OwnStep, OwnClaims

(* A step that leaves disk and cluster alone.                              *)
LEMMA LocalStep ==
  ASSUME TInv, NEW n \in Daemon, NEW q \in Process, Update(n, q),
         UNCHANGED diskVars, UNCHANGED clusterVars, NoFault \/ Fault,
         q.pc \in {"down", "validate", "clean", "register"} => q.state = "START",
         q.pc \in {"sleep", "command", "poll"} => n \in registered \/ Unregistered(n),
         q.pc \in {"sleep", "command", "poll"} /\ q.state = "HAVE_QDISK"
           => holder = n \/ Preempted(n)
  PROVE  OwnStep(n)
<1>1. OwnDisk(n) /\ ClusterTypeOK'
  BY IdleDisk, ClusterKept
<1> QED BY <1>1, StepTo DEF diskVars

-----------------------------------------------------------------------------
(* One lemma per action: algorithm_init.                                   *)

\* A start is a step in the daemon's own name.
LEMMA StepStartDaemon ==
  ASSUME TInv, NEW n \in Daemon, StartDaemon(n)
  PROVE  OwnStep(n)
<1> DEFINE q == [Boot EXCEPT !.pc = "validate"]
<1>1. q \in Process /\ q.pc = "validate" /\ q.state = "START"
  BY BootIsProcess, PCIsProcess DEF PC
<1>2. Update(n, q) /\ UNCHANGED diskVars /\ UNCHANGED clusterVars /\ NoFault
  BY DEF StartDaemon, NoFault
<1> HIDE DEF q
<1> QED BY <1>1, <1>2, LocalStep

\* The key check at start-up is a step in the daemon's own name.
LEMMA StepValidateKeys ==
  ASSUME TInv, NEW n \in Daemon, ValidateKeys(n)
  PROVE  OwnStep(n)
<1> DEFINE q == [proc[n] EXCEPT !.pc = "clean"]
<1>0. proc[n].state = "START" /\ "clean" \in PC
  BY StartingIsStart DEF ValidateKeys, PC
<1>1. q \in Process /\ q.pc = "clean" /\ q.state = "START"
  BY <1>0, MoveIsProcess
<1>2. OwnDisk(n) /\ ClusterTypeOK'
  BY IdleDisk, ClusterKeptByExit DEF ValidateKeys, NoFault, Exit
<1> HIDE DEF q
<1>3. CASE Update(n, q)
  BY <1>1, <1>2, <1>3, StepTo
<1>4. CASE Update(n, Boot)
  BY <1>2, <1>4, StepTo, BootIsProcess
<1> QED BY <1>3, <1>4 DEF ValidateKeys, Exit, q

\* The release of a leftover reservation is a step in the daemon's own name.
LEMMA StepReleaseLeftover ==
  ASSUME TInv, NEW n \in Daemon, ReleaseLeftover(n)
  PROVE  OwnStep(n)
<1> DEFINE q == [proc[n] EXCEPT !.pc = "register"]
<1>0. proc[n].state = "START" /\ "register" \in PC /\ Update(n, q)
  BY StartingIsStart DEF ReleaseLeftover, PC
<1>1. q \in Process /\ q.pc = "register" /\ q.state = "START"
  BY <1>0, MoveIsProcess
<1> HIDE DEF q
<1>2. ~ Winning(n)
  BY DEF ReleaseLeftover, Winning, Serving
<1>3. OwnDisk(n) /\ ClusterTypeOK'
  BY <1>2, IdleDisk, ReleaseOwn, ClusterKept, ChargeIsFault DEF ReleaseLeftover
<1> QED BY <1>0, <1>1, <1>3, StepTo

\* The registration of the key is a step in the daemon's own name.
LEMMA StepRegisterKey ==
  ASSUME TInv, NEW n \in Daemon, RegisterKey(n)
  PROVE  OwnStep(n)
<1> DEFINE q == [proc[n] EXCEPT !.pc = "sleep"]
<1>0. proc[n].state = "START" /\ "sleep" \in PC
  BY StartingIsStart DEF RegisterKey, PC
<1>1. q \in Process /\ q.pc = "sleep" /\ q.state = "START"
  BY <1>0, MoveIsProcess
<1>2. PICK out \in Outcome :
        /\ Register(n, out)
        /\ Charge(out, "good")
        /\ IF out = "good" THEN Update(n, q) /\ shared' = shared \cup {n} ELSE Exit(n)
  BY DEF RegisterKey
<1> HIDE DEF q
<1>3. ClusterTypeOK'
  BY <1>2, ClusterKeptByExit, ChargeIsFault DEF RegisterKey, Exit
<1>4. CASE out = "good"
  BY <1>1, <1>2, <1>3, <1>4, RegisterOwn, StepTo
<1>5. CASE out # "good"
  BY <1>2, <1>3, <1>5, RegisterOwn, StepTo, BootIsProcess DEF Exit
<1> QED BY <1>4, <1>5

\* The undoing of the registration is a step in the daemon's own name.
LEMMA StepShareKeyFails ==
  ASSUME TInv, NEW n \in Daemon, ShareKeyFails(n)
  PROVE  OwnStep(n)
<1>1. OwnDisk(n)
  BY UnregisterOwn DEF ShareKeyFails, Winning, Serving, Outcome
<1>2. ClusterTypeOK' /\ Update(n, Boot)
  BY ClusterKeptByExit DEF ShareKeyFails, Exit
<1> QED BY <1>1, <1>2, StepTo, BootIsProcess

-----------------------------------------------------------------------------
(* algorithm_run.                                                          *)

(* A heartbeat that got past its checks, when it only decides.             *)
LEMMA BeatFacts ==
  ASSUME TInv, NEW n \in Daemon, NEW s \in State, Beats(n, s)
  PROVE  /\ proc[n] \in Process /\ proc[n].pc = "sleep" /\ proc[n].state = s
         /\ n \in registered
         /\ UNCHANGED diskVars /\ UNCHANGED clusterVars /\ NoFault
BY DEF Beats, TInv, TypeOK, NoFault

(* ... it ends in a poll, or without one, in a state that claims nothing   *)
(* the disk does not confirm.                                              *)
LEMMA DecisionStep ==
  ASSUME TInv, NEW n \in Daemon, NEW s \in State, Beats(n, s),
         NEW q \in Process, Update(n, q), q.pc \in {"poll", "sleep", "command"},
         q.state = "HAVE_QDISK" => holder = n
  PROVE  OwnStep(n)
<1>1. n \in registered /\ UNCHANGED diskVars /\ UNCHANGED clusterVars /\ NoFault
  BY BeatFacts
<1> QED BY <1>1, LocalStep

\* The heartbeats that end in a poll.
LEMMA CastStep ==
  ASSUME TInv, NEW n \in Daemon, NEW s \in State, Beats(n, s),
         NEW p \in Process, NEW t \in State, NEW c \in BOOLEAN, Update(n, Cast(p, t, c)),
         t = "HAVE_QDISK" => holder = n
  PROVE  OwnStep(n)
<1>1. Cast(p, t, c) \in Process /\ Cast(p, t, c).pc = "poll" /\ Cast(p, t, c).state = t
  BY CastIsProcess
<1> QED BY <1>1, DecisionStep

\* The heartbeat in START is a step in the daemon's own name.
LEMMA StepRunStart ==
  ASSUME TInv, NEW n \in Daemon, RunStart(n)
  PROVE  OwnStep(n)
<1>1. Beats(n, "START") /\ proc[n] \in Process
  BY BeatFacts DEF RunStart, State
<1>2. PICK t \in {"IDLE", "START"} : Update(n, Cast(proc[n], t, FALSE))
  BY DEF RunStart
<1> QED BY <1>1, <1>2, CastStep DEF State

\* The heartbeat in IDLE is a step in the daemon's own name.
LEMMA StepRunIdle ==
  ASSUME TInv, NEW n \in Daemon, RunIdle(n)
  PROVE  OwnStep(n)
<1>1. Beats(n, "IDLE") /\ proc[n] \in Process /\ Armed(proc[n]) \in Process
      /\ proc[n].state = "IDLE"
  BY BeatFacts, ArmedIsProcess DEF RunIdle, State
<1>2. CASE Update(n, SkipPoll(proc[n]))
  BY <1>1, <1>2, SkipPollIsProcess, DecisionStep DEF State
<1>3. CASE \E p \in {proc[n], Armed(proc[n])}, c \in BOOLEAN,
             t \in {"RECV_VOTE", "RESERVE_DISK", "RESIGNED", "IDLE"} : Update(n, Cast(p, t, c))
  BY <1>1, <1>3, CastStep DEF State
<1> QED BY <1>2, <1>3 DEF RunIdle, IdleInTie

\* The heartbeat in RECV_VOTE is a step in the daemon's own name.
LEMMA StepRunRecvVote ==
  ASSUME TInv, NEW n \in Daemon, RunRecvVote(n)
  PROVE  OwnStep(n)
<1>1. Beats(n, "RECV_VOTE") /\ proc[n] \in Process /\ Armed(proc[n]) \in Process
  BY BeatFacts, ArmedIsProcess DEF RunRecvVote, State
<1>2. PICK p \in {proc[n], Armed(proc[n])}, t \in {"RECV_VOTE", "IDLE"} :
        Update(n, Cast(p, t, TRUE))
  BY DEF RunRecvVote
<1> QED BY <1>1, <1>2, CastStep DEF State

\* The heartbeat in HAVE_QDISK is a step in the daemon's own name.
LEMMA StepRunHaveQdisk ==
  ASSUME TInv, NEW n \in Daemon, RunHaveQdisk(n)
  PROVE  OwnStep(n)
<1>1. Beats(n, "HAVE_QDISK") /\ proc[n] \in Process
      /\ UNCHANGED diskVars /\ UNCHANGED clusterVars /\ NoFault
  BY BeatFacts DEF RunHaveQdisk, State
<1>2. CASE Update(n, Boot)
  BY <1>1, <1>2, BootIsProcess, LocalStep
<1>3. CASE holder = n /\ \E t \in {"HAVE_QDISK", "RELEASE_QDISK"} :
                            Update(n, Cast(proc[n], t, TRUE))
  BY <1>1, <1>3, CastStep DEF State
<1> QED BY <1>2, <1>3 DEF RunHaveQdisk

\* The heartbeat in RESIGNED is a step in the daemon's own name.
LEMMA StepRunResigned ==
  ASSUME TInv, NEW n \in Daemon, RunResigned(n)
  PROVE  OwnStep(n)
<1>1. Beats(n, "RESIGNED") /\ proc[n] \in Process
  BY BeatFacts DEF RunResigned, State
<1>2. PICK t \in {"IDLE", "RESIGNED"} : Update(n, Cast(proc[n], t, FALSE))
  BY DEF RunResigned
<1> QED BY <1>1, <1>2, CastStep DEF State

\* The reads before a command is a step in the daemon's own name.
LEMMA StepReadBeforeCommand ==
  ASSUME TInv, NEW n \in Daemon, ReadBeforeCommand(n)
  PROVE  OwnStep(n)
<1> DEFINE q == [proc[n] EXCEPT !.pc = "command", !.saw = holder]
<1>1. PICK s \in {"RESERVE_DISK", "RELEASE_QDISK"} : Beats(n, s)
  BY DEF ReadBeforeCommand
<1>2. proc[n] \in Process /\ proc[n].state = s /\ holder \in Node \cup {NoKey}
  BY <1>1, BeatFacts DEF State, TInv, TypeOK, DiskTypeOK
<1>3. q \in Process /\ q.pc = "command" /\ q.state = s
  BY <1>2 DEF Process, PC
<1>4. Update(n, q)
  BY DEF ReadBeforeCommand
<1> HIDE DEF q
<1> QED BY <1>1, <1>3, <1>4, DecisionStep DEF State

\* The release of an unexpected reservation is a step in the daemon's own name.
LEMMA StepUnexpectedlyHolding ==
  ASSUME TInv, NEW n \in Daemon, proc[n].pc = "sleep", UnexpectedlyHolding(n)
  PROVE  OwnStep(n)
<1>1. proc[n] \in Process /\ proc[n].pc = "sleep" /\ proc[n].state \notin HoldingStates
  BY DEF UnexpectedlyHolding, TInv, TypeOK
<1>2. ~ Winning(n) /\ n \in registered
  BY <1>1, NodeAssumption, NoKeyAssumption
     DEF Winning, HoldingStates, UnexpectedlyHolding, TInv, TypeOK, DiskTypeOK
<1>3. PICK out \in Outcome : Release(n, out) /\ Charge(out, Expected(CanRelease(n)))
  BY DEF UnexpectedlyHolding
<1>4. OwnDisk(n) /\ registered' = registered /\ ClusterTypeOK'
  BY <1>2, <1>3, ReleaseOwn, ClusterKept, ChargeIsFault DEF UnexpectedlyHolding
<1>5. /\ SkipPoll(proc[n]) \in Process /\ SkipPoll(proc[n]).pc = "sleep"
      /\ SkipPoll(proc[n]).state # "HAVE_QDISK" /\ Update(n, SkipPoll(proc[n]))
  BY <1>1, SkipPollIsProcess DEF HoldingStates, UnexpectedlyHolding
<1> QED BY <1>2, <1>4, <1>5, StepTo

\* The end for a missing key is a step in the daemon's own name.
LEMMA StepKeyExpelled ==
  ASSUME TInv, NEW n \in Daemon, proc[n].pc = "sleep", KeyExpelled(n)
  PROVE  OwnStep(n)
<1> DEFINE q == [proc[n] EXCEPT !.pc = "stop"]
<1>1. q \in Process /\ q.pc = "stop"
  BY MoveIsProcess DEF PC
<1>2. Update(n, q) /\ UNCHANGED diskVars /\ UNCHANGED clusterVars /\ NoFault
  BY DEF KeyExpelled, NoFault
<1> HIDE DEF q
<1> QED BY <1>1, <1>2, LocalStep

\* A skipped heartbeat is a step in the daemon's own name.
LEMMA StepSkipHeartbeat ==
  ASSUME TInv, NEW n \in Daemon, SkipHeartbeat(n)
  PROVE  OwnStep(n)
<1>1. /\ proc[n] \in Process /\ proc[n].pc = "sleep"
      /\ n \in registered \/ Unregistered(n)
      /\ proc[n].state = "HAVE_QDISK" => holder = n \/ Preempted(n)
  BY DEF SkipHeartbeat, TInv, TypeOK, Unregistered, Preempted, Winning, Serving
<1>2. /\ SkipPoll(proc[n]) \in Process /\ SkipPoll(proc[n]).pc = "sleep"
      /\ SkipPoll(proc[n]).state = proc[n].state
  BY <1>1, SkipPollIsProcess
<1> QED BY <1>1, <1>2, LocalStep DEF SkipHeartbeat

\* A failed poll is a step in the daemon's own name.
LEMMA StepPollFails ==
  ASSUME TInv, NEW n \in Daemon, PollFails(n)
  PROVE  OwnStep(n)
<1> DEFINE q == SkipPoll([proc[n] EXCEPT !.cast = FALSE])
<1>1. /\ proc[n] \in Process /\ proc[n].pc = "poll"
      /\ n \in registered \/ Unregistered(n)
      /\ proc[n].state = "HAVE_QDISK" => holder = n \/ Preempted(n)
  BY DEF PollFails, TInv, TypeOK, Unregistered, Preempted, Winning, Serving
<1>2. q \in Process /\ q.pc = "sleep" /\ q.state = proc[n].state
  BY <1>1, PollFailedIsProcess
<1>3. Update(n, q) /\ UNCHANGED diskVars /\ UNCHANGED clusterVars /\ Fault
  BY DEF PollFails
<1> HIDE DEF q
<1> QED BY <1>1, <1>2, <1>3, LocalStep

(* The second step of a heartbeat: n is not the winner.                    *)
LEMMA CommandFacts ==
  ASSUME TInv, NEW n \in Daemon, proc[n].pc = "command", proc[n].state # "HAVE_QDISK"
  PROVE  /\ proc[n] \in Process /\ ~ Winning(n)
         /\ n \in registered \/ Unregistered(n)
BY DEF TInv, TypeOK, Unregistered, Serving, Winning

\* The reserve command is a step in the daemon's own name.
LEMMA StepRunReserveDisk ==
  ASSUME TInv, NEW n \in Daemon, RunReserveDisk(n)
  PROVE  OwnStep(n)
<1>1. proc[n].pc = "command" /\ proc[n].state = "RESERVE_DISK" /\ UNCHANGED clusterVars
  BY DEF RunReserveDisk
<1>2. proc[n] \in Process /\ ~ Winning(n) /\ (n \in registered \/ Unregistered(n))
  BY <1>1, CommandFacts
<1>3. PICK out \in Outcome :
        /\ Reserve(n, out)
        /\ Charge(out, Expected(CanReserve(n)))
        /\ IF out = "good" THEN Update(n, Cast(proc[n], "HAVE_QDISK", TRUE))
                           ELSE ReserveRefused(n, proc[n])
  BY DEF RunReserveDisk
<1>4. /\ OwnDisk(n) /\ ClusterTypeOK' /\ (n \in registered' \/ Unregistered(n))
      /\ out = "good" => holder' = n
  BY <1>1, <1>2, <1>3, ReserveOwn, ClusterKept, ChargeIsFault
<1>5. CASE out = "good"
  <2>1. /\ Cast(proc[n], "HAVE_QDISK", TRUE) \in Process
        /\ Cast(proc[n], "HAVE_QDISK", TRUE).pc = "poll"
    BY <1>2, CastIsProcess DEF State
  <2> QED BY <1>3, <1>4, <1>5, <2>1, StepTo
<1>6. CASE out # "good"
  <2>1. CASE Update(n, SkipPoll(proc[n]))
    BY <1>1, <1>2, <1>4, <2>1, SkipPollIsProcess, StepTo
  <2>2. CASE \E t \in {"RECV_VOTE", "RESIGNED"}, c \in BOOLEAN : Update(n, Cast(proc[n], t, c))
    <3>1. PICK t \in State, c \in BOOLEAN :
            t # "HAVE_QDISK" /\ Update(n, Cast(proc[n], t, c))
      BY <2>2 DEF State
    <3>2. /\ Cast(proc[n], t, c) \in Process
          /\ Cast(proc[n], t, c).pc = "poll"
          /\ Cast(proc[n], t, c).state = t
      BY <1>2, CastIsProcess
    <3> QED BY <1>4, <3>1, <3>2, StepTo
  <2> QED BY <1>3, <1>6, <2>1, <2>2 DEF ReserveRefused
<1> QED BY <1>5, <1>6

\* The release command is a step in the daemon's own name.
LEMMA StepRunReleaseQdisk ==
  ASSUME TInv, NEW n \in Daemon, RunReleaseQdisk(n)
  PROVE  OwnStep(n)
<1>1. proc[n].pc = "command" /\ proc[n].state = "RELEASE_QDISK" /\ UNCHANGED clusterVars
  BY DEF RunReleaseQdisk
<1>2. proc[n] \in Process /\ ~ Winning(n) /\ (n \in registered \/ Unregistered(n))
  BY <1>1, CommandFacts
<1>3. PICK out \in Outcome, t \in State :
        /\ Release(n, out)
        /\ Charge(out, Expected(CanRelease(n)))
        /\ t # "HAVE_QDISK" /\ Update(n, Cast(proc[n], t, TRUE))
  BY DEF RunReleaseQdisk, State
<1>4. OwnDisk(n) /\ ClusterTypeOK' /\ (n \in registered' \/ Unregistered(n))
  BY <1>1, <1>2, <1>3, ReleaseOwn, ClusterKept, ChargeIsFault
<1>5. /\ Cast(proc[n], t, TRUE) \in Process
      /\ Cast(proc[n], t, TRUE).pc = "poll"
      /\ Cast(proc[n], t, TRUE).state = t
  BY <1>2, CastIsProcess
<1> QED BY <1>3, <1>4, <1>5, StepTo

\* The poll is a step in the daemon's own name.
LEMMA StepPoll ==
  ASSUME TInv, NEW n \in Daemon, Poll(n)
  PROVE  OwnStep(n)
<1> DEFINE q == [proc[n] EXCEPT !.pc = "sleep", !.cast = FALSE,
                                !.beat = IF proc[n].synced THEN "polled" ELSE "silent"]
<1>1. /\ proc[n] \in Process /\ proc[n].pc = "poll"
      /\ n \in registered \/ Unregistered(n)
      /\ proc[n].state = "HAVE_QDISK" => holder = n \/ Preempted(n)
  BY DEF Poll, TInv, TypeOK, Unregistered, Preempted, Winning, Serving
<1>2. q \in Process /\ q.pc = "sleep" /\ q.state = proc[n].state
  BY <1>1 DEF Process, PC
<1>3. Update(n, q) /\ UNCHANGED diskVars
  BY DEF Poll
<1> HIDE DEF q
<1>4. proc[n].cast \in BOOLEAN /\ n \in Node
  BY <1>1, NodeAssumption DEF Process
<1>5. vote' \in [Node -> BOOLEAN]
  BY <1>4 DEF Poll, TInv, TypeOK
<1>6. ClusterTypeOK'
  BY <1>5 DEF Poll, TInv, TypeOK, ClusterTypeOK
<1> QED BY <1>1, <1>2, <1>3, <1>6, IdleDisk, StepTo DEF diskVars

(* Steps that change a process but none of the fields the claims are about. *)
LEMMA QuietStep ==
  ASSUME TInv, NEW n \in Daemon, NEW q \in Process, Update(n, q),
         q.pc = proc[n].pc, q.state = proc[n].state,
         UNCHANGED diskVars, UNCHANGED clusterVars, NoFault
  PROVE  OwnStep(n)
<1>1. /\ q.pc \in {"down", "validate", "clean", "register"} => q.state = "START"
      /\ q.pc \in {"sleep", "command", "poll"} => n \in registered \/ Unregistered(n)
      /\ q.pc \in {"sleep", "command", "poll"} /\ q.state = "HAVE_QDISK"
           => holder = n \/ Preempted(n)
  BY DEF TInv, StartsInStart, Unregistered, Preempted, Winning, Serving
<1> QED BY <1>1, LocalStep

\* The passing of the timeout is a step in the daemon's own name.
LEMMA StepTimeoutPasses ==
  ASSUME TInv, NEW n \in Daemon, TimeoutPasses(n)
  PROVE  OwnStep(n)
<1> DEFINE q == [proc[n] EXCEPT !.late = TRUE]
<1>1. proc[n] \in Process
  BY DEF TInv, TypeOK
<1>2. q \in Process /\ q.pc = proc[n].pc /\ q.state = proc[n].state
  BY <1>1 DEF Process
<1>3. Update(n, q) /\ UNCHANGED diskVars /\ UNCHANGED clusterVars /\ NoFault
  BY DEF TimeoutPasses, NoFault
<1> HIDE DEF q
<1> QED BY <1>2, <1>3, QuietStep

\* The nodelist callback is a step in the daemon's own name.
LEMMA StepNodelist ==
  ASSUME TInv, NEW n \in Daemon, nodelist_notification_fn(n)
  PROVE  OwnStep(n)
<1> DEFINE q == [proc[n] EXCEPT !.view = network[n], !.synced = TRUE]
<1>1. proc[n] \in Process /\ network[n] \in SUBSET Node
  BY NodeAssumption, LayoutAssumption DEF TInv, TypeOK
<1>2. q \in Process /\ q.pc = proc[n].pc /\ q.state = proc[n].state
  BY <1>1 DEF Process
<1>3. Update(n, q) /\ UNCHANGED diskVars /\ UNCHANGED clusterVars /\ NoFault
  BY DEF nodelist_notification_fn, NoFault
<1> HIDE DEF q
<1> QED BY <1>2, <1>3, QuietStep

\* The quorum callback is a step in the daemon's own name.
LEMMA StepQuorum ==
  ASSUME TInv, NEW n \in Daemon, quorum_notification_fn(n)
  PROVE  OwnStep(n)
<1> DEFINE q == [proc[n] EXCEPT !.quorate = Quorate(n)]
<1>1. proc[n] \in Process /\ Quorate(n) \in BOOLEAN
  BY DEF TInv, TypeOK, Quorate
<1>2. q \in Process /\ q.pc = proc[n].pc /\ q.state = proc[n].state
  BY <1>1 DEF Process
<1>3. Update(n, q) /\ UNCHANGED diskVars /\ UNCHANGED clusterVars /\ NoFault
  BY DEF quorum_notification_fn, NoFault
<1> HIDE DEF q
<1> QED BY <1>2, <1>3, QuietStep

-----------------------------------------------------------------------------
(* The end of a process.                                                   *)

\* Leaving the main loop is a step in the daemon's own name.
LEMMA StepLeaveLoop ==
  ASSUME TInv, NEW n \in Daemon, LeaveLoop(n)
  PROVE  OwnStep(n)
<1> DEFINE q == [proc[n] EXCEPT !.pc = "stop"]
<1>1. q \in Process /\ q.pc = "stop"
  BY MoveIsProcess DEF PC
<1>2. Update(n, q) /\ UNCHANGED diskVars /\ UNCHANGED clusterVars /\ Fault
  BY DEF LeaveLoop
<1> HIDE DEF q
<1> QED BY <1>1, <1>2, LocalStep

\* The release of algorithm_stop is a step in the daemon's own name.
LEMMA StepStopRelease ==
  ASSUME TInv, NEW n \in Daemon, StopRelease(n)
  PROVE  OwnStep(n)
<1> DEFINE q == [proc[n] EXCEPT !.pc = "unregister"]
<1>1. q \in Process /\ q.pc = "unregister"
  BY MoveIsProcess DEF PC
<1>2. Update(n, q) /\ UNCHANGED clusterVars /\ ~ Winning(n)
  BY DEF StopRelease, Winning, Serving
<1> HIDE DEF q
<1>3. OwnDisk(n) /\ ClusterTypeOK'
  BY <1>2, ReleaseOwn, ClusterKept, ChargeIsFault DEF StopRelease
<1> QED BY <1>1, <1>2, <1>3, StepTo

\* The unregistration of algorithm_stop is a step in the daemon's own name.
LEMMA StepStopUnregister ==
  ASSUME TInv, NEW n \in Daemon, StopUnregister(n)
  PROVE  OwnStep(n)
<1>1. ~ Winning(n) /\ UNCHANGED <<network, vote, changes>>
      /\ shared' = shared \ {n} /\ Update(n, Boot)
  BY DEF StopUnregister, Winning, Serving, Exit
<1>2. OwnDisk(n) /\ ClusterTypeOK'
  BY <1>1, UnregisterOwn, ClusterKeptByExit, ChargeIsFault DEF StopUnregister
<1> QED BY <1>1, <1>2, StepTo, BootIsProcess

\* A crash is a step in the daemon's own name.
LEMMA StepCrash ==
  ASSUME TInv, NEW n \in Daemon, Crash(n)
  PROVE  OwnStep(n)
BY BootIsProcess, LocalStep DEF Crash

-----------------------------------------------------------------------------
(* Every step of a daemon, as one fact.                                    *)
ProcessStep(n) ==
  \/ StartDaemon(n) \/ DaemonStep(n) \/ SkipHeartbeat(n) \/ PollFails(n) \/ Callback(n)
  \/ TimeoutPasses(n) \/ LeaveLoop(n) \/ Crash(n)

\* Whatever a daemon does is a step in its own name.
LEMMA ProcessStepIsOwn ==
  ASSUME TInv, NEW n \in Daemon, ProcessStep(n)
  PROVE  OwnStep(n)
<1>1. CASE algorithm_init(n)
  BY <1>1, StepValidateKeys, StepReleaseLeftover, StepRegisterKey, StepShareKeyFails
     DEF algorithm_init
<1>2. CASE Heartbeat(n)
  BY <1>2, StepUnexpectedlyHolding, StepKeyExpelled, StepRunStart, StepRunIdle,
     StepRunRecvVote, StepRunHaveQdisk, StepRunResigned, StepReadBeforeCommand
  DEF Heartbeat, ChecksFail
<1>3. CASE RunReserveDisk(n) \/ RunReleaseQdisk(n) \/ Poll(n)
  BY <1>3, StepRunReserveDisk, StepRunReleaseQdisk, StepPoll
<1>4. CASE algorithm_stop(n)
  BY <1>4, StepStopRelease, StepStopUnregister DEF algorithm_stop
<1>5. CASE StartDaemon(n) \/ SkipHeartbeat(n) \/ PollFails(n) \/ Callback(n)
           \/ TimeoutPasses(n) \/ LeaveLoop(n) \/ Crash(n)
  BY <1>5, StepStartDaemon, StepSkipHeartbeat, StepPollFails, StepNodelist, StepQuorum,
     StepTimeoutPasses, StepLeaveLoop, StepCrash DEF Callback
<1> QED BY <1>1, <1>2, <1>3, <1>4, <1>5 DEF ProcessStep, DaemonStep, algorithm_run

-----------------------------------------------------------------------------
(* The invariant is inductive.                                             *)

\* The invariant holds at first.
LEMMA InitInvariant == Init => IInv
<1> SUFFICES ASSUME Init PROVE IInv
  OBVIOUS
<1>1. \A n \in Daemon : proc[n] = Boot
  BY DEF Init
<1>2. TypeOK
  BY BootIsProcess, BoundAssumption DEF Init, TypeOK, DiskInit, DiskTypeOK
<1>3. StartsInStart /\ HaveQdiskHolds /\ ServingIsRegistered
  BY <1>1, BootIsProcess
     DEF StartsInStart, HaveQdiskHolds, ServingIsRegistered, Winning, Serving
<1> QED BY <1>2, <1>3 DEF IInv, TInv

\* The other daemons keep their processes.
LEMMA OthersKept ==
  ASSUME TInv, NEW n \in Daemon, OwnStep(n)
  PROVE  /\ proc' \in [Daemon -> Process]
         /\ \A m \in Daemon \ {n} : proc'[m] = proc[m]
BY DEF OwnStep, OwnProcess, TInv, TypeOK

\* Types are kept, whoever else writes to the disk.
LEMMA OwnStepTypes ==
  ASSUME TInv, NEW n \in Daemon, OwnStep(n)
  PROVE  TInv'
<1>1. DiskTypeOK'
  BY NodeAssumption, NoKeyAssumption DEF OwnStep, OwnDisk, DiskTypeOK, TInv, TypeOK
<1>2. TypeOK'
  BY <1>1, OthersKept DEF OwnStep, ClusterTypeOK, TypeOK
<1>3. StartsInStart'
  BY OthersKept DEF OwnStep, OwnProcess, StartsInStart, TInv
<1> QED BY <1>2, <1>3 DEF TInv

(* The claims of the other daemons survive, since the disk kept them.      *)
LEMMA OwnStepInvariant ==
  ASSUME IInv, NEW n \in Daemon, OwnStep(n)
  PROVE  IInv'
<1>1. \A m \in Daemon \ {n} : proc'[m] = proc[m]
  BY OthersKept DEF IInv
<1>2. TInv'
  BY OwnStepTypes DEF IInv
<1>3. ~ Unregistered(n) /\ ~ Preempted(n)
  BY DEF IInv, ServingIsRegistered, HaveQdiskHolds, Unregistered, Preempted
<1>4. ServingIsRegistered'
  BY <1>1, <1>3 DEF OwnStep, OwnDisk, OwnClaims, ServingIsRegistered, Serving, IInv
<1>5. HaveQdiskHolds'
  <2> SUFFICES ASSUME NEW m \in Daemon, Winning(m)' PROVE holder' = m
    BY DEF HaveQdiskHolds
  <2>1. CASE m = n
    BY <1>3, <2>1 DEF OwnStep, OwnClaims, Winning, Serving
  <2>2. CASE m # n
    <3>1. holder = m
      BY <1>1, <2>2 DEF Winning, Serving, HaveQdiskHolds, IInv
    <3> QED BY <2>2, <3>1, NoKeyAssumption, NodeAssumption DEF OwnStep, OwnDisk
  <2> QED BY <2>1, <2>2
<1> QED BY <1>2, <1>4, <1>5 DEF IInv

(* Corosync changes neither the disk nor what the daemons claim of it.     *)
SameClaims ==
  /\ UNCHANGED holder
  /\ \A n \in Daemon : Serving(n)' = Serving(n) /\ Winning(n)' = Winning(n)
  /\ UNCHANGED registered

\* A step that moves no process and writes nothing to the disk.
LEMMA SameClaimsMade ==
  ASSUME TInv, UNCHANGED diskVars, ClusterTypeOK', proc' \in [Daemon -> Process],
         \A n \in Daemon : proc'[n].pc = proc[n].pc /\ proc'[n].state = proc[n].state
  PROVE  TInv' /\ SameClaims
<1>1. TypeOK'
  BY DEF TInv, TypeOK, DiskTypeOK, ClusterTypeOK, diskVars
<1>2. \A n \in Daemon : Serving(n)' = Serving(n) /\ Winning(n)' = Winning(n)
  BY DEF Serving, Winning
<1>3. StartsInStart'
  BY DEF TInv, StartsInStart
<1> QED BY <1>1, <1>2, <1>3 DEF TInv, SameClaims, diskVars

\* A change of the network.
LEMMA NetworkChangeKeeps ==
  ASSUME TInv, NetworkChange
  PROVE  TInv' /\ SameClaims
<1>1. \A n \in Daemon : proc[n] \in Process
  BY DEF TInv, TypeOK
<1>2. /\ proc' \in [Daemon -> Process]
      /\ \A n \in Daemon : proc'[n].pc = proc[n].pc /\ proc'[n].state = proc[n].state
  BY <1>1 DEF NetworkChange, Process
<1>3. ClusterTypeOK'
  BY BoundAssumption DEF NetworkChange, TInv, TypeOK, ClusterTypeOK
<1> QED BY <1>2, <1>3, SameClaimsMade DEF NetworkChange, diskVars

\* A vote that expires.
LEMMA VoteExpiresKeeps ==
  ASSUME TInv, NEW n \in Daemon, VoteExpires(n)
  PROVE  TInv' /\ SameClaims
<1>1. ClusterTypeOK'
  BY DEF VoteExpires, TInv, TypeOK, ClusterTypeOK
<1> QED BY <1>1, SameClaimsMade DEF VoteExpires, diskVars, TInv, TypeOK

\* A step that changes nothing.
LEMMA StutterKeeps ==
  ASSUME TInv, UNCHANGED vars
  PROVE  TInv' /\ SameClaims
<1>1. ClusterTypeOK' /\ proc' \in [Daemon -> Process]
  BY DEF TInv, TypeOK, ClusterTypeOK, vars
<1> QED BY <1>1, SameClaimsMade DEF vars, diskVars

\* Every step is one of a daemon in its own name, or keeps all claims.
LEMMA NextIsOwn ==
  ASSUME TInv, [Next]_vars
  PROVE  TInv' /\ (SameClaims \/ \E n \in Daemon : OwnStep(n))
<1>1. CASE NetworkChange
  BY <1>1, NetworkChangeKeeps
<1>2. CASE \E n \in Daemon : VoteExpires(n)
  BY <1>2, VoteExpiresKeeps
<1>3. CASE \E n \in Daemon : ProcessStep(n)
  BY <1>3, ProcessStepIsOwn, OwnStepTypes
<1>4. CASE UNCHANGED vars
  BY <1>4, StutterKeeps
<1> QED BY <1>1, <1>2, <1>3, <1>4 DEF Next, ProcessStep

\* Every step keeps the invariant.
LEMMA NextInvariant == IInv /\ [Next]_vars => IInv'
<1> SUFFICES ASSUME IInv, [Next]_vars PROVE IInv'
  OBVIOUS
<1>1. TInv' /\ (SameClaims \/ \E n \in Daemon : OwnStep(n))
  BY NextIsOwn DEF IInv
<1>2. CASE SameClaims
  BY <1>1, <1>2 DEF SameClaims, IInv, HaveQdiskHolds, ServingIsRegistered
<1>3. CASE \E n \in Daemon : OwnStep(n)
  BY <1>3, OwnStepInvariant
<1> QED BY <1>1, <1>2, <1>3

\* IInv holds in every reachable state of every cluster.
THEOREM Invariance == Spec => []IInv
BY InitInvariant, NextInvariant, PTL DEF Spec

(* The state of the daemons, the disk and the cluster is well formed.      *)
THEOREM TypeCorrect == Spec => []TypeOK
<1>1. IInv => TypeOK
  BY DEF IInv, TInv
<1> QED BY <1>1, Invariance, PTL

(* For every cluster, every network and any number of faults: a daemon     *)
(* that acts as the winner of a tie holds the reservation.                 *)
THEOREM WinnerHolds == Spec => []HaveQdiskHolds
<1>1. IInv => HaveQdiskHolds
  BY DEF IInv
<1> QED BY <1>1, Invariance, PTL

(* A running daemon never loses its registration to another daemon.        *)
THEOREM RunningIsRegistered == Spec => []ServingIsRegistered
<1>1. IInv => ServingIsRegistered
  BY DEF IInv
<1> QED BY <1>1, Invariance, PTL

-----------------------------------------------------------------------------
(* The daemons implement the lock.                                         *)

Winners == {n \in Daemon : Winning(n)}

\* All winners are the holder.
LEMMA WinnersAreOwner ==
  ASSUME IInv
  PROVE  Winners \subseteq {holder} /\ NoKey \notin Winners
BY NodeAssumption, NoKeyAssumption DEF IInv, HaveQdiskHolds, Winners

\* What a daemon may do is a step of the lock, or none.
LEMMA OwnStepIsLockStep ==
  ASSUME IInv, NEW n \in Daemon, OwnStep(n)
  PROVE  [Lock!Next]_<<holder, Winners>>
<1>1. \A m \in Daemon \ {n} : Winning(m)' = Winning(m)
  BY OthersKept DEF IInv, Winning, Serving
<1>2. IInv'
  BY OwnStepInvariant
<1>3. Winners \subseteq {holder} /\ Winners' \subseteq {holder'}
  BY <1>2, WinnersAreOwner DEF IInv, HaveQdiskHolds, Winners
<1>4. Winners' \ {n} = Winners \ {n} /\ n \in Node /\ n # NoKey
  BY <1>1, NodeAssumption, NoKeyAssumption DEF Winners
<1>5. NoKey \notin Winners /\ NoKey \notin Winners'
  BY NodeAssumption, NoKeyAssumption DEF Winners
<1>6. CASE holder' = holder
  <2>1. CASE Winners' = Winners
    BY <1>6, <2>1
  <2>2. CASE n \in Winners' /\ n \notin Winners
    <3>1. holder = n /\ Winners' = {n}
      BY <1>3, <1>6, <2>2
    <3> QED BY <1>4, <1>6, <3>1 DEF Lock!Next, Lock!Win, Winners
  <2>3. CASE n \in Winners /\ n \notin Winners'
    BY <1>4, <1>6, <2>3 DEF Lock!Next, Lock!Resign, Winners
  <2> QED BY <1>4, <2>1, <2>2, <2>3
<1>7. CASE holder' # holder /\ holder' = n
  <2>1. holder = NoKey /\ Winners = {}
    BY <1>3, <1>5, <1>7 DEF OwnStep, OwnDisk
  <2>2. Winners' \in {{}, {n}}
    BY <1>3, <1>7
  <2> QED BY <1>4, <1>7, <2>1, <2>2 DEF Lock!Next, Lock!Acquire, Winners
<1>8. CASE holder' # holder /\ holder' = NoKey
  <2>1. holder = n /\ n \notin Winners
    BY <1>8 DEF OwnStep, OwnDisk, Winners
  <2>2. Winners = {} /\ Winners' = {}
    BY <1>3, <1>5, <1>8, <2>1
  <2> QED BY <1>4, <1>8, <2>1, <2>2 DEF Lock!Next, Lock!LetGo, Winners
<1> QED BY <1>6, <1>7, <1>8 DEF OwnStep, OwnDisk

\* So is every step of the cluster.
LEMMA NextIsLockStep ==
  ASSUME IInv, [Next]_vars
  PROVE  [Lock!Next]_<<holder, Winners>>
<1>1. SameClaims \/ \E n \in Daemon : OwnStep(n)
  BY NextIsOwn DEF IInv
<1>2. CASE SameClaims
  BY <1>2 DEF SameClaims, Winners
<1>3. CASE \E n \in Daemon : OwnStep(n)
  BY <1>3, OwnStepIsLockStep
<1> QED BY <1>1, <1>2, <1>3

\* At first the lock is free.
LEMMA InitIsLockInit == Init => Lock!Init
BY BootIsProcess DEF Init, DiskInit, Lock!Init, Winning, Serving

(* The daemons implement the lock of Tiebreaker: a reservation is taken    *)
(* only when free and let go only by a holder that stopped winning.        *)
THEOREM ImplementsLock == Spec => LockSpec
<1>1. IInv /\ [Next]_vars => [Lock!Next]_<<holder, Winners>>
  BY NextIsLockStep
<1> QED BY <1>1, InitIsLockInit, Invariance, PTL DEF Spec, LockSpec, Lock!Spec, Winners

-----------------------------------------------------------------------------
(* A reservation outlives the daemon that died with it.                    *)

\* A daemon that is down, or just starting, does not touch the disk.
LEMMA DownLeavesDisk ==
  ASSUME NEW n \in Daemon, ProcessStep(n), proc[n].pc \in {"down", "validate"}
  PROVE  UNCHANGED holder
<1>1. ~ algorithm_run(n) /\ ~ algorithm_stop(n) /\ ~ SkipHeartbeat(n) /\ ~ PollFails(n)
      /\ ~ TimeoutPasses(n) /\ ~ LeaveLoop(n)
  BY DEF algorithm_run, Heartbeat, ChecksFail, RunStart, RunIdle, RunRecvVote, RunHaveQdisk,
         RunResigned, ReadBeforeCommand, Beats, RunReserveDisk, RunReleaseQdisk, Poll,
         algorithm_stop, StopRelease, StopUnregister, SkipHeartbeat, PollFails, TimeoutPasses, Serving,
         LeaveLoop
<1>2. algorithm_init(n) => ValidateKeys(n)
  BY DEF algorithm_init, ReleaseLeftover, RegisterKey, ShareKeyFails
<1> QED BY <1>1, <1>2 DEF ProcessStep, DaemonStep, ValidateKeys, StartDaemon, Callback,
           nodelist_notification_fn, quorum_notification_fn, Crash, diskVars

\* Nobody takes the reservation of a daemon that is down.
LEMMA StepKeepsDeadHolder ==
  ASSUME TInv, [Next]_vars, NEW n \in Daemon,
         holder = n, proc[n].pc \in {"down", "validate"}
  PROVE  holder' = n
<1>0. n # NoKey
  BY NodeAssumption, NoKeyAssumption
<1>1. CASE NetworkChange
  BY <1>1 DEF NetworkChange
<1>2. CASE \E m \in Daemon : VoteExpires(m)
  BY <1>2 DEF VoteExpires
<1>3. CASE \E m \in Daemon : ProcessStep(m)
  <2>1. PICK m \in Daemon : ProcessStep(m)
    BY <1>3
  <2>2. CASE m = n
    BY <2>1, <2>2, DownLeavesDisk
  <2>3. CASE m # n
    BY <1>0, <2>1, <2>3, ProcessStepIsOwn DEF OwnStep, OwnDisk
  <2> QED BY <2>2, <2>3
<1>4. CASE UNCHANGED vars
  BY <1>4 DEF vars
<1> QED BY <1>1, <1>2, <1>3, <1>4 DEF Next, ProcessStep

(* A daemon that dies with the reservation keeps everybody else from it:   *)
(* no step of another node frees or takes it until the daemon is back.     *)
THEOREM DeadHolderKept == Spec => DeadHolderKeeps
<1> DEFINE Keeps == \A n \in Daemon :
             holder = n /\ proc[n].pc \in {"down", "validate"} => holder' = n
<1>1. IInv /\ [Next]_vars => Keeps
  BY StepKeepsDeadHolder DEF IInv
<1>2. IInv /\ [Next]_vars => [Keeps]_vars
  BY <1>1
<1> QED BY <1>2, Invariance, PTL DEF Spec, DeadHolderKeeps

-----------------------------------------------------------------------------
(* A daemon that waits does not vote.  What a process p and the vote v     *)
(* corosync asserts for it have to do with each other: no vote is cast in  *)
(* START or RESIGNED, so none is left once a heartbeat got through.        *)
Waiting == {"START", "RESIGNED"}

Honest(p, v) ==
  /\ p.pc \in {"validate", "clean", "register"} => p.beat = "none"
  /\ p.pc = "poll" /\ p.state \in Waiting => ~ p.cast
  /\ p.pc = "sleep" /\ p.beat = "polled" /\ p.state \in Waiting => ~ v

VoteInv == \A n \in Daemon : Honest(proc[n], vote[n])

\* The processes the heartbeat produces are honest, ...
LEMMA HeartbeatsAreHonest ==
  ASSUME NEW p \in Process, NEW v, NEW s \in State, NEW c \in BOOLEAN,
         s \in Waiting => ~ c
  PROVE  Honest(Cast(p, s, c), v) /\ Honest(SkipPoll(p), v)
BY DEF Honest, Cast, SkipPoll, Process

\* ... and those that start, end or are in the middle of a heartbeat.
LEMMA OthersAreHonest ==
  ASSUME NEW p \in Process, NEW v
  PROVE  /\ Honest(Boot, v) /\ Honest([Boot EXCEPT !.pc = "validate"], v)
         /\ \A l \in {"command", "stop", "unregister"} :
              \A k \in Node \cup {NoKey} :
                Honest([p EXCEPT !.pc = l], v) /\ Honest([p EXCEPT !.pc = l, !.saw = k], v)
BY DEF Honest, Boot, Process

\* The process of n becomes q.
LEMMA BecomesHonest ==
  ASSUME TInv, NEW n \in Daemon, NEW q, Update(n, q), Honest(q, vote[n]), UNCHANGED vote
  PROVE  Honest(proc[n], vote[n])'
<1>1. proc'[n] = q
  BY DEF Update, TInv, TypeOK
<1> QED BY <1>1 DEF Honest

\* algorithm_init casts nothing.
LEMMA InitIsHonest ==
  ASSUME TInv, VoteInv, NEW n \in Daemon, StartDaemon(n) \/ algorithm_init(n)
  PROVE  Honest(proc[n], vote[n])'
<1>1. proc[n] \in Process /\ Honest(proc[n], vote[n])
  BY DEF TInv, TypeOK, VoteInv
<1>2. UNCHANGED vote
  BY DEF StartDaemon, algorithm_init, ValidateKeys, ReleaseLeftover, RegisterKey,
         ShareKeyFails, clusterVars
<1>3. CASE Update(n, Boot) \/ Update(n, [Boot EXCEPT !.pc = "validate"])
  BY <1>1, <1>2, <1>3, OthersAreHonest, BecomesHonest
<1>4. CASE /\ proc[n].pc \in {"validate", "clean", "register"}
           /\ \E l \in {"clean", "register", "sleep"} : Update(n, [proc[n] EXCEPT !.pc = l])
  <2>1. PICK l \in {"clean", "register", "sleep"} : Update(n, [proc[n] EXCEPT !.pc = l])
    BY <1>4
  <2>2. Honest([proc[n] EXCEPT !.pc = l], vote[n])
    BY <1>1, <1>4 DEF Honest, Process
  <2> QED BY <1>2, <2>1, <2>2, BecomesHonest
<1> QED BY <1>3, <1>4 DEF StartDaemon, algorithm_init, ValidateKeys, ReleaseLeftover,
           RegisterKey, ShareKeyFails, Exit

\* A heartbeat in START or RESIGNED, or on its way there, casts no vote.
LEMMA HeartbeatIsHonest ==
  ASSUME TInv, NEW n \in Daemon, Heartbeat(n) \/ SkipHeartbeat(n)
  PROVE  Honest(proc[n], vote[n])'
<1>1. proc[n] \in Process /\ Armed(proc[n]) \in Process /\ holder \in Node \cup {NoKey}
  BY ArmedIsProcess, NodeAssumption DEF TInv, TypeOK, DiskTypeOK
<1>2. UNCHANGED vote
  BY DEF Heartbeat, SkipHeartbeat, ChecksFail, UnexpectedlyHolding, KeyExpelled, RunStart,
         RunIdle, RunRecvVote, RunHaveQdisk, RunResigned, ReadBeforeCommand, Beats, clusterVars
<1>3. CASE Update(n, Boot) \/ Update(n, SkipPoll(proc[n]))
  BY <1>1, <1>2, <1>3, OthersAreHonest, HeartbeatsAreHonest, BecomesHonest DEF State, Waiting
<1>4. CASE \/ Update(n, [proc[n] EXCEPT !.pc = "stop"])
           \/ Update(n, [proc[n] EXCEPT !.pc = "command", !.saw = holder])
  BY <1>1, <1>2, <1>4, OthersAreHonest, BecomesHonest
<1>5. CASE \E p \in {proc[n], Armed(proc[n])}, s \in State, c \in BOOLEAN :
             (s \in Waiting => ~ c) /\ Update(n, Cast(p, s, c))
  BY <1>1, <1>2, <1>5, HeartbeatsAreHonest, BecomesHonest
<1>6. ChecksFail(n) \/ SkipHeartbeat(n) \/ ReadBeforeCommand(n)
        => \/ Update(n, SkipPoll(proc[n]))
           \/ Update(n, [proc[n] EXCEPT !.pc = "stop"])
           \/ Update(n, [proc[n] EXCEPT !.pc = "command", !.saw = holder])
  BY DEF ChecksFail, UnexpectedlyHolding, KeyExpelled, SkipHeartbeat, ReadBeforeCommand
<1>7. CASE RunStart(n) \/ RunResigned(n)
  BY <1>5, <1>7 DEF RunStart, RunResigned, State, Waiting
<1>8. CASE RunIdle(n) \/ RunRecvVote(n) \/ RunHaveQdisk(n)
  BY <1>3, <1>5, <1>8 DEF RunIdle, IdleInTie, RunRecvVote, RunHaveQdisk, State, Waiting
<1> QED BY <1>3, <1>4, <1>6, <1>7, <1>8 DEF Heartbeat

\* A refused reserve that resigns casts no vote either.
LEMMA CommandIsHonest ==
  ASSUME TInv, NEW n \in Daemon, RunReserveDisk(n) \/ RunReleaseQdisk(n)
  PROVE  Honest(proc[n], vote[n])'
<1>1. proc[n] \in Process
  BY DEF TInv, TypeOK
<1>2. UNCHANGED vote
  BY DEF RunReserveDisk, RunReleaseQdisk, clusterVars
<1>3. CASE Update(n, SkipPoll(proc[n]))
  BY <1>1, <1>2, <1>3, HeartbeatsAreHonest, BecomesHonest DEF State, Waiting
<1>4. CASE \E s \in State, c \in BOOLEAN :
             (s \in Waiting => ~ c) /\ Update(n, Cast(proc[n], s, c))
  BY <1>1, <1>2, <1>4, HeartbeatsAreHonest, BecomesHonest
<1> QED BY <1>3, <1>4 DEF RunReserveDisk, ReserveRefused, RunReleaseQdisk, State, Waiting

\* A poll that corosync takes leaves the vote that was cast.
LEMMA PollIsHonest ==
  ASSUME TInv, VoteInv, NEW n \in Daemon, Poll(n)
  PROVE  Honest(proc[n], vote[n])'
<1> DEFINE q == [proc[n] EXCEPT !.pc = "sleep", !.cast = FALSE,
                                !.beat = IF proc[n].synced THEN "polled" ELSE "silent"]
<1>1. proc[n] \in Process /\ n \in Node /\ Honest(proc[n], vote[n])
  BY NodeAssumption DEF TInv, TypeOK, VoteInv
<1>2. proc'[n] = q
  BY DEF Poll, Update, TInv, TypeOK
<1>3. proc[n].synced => vote'[n] = proc[n].cast
  BY <1>1 DEF Poll, TInv, TypeOK
<1>4. Honest(q, vote'[n])
  BY <1>1, <1>3 DEF Poll, Honest, Process
<1> QED BY <1>2, <1>4 DEF Honest

\* A poll that fails leaves the heartbeat silent.
LEMMA PollFailsIsHonest ==
  ASSUME TInv, NEW n \in Daemon, PollFails(n)
  PROVE  Honest(proc[n], vote[n])'
<1> DEFINE q == [proc[n] EXCEPT !.cast = FALSE]
<1>1. q \in Process
  BY PollFailedIsProcess DEF TInv, TypeOK
<1>2. UNCHANGED vote /\ Update(n, SkipPoll(q))
  BY DEF PollFails, clusterVars
<1> HIDE DEF q
<1>3. Honest(SkipPoll(q), vote[n])
  BY <1>1, HeartbeatsAreHonest DEF State, Waiting
<1> QED BY <1>2, <1>3, BecomesHonest

\* Callbacks and time move no heartbeat.
LEMMA CallbackIsHonest ==
  ASSUME TInv, VoteInv, NEW n \in Daemon, Callback(n) \/ TimeoutPasses(n)
  PROVE  Honest(proc[n], vote[n])'
<1>1. proc[n] \in Process /\ Honest(proc[n], vote[n])
  BY DEF TInv, TypeOK, VoteInv
<1>2. UNCHANGED vote
  BY DEF Callback, nodelist_notification_fn, quorum_notification_fn, TimeoutPasses, clusterVars
<1> DEFINE Same(q) == /\ q.pc = proc[n].pc /\ q.state = proc[n].state
                      /\ q.cast = proc[n].cast /\ q.beat = proc[n].beat
<1>3. /\ Same([proc[n] EXCEPT !.view = network[n], !.synced = TRUE])
      /\ Same([proc[n] EXCEPT !.quorate = Quorate(n)])
      /\ Same([proc[n] EXCEPT !.late = TRUE])
  BY <1>1 DEF Process
<1>4. PICK q : Update(n, q) /\ Same(q)
  BY <1>3 DEF Callback, nodelist_notification_fn, quorum_notification_fn, TimeoutPasses
<1> QED BY <1>1, <1>2, <1>4, BecomesHonest DEF Honest

\* The end of a process casts nothing.
LEMMA EndIsHonest ==
  ASSUME TInv, NEW n \in Daemon, LeaveLoop(n) \/ algorithm_stop(n) \/ Crash(n)
  PROVE  Honest(proc[n], vote[n])'
<1>1. proc[n] \in Process /\ holder \in Node \cup {NoKey}
  BY NodeAssumption DEF TInv, TypeOK, DiskTypeOK
<1>2. UNCHANGED vote
  BY DEF LeaveLoop, algorithm_stop, StopRelease, StopUnregister, Crash, clusterVars
<1>3. \/ Update(n, [proc[n] EXCEPT !.pc = "stop"])
      \/ Update(n, [proc[n] EXCEPT !.pc = "unregister"])
      \/ Update(n, Boot)
  BY DEF LeaveLoop, algorithm_stop, StopRelease, StopUnregister, Exit, Crash
<1> QED BY <1>1, <1>2, <1>3, OthersAreHonest, BecomesHonest

\* Every step of a daemon leaves it honest.
LEMMA ProcessStepIsHonest ==
  ASSUME TInv, VoteInv, NEW n \in Daemon, ProcessStep(n)
  PROVE  Honest(proc[n], vote[n])'
<1>1. CASE StartDaemon(n) \/ algorithm_init(n)
  BY <1>1, InitIsHonest
<1>2. CASE Heartbeat(n) \/ SkipHeartbeat(n)
  BY <1>2, HeartbeatIsHonest
<1>3. CASE RunReserveDisk(n) \/ RunReleaseQdisk(n)
  BY <1>3, CommandIsHonest
<1>4. CASE Poll(n)
  BY <1>4, PollIsHonest
<1>5. CASE Callback(n) \/ TimeoutPasses(n)
  BY <1>5, CallbackIsHonest
<1>6. CASE LeaveLoop(n) \/ algorithm_stop(n) \/ Crash(n)
  BY <1>6, EndIsHonest
<1>7. CASE PollFails(n)
  BY <1>7, PollFailsIsHonest
<1> QED BY <1>1, <1>2, <1>3, <1>4, <1>5, <1>6, <1>7 DEF ProcessStep, DaemonStep, algorithm_run

\* Only a poll moves a vote, ...
LEMMA VoteMovesInPoll ==
  ASSUME NEW n \in Daemon, ProcessStep(n), ~ Poll(n)
  PROVE  UNCHANGED vote
<1>1. StartDaemon(n) \/ algorithm_init(n) => UNCHANGED vote
  BY DEF StartDaemon, algorithm_init, ValidateKeys, ReleaseLeftover, RegisterKey,
         ShareKeyFails, clusterVars
<1>2. Heartbeat(n) \/ SkipHeartbeat(n) => UNCHANGED vote
  BY DEF Heartbeat, SkipHeartbeat, ChecksFail, UnexpectedlyHolding, KeyExpelled, RunStart,
         RunIdle, RunRecvVote, RunHaveQdisk, RunResigned, ReadBeforeCommand, Beats, clusterVars
<1>3. RunReserveDisk(n) \/ RunReleaseQdisk(n) => UNCHANGED vote
  BY DEF RunReserveDisk, RunReleaseQdisk, clusterVars
<1>4. PollFails(n) \/ Callback(n) \/ TimeoutPasses(n) \/ LeaveLoop(n) \/ algorithm_stop(n)
      \/ Crash(n) => UNCHANGED vote
  BY DEF PollFails, Callback, nodelist_notification_fn, quorum_notification_fn, TimeoutPasses,
         LeaveLoop, algorithm_stop, StopRelease, StopUnregister, Crash, clusterVars
<1> QED BY <1>1, <1>2, <1>3, <1>4 DEF ProcessStep, DaemonStep, algorithm_run

\* ... and it leaves the votes of the others alone.
LEMMA OthersVote ==
  ASSUME TInv, NEW n \in Daemon, ProcessStep(n), NEW m \in Node, m # n
  PROVE  vote'[m] = vote[m]
<1>1. CASE ~ Poll(n)
  BY <1>1, VoteMovesInPoll
<1>2. CASE Poll(n)
  BY <1>2, NodeAssumption DEF Poll, TInv, TypeOK
<1> QED BY <1>1, <1>2

\* Every step keeps all daemons honest.
LEMMA NextKeepsHonest == TInv /\ VoteInv /\ [Next]_vars => VoteInv'
<1> SUFFICES ASSUME TInv, VoteInv, [Next]_vars, NEW m \in Daemon
             PROVE  Honest(proc[m], vote[m])'
  BY DEF VoteInv
<1>0. Honest(proc[m], vote[m]) /\ proc[m] \in Process /\ m \in Node
  BY NodeAssumption DEF VoteInv, TInv, TypeOK
<1>1. CASE NetworkChange
  <2>1. /\ vote' = vote /\ proc'[m].pc = proc[m].pc /\ proc'[m].state = proc[m].state
        /\ proc'[m].cast = proc[m].cast /\ proc'[m].beat = proc[m].beat
    BY <1>0, <1>1 DEF NetworkChange, Process
  <2> QED BY <1>0, <2>1 DEF Honest
<1>2. CASE \E n \in Daemon : VoteExpires(n)
  <2>1. proc' = proc /\ (vote'[m] = vote[m] \/ vote'[m] = FALSE)
    BY <1>0, <1>2 DEF VoteExpires, TInv, TypeOK
  <2> QED BY <1>0, <2>1 DEF Honest
<1>3. CASE \E n \in Daemon : ProcessStep(n)
  <2>1. PICK n \in Daemon : ProcessStep(n)
    BY <1>3
  <2>2. CASE m = n
    BY <2>1, <2>2, ProcessStepIsHonest
  <2>3. CASE m # n
    <3>1. proc'[m] = proc[m] /\ vote'[m] = vote[m]
      BY <1>0, <2>1, <2>3, ProcessStepIsOwn, OthersKept, OthersVote
    <3> QED BY <1>0, <3>1 DEF Honest
  <2> QED BY <2>2, <2>3
<1>4. CASE UNCHANGED vars
  BY <1>0, <1>4 DEF vars, Honest
<1> QED BY <1>1, <1>2, <1>3, <1>4 DEF Next, ProcessStep

\* A cluster of daemons that have not started is honest.
LEMMA InitIsVoteInv == Init => VoteInv
<1> SUFFICES ASSUME Init, NEW n \in Daemon PROVE Honest(proc[n], vote[n])
  BY DEF VoteInv
<1>1. proc[n] = Boot
  BY DEF Init
<1> QED BY <1>1 DEF Honest, Boot

(* Once a heartbeat in START or RESIGNED has reached corosync, corosync    *)
(* does not assert the vote of the daemon.                                 *)
THEOREM ResignedSilent == Spec => []ResignedDoesNotVote
<1>1. VoteInv => ResignedDoesNotVote
  BY DEF VoteInv, Honest, Waiting, ResignedDoesNotVote
<1>2. IInv => TInv
  BY DEF IInv
<1> QED BY <1>1, <1>2, InitIsVoteInv, NextKeepsHonest, Invariance, PTL DEF Spec
================================================================================
