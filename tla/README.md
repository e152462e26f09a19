# A TLA+ development of corosync-qdisk

`corosync-qdisk` gives a Corosync cluster an extra vote that follows a reservation on a
shared SCSI or NVMe disk: when the cluster splits in two halves, the half whose daemon
obtains the reservation keeps the vote, the other half rescinds it. This directory holds
TLA+ modules of the program, TLC configurations that check them on small clusters, and
proofs, checked by TLAPS, that hold for every cluster. `PROJECT.json` lists the runs, the
theorems, the hazards of the code, and the source lines each definition stands for.

## 1. The system

| Component | State it keeps | Operations | Modelled in |
|---|---|---|---|
| Tiebreaker (`qdiskd/algorithm.c`) | `state`, `timeout_time`, `good_heartbeat_timeout` | `algorithm_init`, `algorithm_run` (one heartbeat), `algorithm_stop` | `Qdisk` |
| Votequorum client (`qdiskd/vquorum.c`) | visible nodes, ring id, quorate flag, keys of the nodes | callbacks, `vquorum_qdevice_poll`, `vquorum_qdisk_share_ikey`, the list of keys, reconnection | `VQuorum`; `Qdisk` (votes, keys simplified) |
| Cmap client (`qdiskd/cmap.c`) | `g_node_count`, `cmap_reload_in_progress` | `qdisk_cmap_init`, callbacks, `update_node_count`, reconnection | `Cmap` |
| Main loop (`qdiskd/main.c`, systemd unit) | the qb loop | start, heartbeat timer, dispatch, signals | `Qdisk` |
| Persistent reservations (`persistent_reserve/`) | on the disk: registered keys, the holder | register, unregister, reserve, release, abort, reads | `Reservation`, `QdiskAdmin`, `Device` |
| `qdisktool` | none | the same commands, run by an administrator | `QdiskAdmin`, `Device` |
| Key file (`persistent_reserve/device.c`) | the key file | create, write, read, open the device | `Device` |
| Logging, build files | | | not modelled (section 8) |

How they interact. A daemon is one thread. The timer of the main loop runs
`algorithm_run` every heartbeat; it reads the disk (one external command per read), the
node count that `cmap.c` keeps and the views that the callbacks of `vquorum.c` keep, moves
the state machine, and ends with `vquorum_qdevice_poll`, which dispatches the waiting
callbacks first and then sends the vote with the ring id they left. Between heartbeats the
loop dispatches the callbacks. Daemons share no memory: they meet in the reservation on the
disk and in the membership and keys that Corosync distributes.

What is hard: the disk is read, decided upon and written in separate commands while the
other half does the same; a command can take effect and report a failure; the membership
changes between the decision and the poll; keys, memberships and withdrawals reach a daemon
in separate callbacks; a daemon dies with the reservation, and may come back under another
key; daemon and tool create the same key file; a node count is taken while the configuration
is being replaced; an administrator writes to the disk with the daemons' keys.
`PROJECT.json` lists these hazards at their lines.

What makes each component correct:

- *Reservation*: one holder at most, and it is registered.
- *Tiebreaker*: only the holder counts as the winner; in a tie that lasts, one side keeps the
  vote; the reservation is given back when the tie is over; a minority yields; a majority
  returns to `IDLE`; a reservation nobody uses is released.
- *Votequorum client*: a vote is taken only under the membership it is sent with; a key that
  was shared is known to those who see the node, and one that was withdrawn to nobody.
- *Device and key file*: a heartbeat acts on what was on the disk during it; a daemon serves
  under the key it shares, whatever was registered or stored before; nobody acts under key 0 on
  a SCSI disk (an NVMe disk may accept or refuse to register it).
- *Cmap client*: the node count is the number of nodes once nothing is left to dispatch.
- *qdisktool*: whatever is done to the disk, the daemons end with one winner at most.

## 2. The modules

- `Reservation`: the disk. `registered` and `holder`; one operator per call of
  `persistent_reserve_device_class` that writes. A call takes its outcome as a parameter:
  `good`, `error` (no effect) or `lost` (took effect, reported a failure). A node stands for
  its key.
- `Qdisk` (EXTENDS `Reservation`): the cluster. `network` is the partition each node is in,
  `proc` the daemons, `shared` the nodes whose key votequorum knows, `vote` the vote Corosync
  asserts for each node.
- `Tiebreaker`: the abstract specification, a lock that survives its owner: acquire, win,
  resign, let go. `Qdisk` implements it with `owner <- holder` and the running daemons in
  `HAVE_QDISK` as `winners` (`LockSpec`).
- `QdiskAdmin` (EXTENDS `Qdisk`): an administrator's commands, added to the cluster's steps.
- `BreakableLock`: its abstract specification. The lock of `Tiebreaker`, with a winner that may
  resign after it lost the lock, and breaks that take it from its owner or give it to anyone.
  `QdiskAdmin` implements it (`BrokenLockSpec`) with its history variable `breaks`, which counts
  the tool's writes that changed the holder, and nothing else: a command that finds nothing to
  do, and the first read of a SCSI abort, break nothing; the rest of such an abort breaks at
  most twice, by its preempt and its release.
- `Cmap`: counting the nodes. A module of its own, since it shares only a number with the
  rest: `Qdisk` uses the right count (the cardinality of `Node`).
- `VQuorum`: how keys become known. `client` holds the lists of `vquorum.c`, `queue` what
  Corosync has sent and the daemon has not read. It justifies what `Qdisk` assumes of `shared`.
- `Device`: one host, its disk, its key file and a run of `qdisktool` beside the daemon, with
  every command to the disk a step. It justifies what `Qdisk` assumes of a heartbeat's reads
  and of a node standing for its key.
- `QdiskProofs`, `TieProofs`, `SplitProofs`, `QdiskAdminProofs`, `VQuorumProofs`, `DeviceProofs`,
  `CmapProofs`: the theorems.
  `MCQdisk`, `MCQdiskAdmin`, `MCCmap`, `MCVQuorum`, `MCDevice`: the small instances.

### How Qdisk cuts the code into steps

`proc[n].pc` says where the process is: `validate`, `clean`, `register` in `algorithm_init`;
`sleep`, `command`, `poll` in the main loop; `stop`, `unregister` in `algorithm_stop`.

| Code | Step |
|---|---|
| `validate_node_quorum_disk_keys`, 115-128 | `ValidateKeys` |
| release of a leftover reservation, 130-143 | `ReleaseLeftover` (the result is ignored) |
| 145-170, register and share the key | `RegisterKey`; `ShareKeyFails` for the error after it |
| reads and checks, 210-298 | `Beats` is the part common to all states; `SkipHeartbeat`, `UnexpectedlyHolding` and `KeyExpelled` (the latter two joined in `ChecksFail`) are its early exits; `KeyExpelled` happens only with an administrator |
| cases of the switch, 317-423 | `RunStart`, `RunIdle`, `RunRecvVote`, `RunHaveQdisk`, `RunResigned`: one step with the reads, as nothing is written in between |
| `RESERVE_DISK`, `RELEASE_QDISK` | `ReadBeforeCommand`, and then `RunReserveDisk` or `RunReleaseQdisk` with the holder read before (`saw`) |
| `vquorum_qdevice_poll` | callbacks that may come while `pc = "poll"`, and then `Poll` |
| `timeout_time` | `late`: it becomes true at any moment after the timeout was set (`Armed`), so every length of the timeout is covered |
| callbacks | `nodelist_notification_fn`, `quorum_notification_fn`, in `validate`, `sleep` and `poll` |

Abstractions to know of:

- The reads of one heartbeat (holder, then keys) are one step. In `Device` they are three, with
  the other hosts' writes between them: what the heartbeat acts on was the holder at some
  moment since it began (`HeartbeatSawTheDisk`, proved), which is the moment of the one step.
  Where the disk is released between `is_reserved` and the read of the holder, the second read
  reports an error and the heartbeat is skipped: `SkipHeartbeat`, which costs a fault here.
- A view is the partition of the last ring the daemon was told of, in one step; in `VQuorum` it
  arrives by the queue, and is the partition whenever the queue is empty (`ViewIsCurrent`).
- The ring id is `synced`: does the daemon's ring id name the ring Corosync is in? A poll with
  another ring id is ignored by votequorum, and the vote it had stays until votequorum's
  own timer expires (`VoteExpires`, possible whenever the last heartbeat sent no valid poll).
- A key is known to everybody who sees its node as soon as it is shared, and forgotten when the
  process unregisters from votequorum. `VQuorum` models the callbacks in between: the keys of
  those who stay together are known in the end (`KeysConverge`). The key of a daemon that died
  is with votequorum still, but nobody sends it again: one that started since may never hear of
  it, so a heartbeat may take such a holder for visible or not (`HolderVisible`, `HolderHidden`).
  A start that has not read them
  yet is in `Qdisk` (`ValidateKeys` takes any part of the shared keys in sight). A heartbeat
  that has not is left out: it would take the branches for a holder out of sight a little longer,
  which only a daemon that has just started, or meets one that has, can come to.
- Keys are unique, as Design.md demands.
- SIGTERM and "too many skipped heartbeats" both lead to `algorithm_stop` and are one
  action, `LeaveLoop`.
- Expected votes are the members plus the disk, as in Design.md's status output. A node counts
  the members of its partition and the vote of its own daemon, and no other daemon's
  (`Quorate`): votequorum adds the qdevice vote of the local node only, and Design.md's status
  output has no master-wins flag. The losing half and the followers of the winner depend on it.
- A dispatch or poll that fails (`PollFails`) leaves the heartbeat unheard, like a skipped one;
  nobody looks at the result of `vquorum_qdevice_poll`.
- Faults (crashes, stops, skipped reads, failed polls, outcomes the disk would not give) cost one of
  `MaxFaults` each; changes of the network are bounded by `MaxChanges`.

### Cmap

Corosync has two keys per position of the nodelist and changes one key at a time, each with a
notification; a reload brackets the changes with the flag. The daemon connects, tracks,
counts (`CountKey` is one turn of the loop of `update_node_count`, so keys may change and the
connection may break in between), and reacts to each notification with a new count.
A call of the iteration that fails on a working connection ends the loop like the last key, and
the partial count is stored (`CountBreaksOff`; `cut` remembers it until the next count).
`Reconnect` is the `CS_ERR_LIBRARY` branch, `dead` a process that gave up and that systemd
starts again with Corosync.

`polled` says whether the descriptor of the connection is in the main loop. `main` adds that of
the first connection (main.c:252-259), and nothing dispatches cmap but the loop: what arrives on
the connection that `Reconnect` opens is never read, and when that one breaks nobody notices.
`CountConverges` therefore excepts two kinds of daemon, whose count may be old for good: one
whose last count broke off (`cut`), and one that has something waiting on a connection nobody
polls (`Deaf`). It still says that a connection that broke anywhere, in a reload or in a
count, is made up for by the count of the reconnection, and every notice by a count.

### VQuorum

A daemon that tracks votequorum is told of a membership (`Nodelist`), of the nodes Corosync
knows (`Quorum`) and of a node's extra info (`ExtraInfo`). `nodelist_notification_fn` replaces
the view; `quorum_notification_fn` rebuilds the list, keeps the keys of the nodes that stay,
gives new ones key 0, and shares the own key again; `qdevice_extra_info_notify` sets a key and
adds an entry where there is none. The last two lines matter together: a key that comes before
its node's notification is kept by the entry, one that was missed is sent again because the
notification made its owner share it.

| Code | Step |
|---|---|
| `vquorum_init` | `StartDaemon` (connect and track), callbacks in `init`, `vquorum_init` when the first dispatch has nothing left |
| `vquorum_get_node_key(_list)` | `Asked`, `NodeKeyLists`, `KeyListFails`; heartbeats, which only read, are not in this module |
| `validate_node_quorum_disk_keys` | `RefuseStart`, or the guard of `RegisterAndShare` |
| `algorithm_stop` | `StopOnDisk`, and then `StopInCorosync`: others may start in between |
| `CS_ERR_LIBRARY` | `CorosyncRestarts` breaks the connection (`lost`), `Reconnect` runs `vquorum_init`; lists and `qdisk_key` survive, the qdevice is not registered again. The new descriptor is not in the main loop either (main.c:261): from then on only the dispatch of a heartbeat's poll runs callbacks, and it does not handle a second `CS_ERR_LIBRARY`, so `Reconnect` happens once |

What is assumed of Corosync: notices reach a client in the order of their events; what is sent
within a partition is totally ordered; members of a new partition exchange their states
(`NodeInfo`) after they have told their clients the membership; a quorum notification goes out
when a qdevice comes or goes; extra info is kept by every member of the partition, and tracking
sends the membership and the known nodes but no extra info. A node that stopped in another
partition may leave its key in Corosync (`info`) for good: `WithdrawnKeysForgotten` compares
with what Corosync has.

`NodeKeyLists` has the uninitialised slots: a member without an entry and without a key leaves
its slot as `malloc` gave it, which is 0 (no key), the key of some node, or `Junk`.

### Device

`daemon` and `tool` are the two processes of a host, with the key they read; both go through
`device_new` (`access`, `create`, `write`, `read`, `probe`). `file` is the key file: missing,
empty, without a number ("bad"), or a key. `disk.mine` is this host's registration, under any of
its keys; `disk.holder` tells whether it, another host or nobody has the reservation.

| Code | Step |
|---|---|
| `persistent_reserve_device_new`, `generate_reserve_key` | `access`, `create` (`fopen` "w" empties the file; its failure leaves key 0), `write`, `read` (EOF ends the process, no number leaves key 0), `probe` |
| leftover reservation, 130-143 | `FindLeftover`, `CheckLeftover`, `GiveUpLeftover` |
| register, share | `RegisterKey` (SCSI overwrites any registration and removes it for key 0, NVMe refuses over another key), `ShareKey` |
| reads of a heartbeat, 227-298 | `CheckReserved`, `ReadOwner`, `ReleaseUnexpected`, `CheckKeys` |
| the switch, 317-423 | `Act`, with one state "idle" for all that never hold the reservation |
| `algorithm_stop` | `StopReleases`, `StopUnregisters` |
| `qdisktool` | `StartTool` (key from a file or the environment), `ToolOpens`, `ToolCommand` |

`Act` chooses freely what depends on the cluster (is there a tie, is the holder in sight, has
the timeout passed), so its properties hold whatever the cluster does. `ToolCommand`
takes an abort as one command; `QdiskAdmin` splits the SCSI one.

## 3. The runs

| Run | Instance | What it shows |
|---|---|---|
| `two_safety` | 2 nodes from the first start, 2 changes, 2 faults | `TypeOK`; `HaveQdiskHolds`: a daemon in `HAVE_QDISK` holds the reservation; `ServingIsRegistered`; `ResignedDoesNotVote`; `DeadHolderKeeps`: a winner that dies keeps the others out until it is back; `LostTieStays`: a half that has given up does not come back while the split lasts; `LockSpec`: the refinement |
| `split_winners` | 4 members, 3 daemons, 1 split | `WinnersOnHoldersSide`: no node counts on a reservation held in the other half; `WonTieStays`: who counts on a winner goes on doing so while the split lasts |
| `two_live` | 2 nodes, at rest or in a tie `a` has won, 1 change, 1 fault | `LastingTieHasOneSide`; `UnusedReservationReleased`; `SplitDecides`: in a lasting tie every daemon wins, follows a holder in sight, or has no vote; `MajorityReturnsToIdle`: after a heal the winner gives the reservation back, the loser leaves `RESIGNED`; `StopGivesUp`: a daemon that stops, or finds its key gone, leaves no reservation, registration or vote behind |
| `four_live` | 4 members, 2 daemons, 2 changes among whole, 2:2, 1:3 | `MajorityReturnsToIdle`, `MinorityYields`, `SplitDecides` (here with somebody who wins) |
| `admin` | 2 nodes, 1 change, 1 command on one of them, SCSI or NVMe | `AdminTypeOK`; `BrokenLockSpec`: the refinement of the breakable lock; `FewStaleWinners` (winners beside the holder are no more than the writes of the tool that changed the holder; after a SCSI abort between two wins there are two of each, so the bound is met); `OneWinnerAgain`, `ExpelledStops` |
| `vquorum` | 2 nodes from the first start, 1 change, 1 fault | `ViewIsCurrent`, `KeysAreKnown`, `WithdrawnKeysForgotten`, `KeysConverge` |
| `device` | 1 host with 2 keys, 2 faults, 3 changes from outside, SCSI or NVMe | `HeartbeatSawTheDisk`, `ZeroNeverActs`, `KeyFileIsRewritten`, `ServesUnderItsKey`, `UnusedReservationReleased` |
| `node_count` | 3 nodelists, 1 edit, 2 losses of Corosync or failed calls | `CountIsCurrent`, `CountConverges` |
| `odd_majority` | 3 members, 2 daemons | violated: a majority of an odd cluster stays in `RESIGNED` |
| `four_settles` | 4 members, 2 daemons in one half, 1 split in halves | violated: a daemon of the winning half stays in `RESIGNED` |
| `node_count_reload` | 3 nodelists, 2 edits, 1 loss | violated: the count changes during a reload |
| `start_refused` | as `vquorum` | violated: a start fails although all hosts use one disk |

Each property of a passing run has a faulty variant of a definition (the operators marked
*Faulty variant*) under which TLC finds it violated.

Why the bounds are enough. Two nodes are the smallest cluster with a tie, and every
interleaving of the two races is in it; the theorems of section 5 lift its safety results to
all clusters. `two_live` has one fault, so `StopGivesUp` is about a stop by itself or by a lost key,
with no command failing on the way. Two changes are a split and a heal, or two different splits with nodes that
saw only the second; one fault is a crash, a lost reply or a failed read at any step, two
are a crash that follows one of these. `two_live` also starts in the tie (`TieInit`, where a
split of the cluster at rest ends): its heal takes the one change that is left, and reaching
the tie first would take most of the states.
Four members add what two cannot show: a node that follows a holder of its own half, a
minority that is not alone with the disk's vote, a second split that takes the holder away
from its half, and, in `four_settles`, two daemons of one half that race for the disk: one split and
no fault are enough to lose one of them. The four-member runs start from a cluster at rest (`RestInit`: all in `IDLE`,
all votes cast, the state `two_safety` reaches by itself) since the starts of four processes
multiply the states without meeting the split. In `admin` the command is run on host `a` (`Hosts`):
the two nodes are alike at rest, so one on `b` shows nothing else. For the nodelist, three positions with two
keys each let a count be torn within a node and between nodes; two losses are a connection that
breaks in a count and another that breaks when nobody polls it, or a call that fails in the count
of a reconnection. For the keys of nodes, two
daemons and one fault already have a start, stop or lost Corosync at every moment of a split or
a heal, and the theorems lift the two invariants to every cluster. One host meets all that
`Device` is about: two keys are its own and one of an earlier life, three changes from outside
are a reservation that is taken, left and taken by an abort, or a tool among them; two faults
are a failed command and a crash after it.

Deadlock is checked in the runs of `Qdisk` and `QdiskAdmin`, where heartbeats never end. It is
not in those of `Cmap` and `VQuorum`, where a daemon that has read everything and a Corosync
with nothing to change may really stop (heartbeats change nothing there), nor in `device`,
whose processes may all be down for good.

## 4. Fairness

`Fairness` assumes of each daemon: its process goes on (`timer_cb` re-arms the timer before it
runs a heartbeat); time passes; votequorum expires a vote that is not renewed; and, with
strong fairness, a callback that can run again and again does run: callbacks wait while a
heartbeat runs, but the loop polls the descriptor after every timer, and the dispatch in
`vquorum_qdevice_poll` runs them too. Nothing is assumed of faults, starts, network changes,
or administrators; an abort of `qdisktool` that began goes on (`AdminFairness`). In `Cmap` only
the daemon is fair, and it is fair to a connection as long as its descriptor is in the loop: a
step that needs the descriptor (`Receive`, `Reconnect`) is not enabled without it (`polled`). In `VQuorum` the daemon and Corosync's exchange of states are (`DaemonStep`,
`NodeInfo`); weak fairness is enough, as nothing but a step of its own disables a waiting callback
for ever. In `Device` the daemon's steps are weakly fair and nothing forces it to start:
systemd does not restart a daemon that stopped by itself.

## 5. The proofs

`QdiskProofs` proves, for every finite set of members, every subset with daemons, every set of
layouts and every bound:

- `Invariance`: `IInv` is an invariant;
- `TypeCorrect`: `TypeOK`;
- `WinnerHolds`: `HaveQdiskHolds`;
- `RunningIsRegistered`: `ServingIsRegistered`;
- `DeadHolderKept`: `DeadHolderKeeps`;
- `ResignedSilent`: `ResignedDoesNotVote`;
- `ImplementsLock`: `LockSpec`, the refinement of `Tiebreaker`.

Assumptions: `NodeAssumption`, `LayoutAssumption`, `BoundAssumption` on the
constants and `NoKeyAssumption`; TLC evaluates them in the runs.

The argument. `HaveQdiskHolds` is not inductive by itself: a winner keeps the reservation only
because nobody unregisters its key and no other registrant can take it, so the invariant needs
that a running daemon is registered; and that needs that the states before the main loop are
all `START` (`StartsInStart`), since a process that enters the loop must not enter it as
a winner. `OwnStep(n)` says what a step of daemon `n` may do to the disk: touch only its own
key, take the reservation only when it is free, give it back only when it holds it and is not
the winner. One lemma per action shows that the action is such a step (`Step...`), and
`NextIsOwn` joins them. These lemmas need types and `StartsInStart` only (`TInv`), so they hold
beside an administrator as well: `OwnClaims(n)` says that a daemon that serves is registered
and one that wins holds the reservation, unless it already was without (`Unregistered`,
`Preempted`). `OthersKept` shows that a step of one node keeps the claims of all others; changes
of the network and expired votes touch none of this (`SameClaims`). `IInv`, which adds
`HaveQdiskHolds` and `ServingIsRegistered` to `TInv`, follows, and the refinement reuses the same
lemmas: `OwnStepIsLockStep` maps such a step to `Acquire`, `Win`, `Resign`, `LetGo` or a stutter.

`DeadHolderKeeps` follows from the same lemmas: another node's step leaves a reservation that is
not its own alone, and of the dead node's own steps only those after `validate` release it
(`DownLeavesDisk`). `ResignedDoesNotVote` is about the vote, and needs an invariant of its own
(`VoteInv`). `Honest` says of a process and its vote: a poll in `START` or `RESIGNED` casts no
vote; there is none when the heartbeat before the next one, in these states, was polled; and a
process that starts has polled nothing yet. What a skipped or ignored poll leaves behind is
remembered by `beat`, which is why the property asks for it.

`TieProofs` proves, under the assumptions of `QdiskProofs`, that a tie once decided stays decided
while the split lasts, the safety half of what `SplitDecides` checks as liveness:

- `LostStays`: `LostTieStays`. A half that has given up stays so, whatever fails or starts on
  either side. Half of the members has no quorum without a vote (`NoQuorumWithoutVote`), so no
  notification sets the flag that lets a daemon out of `START` or `RESIGNED`; none casts a vote
  there (`VoteInv`); and a process that starts again begins in `START` with the flag unset.
- `WonStays`: `WonTieStays`. The winner and those that follow it go on, as long as they run. It
  rests on `IInv` (the winner holds the reservation and is registered, so neither of the two
  checks that end a winner fails) and on `KnownInv`: a daemon whose ring is the current one has
  its members as its view, and who runs has shared its key, so a follower sees its holder.
  A winner whose own process is stopped or dies takes its followers' reason to follow with it;
  the theorem says nothing of them then.

`QdiskAdminProofs` proves, for any hosts, kinds of disk and number of commands, from
`AdminAssumption` beside the assumptions above: `AdminTypeCorrect`, `ImplementsBrokenLock`,
`StaleWinnersBounded`. With an administrator neither `HaveQdiskHolds` nor `ServingIsRegistered` is
an invariant: a preempted winner learns of it at its next heartbeat, and an expelled daemon
runs until it reads the keys. So nothing here rests on `IInv`. The daemons' steps are steps of
the breakable lock by the lemmas under `TInv` (`OwnStepIsBrokenStep`). A command is a break, or
leaves owner, winners and `breaks` alone (`CommandIsBrokenStep`): it writes to nothing but the
disk, `OnlyDisk` counts it exactly when the holder changed, and the new holder is a node or
nobody (`CommandKeepsDisk`). `StaleWinnersBounded` is then proved from the
steps of the breakable lock alone (`BrokenStepKeepsBound`): a step that makes one more winner
stale is a break. The theorems are about `AdminSpec`, which begins with the first start; the run
begins at rest. That stale winners also go away (`OneWinnerAgain`) is liveness.

`SplitProofs` proves `SplitSafe`: `WinnersOnHoldersSide` in the specification of the run
`split_winners` (`RestSpec`, a cluster at rest), for every finite set of members, every subset with
daemons and every set of layouts, if the network changes once at most and no fault occurs
(`MaxChanges \in 0..1`, `MaxFaults = 0`; both are hypotheses of the theorem). The property alone is
not inductive: it needs to know that a decision is taken on a view and a holder that are still
valid. `SplitInv` says so: a daemon that races, follows or has won has its partition as its view
(`Knows`), since it saw half of the members and the view of the whole cluster is not half of it;
and a holder that was read before a reserve is still the holder, since there is no holder before
the first reserve that succeeds and no other after it. It then follows that a refused daemon sees
the holder on its own side or resigns. With a second change or a fault the property fails for a
while by design: `LastingTieHasOneSide` and `SplitDecides` take its place.

`VQuorumProofs` proves, for every finite set of nodes, every set of layouts whose partitions are
consistent (`LayoutAssumption`) and every bound: `Invariance`, `TypeCorrect`, `ViewCurrent`,
`KeysKnown`, `WithdrawnForgotten`. A property about an empty queue is not inductive: a step that reads the
last notice must know what it said. `Ends(q, W, E, v, V)` says what a queue `q` leaves behind
once it is read: the last notice of `W` (which makes it true) comes after every notice of `E`
(which makes it false), or it is true already and no notice of `E` is queued. `IInv` states with
it, whatever is still queued, that a daemon will end with its partition as its view
(`ViewsEnd`), with the key of every sharing node of its partition unless a broadcast or an
answer that brings it is still due (`KeysEnd`), and without the keys Corosync does not have
(`WithdrawnEnds`). `EndsAppend`, `EndsTail` and `EndsEmpty` are all the proofs use of `Ends`: a
notice that is sent, one that is read, and the empty queue that gives the properties.

`DeviceProofs` proves, for any keys, either kind of disk and every bound: `Invariance`,
`TypeCorrect`, `HeartbeatSaw`, `ZeroStops`, `KeyFileRewritten`. The three invariants are each
inductive beside `TypeOK`, except that `ZeroNeverActs` needs `NoScsiZero` (a SCSI disk never has
a registration of key 0, whoever sends the command); the lemmas `...Keeps` show it of each
command, with every outcome a fault can give it.

`CmapProofs` proves, for every set of nodelists over finitely many positions (`ConfigAssumption`)
and every bound: `Invariance`, `TypeCorrect`, `CountCurrent`. The count goes over keys that may
change under it, so during an iteration it may be neither the old nor the new number.
`NoneMissed` says what holds all the same: if no notification about the nodelist is queued, the
iteration has missed no change, and its number is that of the positions up to the key it is at
(`OnePositionMore`, `SamePosition`: the keys of a position are together in the order of the
iteration); between counts the stored number is then the number of nodes, unless the count that
stored it broke off at a call that failed (`cut`). `NoneTwice` bounds the number also when keys come and go: it never counts a position
beyond the last it has seen.

## 6. What is only model-checked

Liveness under fairness (`LastingTieHasOneSide`, `MajorityReturnsToIdle`, `MinorityYields`,
`SplitDecides`, `StopGivesUp`, `UnusedReservationReleased`, `OneWinnerAgain`, `ExpelledStops`, `KeysConverge`,
`CountConverges`, `ServesUnderItsKey`) is beyond this prover, which does not reason about ENABLED. Every
other property of a passing run is stated by a theorem. Of `SplitDecides` and
`LastingTieHasOneSide` it is proved that what they reach is stable (`TieProofs`), not that it is
reached.

## 7. Where the documentation and the code differ

- Design.md:442 promises `IDLE` to every partition larger than half. With an odd number of
  members the disk makes the number of votes even, and a majority of half plus one half has
  no quorum without the disk's vote, which neither `RESIGNED` nor `START` casts
  (`odd_majority`).
- Design.md:432 has the nodes of a winning partition in `HAVE_QDISK` or `RECV_VOTE`, and
  Design.md:250 brings a partition that had resigned back to `IDLE` when it joins the quorate one;
  the comment at algorithm.c:413 says the same ("somehow joined the winning partition"). Two
  daemons of one half race: the second to reserve is refused, judges by the holder it read before
  (nobody), and resigns if its timeout has passed (algorithm.c:370; algorithm.c:339 for one that
  waited out a holder in `IDLE`). It does not cast its vote, half of the members is no quorum
  without that, and `RESIGNED` waits for a quorum: it stays, with the winner in sight
  (`four_settles`). What the code keeps is `SplitDecides`: the winner goes on, and the resigned node
  has no vote.
- main.c:252-267 puts the descriptors of the first connections to cmap and votequorum into the
  loop; cmap.c:173 and vquorum.c:268 open new ones after `CS_ERR_LIBRARY` and tell the loop nothing.
  Heartbeats still dispatch votequorum; the nodelist is not followed any more. No document speaks
  of it, so there is no run: `Cmap` has the behaviour, and `CountConverges` the exception.
- vquorum.c:366 and Design.md:342: the key of a node that has none is read from uninitialised
  memory, and a start that finds anything but 0 or a registered key there is refused
  (`start_refused`).
- Design.md:381 lets `RESERVE_DISK` resign after the timeout; algorithm.c:366-369 resigns at
  once when the holder is out of sight. No run.
- Design.md:333 lets an empty key file get a key; device.c:112 fails on it. A crash between the
  `fopen` and the `fprintf` of `generate_reserve_key` leaves such a file, and every later start
  fails. No run: `KeyFileIsRewritten` says that without a fault it does not come to that.
- scsi_device.c:409 and 418 compare the status of `pclose` with exit codes of `sg_persist`: such a
  status is a multiple of 256 when the command exits, so the early refusals are never taken and a
  disk without reservations is tried five times. No run.
- cmap.c:237 waits for the full reload; cmap.c:263 does not (`node_count_reload`).
- Design.md:361 has `START` validate the keys of the visible nodes; the code does so only in
  `algorithm_init`, the check in `START` being commented out (algorithm.c:320). No run.

## 8. Not modelled

- Uninitialised slots in the key list of a heartbeat (`HolderVisible`). A slot keeps what `malloc`
  left only for a visible node without an entry in the list of keys, and every node Corosync
  knows gets an entry with the quorum notification (vquorum.c:91-93): a heartbeat meets such a slot
  between two callbacks at most, and then takes a holder out of sight for visible in that heartbeat
  if the memory held the holder's key. The start, where it decides, has them (`start_refused`).
- Parsing of command output, choosing the command and finding devices, the hash behind a
  generated key, logging, the systemd restart limit: I/O or output only.
- The number of heartbeats skipped in a row (`good_heartbeat_timeout`): `LeaveLoop` may come at
  any heartbeat instead, at the price of a fault.
- Memory that cannot be allocated, where the code aborts or returns an error: a crash or a
  skipped heartbeat.
- Votequorum, totem, cmap and the disk are modelled from how this code uses them, and marked
  external in `PROJECT.json`.

## 9. Plan

Done: `Reservation`, `Qdisk`, `Tiebreaker`, `QdiskAdmin`, `BreakableLock`, `Cmap`, `VQuorum`,
`Device`, the theorems of section 5.

Left: an abstract `KeyDirectory` that `VQuorum` implements, and that stands for `shared` in
`Qdisk`.
