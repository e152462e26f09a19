--------------------------------- MODULE VQuorum -------------------------------
(***************************************************************************)
(* How a daemon learns the keys of the nodes it sees: qdiskd/vquorum.c.    *)
(*                                                                         *)
(* Corosync tells a connected daemon, in order, of a new membership        *)
(* ("nodelist"), of the nodes it knows of ("quorum") and of the extra info *)
(* a node attaches to its qdevice ("info"): the daemon's key.  The daemon  *)
(* keeps the members it sees and a list of nodes with their keys; a node   *)
(* that the list lacks is asked for at corosync.                           *)
(*                                                                         *)
(* A node stands for its key.  Corosync is modelled by what the callbacks  *)
(* and calls rely on; messages within a partition are totally ordered.     *)
(***************************************************************************)
EXTENDS Integers, Sequences, FiniteSets

CONSTANTS Node,       \* the members, all of which run a daemon on the same disk
          Layouts,    \* the networks: each maps a node to its partition
          Junk,       \* what a slot of the key list may hold that is nobody's key
          MaxChanges, \* bound on network changes
          MaxFaults   \* bound on stops, crashes and restarts of corosync

ASSUME NodeAssumption == IsFiniteSet(Node) /\ Junk \notin Node
ASSUME LayoutAssumption ==
  /\ Layouts \subseteq [Node -> SUBSET Node]
  /\ \A net \in Layouts : \A n \in Node : n \in net[n]
  /\ \A net \in Layouts : \A n, m \in Node : m \in net[n] => net[m] = net[n]
ASSUME BoundAssumption == MaxChanges \in Nat /\ MaxFaults \in Nat

VARIABLES network,    \* the current layout
          known,      \* the nodes corosync on a node knows of
          info,       \* the nodes whose extra info corosync on a node has
          due,        \* nodes whose state is still to be broadcast by corosync
          queue,      \* what corosync has sent to the daemon of a node
          client,     \* the daemons: the globals of vquorum.c
          registered, \* the keys registered on the disk
          changes, faults

corosyncVars == <<known, info, due>>
vars == <<network, known, info, due, queue, client, registered, changes, faults>>

(***************************************************************************)
(* view: g_visible_node_list; listed: the nodes in g_node_list, keyed:     *)
(* those with a disk_key other than 0; qdevice: is it registered with      *)
(* votequorum?  qdisk_key is set where pc is "run" or "lost".              *)
(***************************************************************************)
PC == {"down", "init", "start", "run", "lost", "stop", "refused"}

Client == [pc : PC, view : SUBSET Node, listed : SUBSET Node, keyed : SUBSET Node,
           qdevice : BOOLEAN]

Boot == [pc |-> "down", view |-> {}, listed |-> {}, keyed |-> {}, qdevice |-> FALSE]

Nodelist(nodes)   == [type |-> "nodelist", nodes |-> nodes, key |-> FALSE]
Quorum(nodes)     == [type |-> "quorum", nodes |-> nodes, key |-> FALSE]
ExtraInfo(m, key) == [type |-> "info", nodes |-> {m}, key |-> key]

Notice == [type : {"nodelist", "quorum"}, nodes : SUBSET Node, key : {FALSE}]
            \cup [type : {"info"}, nodes : {{m} : m \in Node}, key : BOOLEAN]

TypeOK ==
  /\ network \in Layouts
  /\ known \in [Node -> SUBSET Node]
  /\ info \in [Node -> SUBSET Node]
  /\ due \subseteq Node
  /\ queue \in [Node -> Seq(Notice)]
  /\ client \in [Node -> Client]
  /\ \A n \in Node : client[n].keyed \subseteq client[n].listed
  /\ registered \subseteq Node
  /\ changes \in 0..MaxChanges
  /\ faults \in 0..MaxFaults

Init ==
  /\ network \in Layouts
  /\ known = network
  /\ info = [n \in Node |-> {}]
  /\ due = {}
  /\ queue = [n \in Node |-> <<>>]
  /\ client = [n \in Node |-> Boot]
  /\ registered = {}
  /\ changes = 0
  /\ faults = 0

-----------------------------------------------------------------------------
(* Corosync.                                                               *)
Update(n, c) == client' = [client EXCEPT ![n] = c]

Fault == faults < MaxFaults /\ faults' = faults + 1

Connected(n) == client[n].pc \notin {"down", "refused", "lost"}

\* The queues q with what each connected daemon of a set is told.
Tell(q, nodes, notice) ==
  [k \in Node |-> IF k \in nodes /\ Connected(k) THEN Append(q[k], notice[k]) ELSE q[k]]

NetworkChange ==
  /\ changes < MaxChanges
  /\ changes' = changes + 1
  /\ network' \in Layouts \ {network}
  /\ LET moved == {k \in Node : network'[k] # network[k]} IN
       /\ queue' = Tell(queue, moved, [k \in Node |-> Nodelist(network'[k])])
       /\ due' = due \cup moved
  /\ UNCHANGED <<known, info, client, registered, faults>>

\* The members of a new partition exchange their states: they get to know each other,
\* and tell their daemons the nodes they know.
NodeInfo(n) ==
  /\ n \in due
  /\ due' = due \ network[n]
  /\ known' = [k \in Node |-> IF k \in network[n] THEN known[k] \cup network[n] ELSE known[k]]
  /\ queue' = Tell(queue, network[n], [k \in Node |-> Quorum(known'[k])])
  /\ UNCHANGED <<network, info, client, registered, changes, faults>>

\* Corosync tells the partition of n that a qdevice came or went.
Announced(n) == Tell(queue, network[n], [k \in Node |-> Quorum(known[k])])

\* n attaches its key to its qdevice (votequorum_set_qdevice_extra_info), on top of
\* the queues q, ...
Attach(n, q) ==
  /\ info' = [k \in Node |-> IF k \in network[n] THEN info[k] \cup {n} ELSE info[k]]
  /\ queue' = Tell(q, network[n], [k \in Node |-> ExtraInfo(n, TRUE)])

\* ... and takes it away.
Detach(n) ==
  /\ info' = [k \in Node |-> IF k \in network[n] THEN info[k] \ {n} ELSE info[k]]
  /\ queue' = [Tell(Announced(n), network[n], [k \in Node |-> ExtraInfo(n, FALSE)])
                 EXCEPT ![n] = <<>>]

\* Corosync on a node that is alone ends and starts again.  A daemon in service
\* notices the broken connection; one that starts or stops ends with an error.
CorosyncRestarts(n) ==
  /\ Fault
  /\ network[n] = {n}
  /\ known' = [known EXCEPT ![n] = {n}]
  /\ info' = [info EXCEPT ![n] = {}]
  /\ queue' = [queue EXCEPT ![n] = <<>>]
  /\ Update(n, IF client[n].pc \in {"run", "lost"} THEN [client[n] EXCEPT !.pc = "lost"]
                                                   ELSE Boot)
  /\ UNCHANGED <<network, due, registered, changes>>

\* votequorum_trackstart sends the membership and the nodes known.
Tracked(n) == <<Nodelist(network[n]), Quorum(known[n])>>

-----------------------------------------------------------------------------
(* The callbacks.                                                          *)
Receive(n, type) ==
  /\ client[n].pc \in {"init", "run"}
  /\ queue[n] # <<>>
  /\ Head(queue[n]).type = type

Rest(n) == [queue EXCEPT ![n] = Tail(@)]

nodelist_notification_fn(n) ==
  /\ Receive(n, "nodelist")
  /\ Update(n, [client[n] EXCEPT !.view = Head(queue[n]).nodes])
  /\ queue' = Rest(n)
  /\ UNCHANGED <<network, corosyncVars, registered, changes, faults>>

\* Corosync takes a key only from a registered qdevice.
Shares(n) == client[n].pc = "run" /\ client[n].qdevice

\* Faulty variant: keys are kept of nodes that leave the list.
QuorumKeepsKeys(n) ==
  /\ Receive(n, "quorum")
  /\ Update(n, [client[n] EXCEPT !.listed = Head(queue[n]).nodes])
  /\ IF Shares(n) THEN Attach(n, Rest(n)) ELSE queue' = Rest(n) /\ UNCHANGED info
  /\ UNCHANGED <<network, known, due, registered, changes, faults>>

\* Faulty variant: the key is not shared again.
QuorumKeepsSilent(n) ==
  /\ Receive(n, "quorum")
  /\ LET nodes == Head(queue[n]).nodes IN
       Update(n, [client[n] EXCEPT !.listed = nodes, !.keyed = @ \cap nodes])
  /\ queue' = Rest(n) /\ UNCHANGED info
  /\ UNCHANGED <<network, known, due, registered, changes, faults>>

\* Faulty variant: the key is shared again only when the list changes.
QuorumSharesNews(n) ==
  /\ Receive(n, "quorum")
  /\ LET nodes == Head(queue[n]).nodes IN
       /\ Update(n, [client[n] EXCEPT !.listed = nodes, !.keyed = @ \cap nodes])
       /\ IF Shares(n) /\ nodes # client[n].listed
            THEN Attach(n, Rest(n)) ELSE queue' = Rest(n) /\ UNCHANGED info
  /\ UNCHANGED <<network, known, due, registered, changes, faults>>

\* Nodes that stay in the list keep their keys, new ones have key 0, others are
\* dropped; then the own key is shared again, for whoever may have joined.
quorum_notification_fn(n) ==
  /\ Receive(n, "quorum")
  /\ LET nodes == Head(queue[n]).nodes IN
       Update(n, [client[n] EXCEPT !.listed = nodes, !.keyed = @ \cap nodes])
  /\ IF Shares(n) THEN Attach(n, Rest(n)) ELSE queue' = Rest(n) /\ UNCHANGED info
  /\ UNCHANGED <<network, known, due, registered, changes, faults>>

\* Faulty variant: extra info without a key leaves the key as it was.
ExtraInfoKeepsKey(n) ==
  /\ Receive(n, "info")
  /\ LET from == Head(queue[n]).nodes IN
       Update(n, [client[n] EXCEPT
                    !.listed = @ \cup from,
                    !.keyed = IF Head(queue[n]).key THEN @ \cup from ELSE @])
  /\ queue' = Rest(n)
  /\ UNCHANGED <<network, corosyncVars, registered, changes, faults>>

\* The key of a node, or none; the node gets an entry if it has none yet.
qdevice_extra_info_notify(n) ==
  /\ Receive(n, "info")
  /\ LET from == Head(queue[n]).nodes IN
       Update(n, [client[n] EXCEPT
                    !.listed = @ \cup from,
                    !.keyed = IF Head(queue[n]).key THEN @ \cup from ELSE @ \ from])
  /\ queue' = Rest(n)
  /\ UNCHANGED <<network, corosyncVars, registered, changes, faults>>

vquorum_dispatch_all(n) ==
  nodelist_notification_fn(n) \/ quorum_notification_fn(n) \/ qdevice_extra_info_notify(n)

-----------------------------------------------------------------------------
(* The process.                                                            *)

\* vquorum_init: connect, track, ...
StartDaemon(n) ==
  /\ client[n].pc \in {"down", "refused"}
  /\ Update(n, [Boot EXCEPT !.pc = "init"])
  /\ queue' = [queue EXCEPT ![n] = Tracked(n)]
  /\ UNCHANGED <<network, corosyncVars, registered, changes, faults>>

\* ... and dispatch until nothing is waiting.
vquorum_init(n) ==
  /\ client[n].pc = "init"
  /\ queue[n] = <<>>
  /\ Update(n, [client[n] EXCEPT !.pc = "start"])
  /\ UNCHANGED <<network, corosyncVars, queue, registered, changes, faults>>

\* vquorum_get_node_key: members without an entry are asked for at corosync, ...
Asked(n) == client[n].view \ client[n].listed

\* ... and the slot of one that has no key there keeps what it held.
NodeKeyLists(n) ==
  LET keys == (client[n].view \cap client[n].keyed) \cup (Asked(n) \cap info[n])
      junk == {left \in SUBSET (Node \cup {Junk}) :
                 Cardinality(left) <= Cardinality(Asked(n) \ info[n])}
  IN  {keys \cup left : left \in junk}

\* The process ends: with it goes what was under way to it.
Exit(n, how) ==
  /\ Update(n, [Boot EXCEPT !.pc = how])
  /\ queue' = [queue EXCEPT ![n] = <<>>]

\* Corosync knows nothing of a member that is just joining: an error.
KeyListFails(n) ==
  /\ client[n].pc = "start"
  /\ ~ Asked(n) \subseteq known[n]
  /\ Exit(n, "down")
  /\ UNCHANGED <<network, corosyncVars, registered, changes, faults>>

RefuseStart(n) ==
  /\ client[n].pc = "start"
  /\ Asked(n) \subseteq known[n]
  /\ \E keys \in NodeKeyLists(n) : ~ keys \subseteq registered
  /\ Exit(n, "refused")
  /\ UNCHANGED <<network, corosyncVars, registered, changes, faults>>

\* Every key listed is on the disk: register with both, and share the key.
RegisterAndShare(n) ==
  /\ client[n].pc = "start"
  /\ Asked(n) \subseteq known[n]
  /\ \E keys \in NodeKeyLists(n) : keys \subseteq registered
  /\ Update(n, [client[n] EXCEPT !.pc = "run", !.qdevice = TRUE])
  /\ registered' = registered \cup {n}
  /\ Attach(n, Announced(n))
  /\ UNCHANGED <<network, known, due, changes, faults>>

\* Faulty variant: the new connection is not tracked.
ReconnectUntracked(n) ==
  /\ client[n].pc = "lost" /\ client[n].qdevice
  /\ \/ Update(n, [client[n] EXCEPT !.pc = "run", !.qdevice = FALSE]) /\ UNCHANGED queue
     \/ Exit(n, "down")
  /\ UNCHANGED <<network, corosyncVars, registered, changes, faults>>

\* vquorum_dispatch_all on a broken connection: vquorum_init again or abort.  The
\* lists and qdisk_key survive; the qdevice is not registered again.  A second loss goes
\* unnoticed: the loop polls the descriptor of the first connection only, and the
\* dispatch before a poll just gives up.
Reconnect(n) ==
  /\ client[n].pc = "lost" /\ client[n].qdevice
  /\ \/ /\ Update(n, [client[n] EXCEPT !.pc = "run", !.qdevice = FALSE])
        /\ queue' = [queue EXCEPT ![n] = Tracked(n)]
     \/ Exit(n, "down")
  /\ UNCHANGED <<network, corosyncVars, registered, changes, faults>>

\* algorithm_stop: first the disk, ...
StopOnDisk(n) ==
  /\ client[n].pc = "run"
  /\ Fault
  /\ registered' = registered \ {n}
  /\ Update(n, [client[n] EXCEPT !.pc = "stop"])
  /\ UNCHANGED <<network, corosyncVars, queue, changes>>

\* ... then vquorum_qdevice_unregister, with which corosync forgets the key.
StopInCorosync(n) ==
  /\ client[n].pc = "stop"
  /\ Update(n, Boot)
  /\ Detach(n)
  /\ UNCHANGED <<network, known, due, registered, changes, faults>>

Crash(n) ==
  /\ client[n].pc \notin {"down", "refused"}
  /\ Fault
  /\ Exit(n, "down")
  /\ UNCHANGED <<network, corosyncVars, registered, changes>>

-----------------------------------------------------------------------------
\* What a process does by itself.
DaemonStep(n) ==
  \/ vquorum_dispatch_all(n) \/ vquorum_init(n)
  \/ KeyListFails(n) \/ RefuseStart(n) \/ RegisterAndShare(n)
  \/ Reconnect(n) \/ StopInCorosync(n)

Next ==
  \/ NetworkChange
  \/ \E n \in Node :
       \/ NodeInfo(n) \/ CorosyncRestarts(n)
       \/ StartDaemon(n) \/ DaemonStep(n) \/ StopOnDisk(n) \/ Crash(n)

Spec == Init /\ [][Next]_vars

\* The process goes on: its loop polls the votequorum descriptor, and every heartbeat
\* dispatches too, also on a new connection.  Corosync delivers.  Nothing forces a start, a fault or a change.
Fairness == \A n \in Node : WF_vars(DaemonStep(n)) /\ WF_vars(NodeInfo(n))

FairSpec == Spec /\ Fairness

-----------------------------------------------------------------------------
(* Properties.                                                             *)

\* Nothing more is coming to n of what happened in its partition.
Quiet(n) == due \cap network[n] = {} /\ queue[n] = <<>>

\* A daemon that has read all it was told sees its partition and nobody else, across
\* changes that come while it starts, stops or has lost corosync: a poll, which is
\* preceded by a dispatch of all there is (vquorum.c:382), goes out with the view and
\* the ring of the moment.
ViewIsCurrent ==
  \A n \in Node : Connected(n) /\ queue[n] = <<>> => client[n].view = network[n]

\* Once nothing is under way between two daemons that are together, each sees the
\* other and has its key: in whatever order they started, met, restarted or
\* reconnected, and though a new entry starts with key 0 (vquorum.c:93).
KeysAreKnown ==
  \A n, m \in Node :
    /\ Shares(n) /\ Shares(m) /\ m \in network[n]
    /\ Quiet(n) /\ Quiet(m)
    => m \in client[n].view \cap client[n].keyed

\* A daemon that has read all it was told has no key that was withdrawn: a node whose
\* daemon has stopped does not count as a holder in sight.
WithdrawnKeysForgotten ==
  \A n \in Node :
    Shares(n) /\ queue[n] = <<>> => client[n].keyed \subseteq info[n]

\* Two daemons that stay together have each other's keys for good: what the
\* callbacks make corosync send comes to an end.
KeysConverge ==
  \A n, m \in Node :
    <>[](Shares(n) /\ Shares(m) /\ m \in network[n])
      => <>[](m \in client[n].view \cap client[n].keyed)

\* Design.md:342: "Verify that every host in the cluster that has a key is registered
\* with the disk to prevent misconfiguration pointing different hosts to different
\* disks".  All hosts of this module use one disk, so no start is refused.
StartNotRefused ==
  [][\A n \in Node : client[n].pc = "start" => client'[n].pc # "refused"]_vars
================================================================================
