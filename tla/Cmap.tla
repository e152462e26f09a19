--------------------------------- MODULE Cmap ----------------------------------
(***************************************************************************)
(* How a daemon counts the members of the cluster: qdiskd/cmap.c.          *)
(*                                                                         *)
(* Corosync keeps the nodelist as keys nodelist.node.<position>.<name>,    *)
(* changes them one at a time, and queues a notification of every change   *)
(* for whoever tracks it.  The daemon counts the positions whenever it is  *)
(* notified, by an iteration during which the keys may change and the      *)
(* connection may break.  tiebreak_needed of algorithm.c compares the      *)
(* nodes in view with this count.                                          *)
(***************************************************************************)
EXTENDS Integers, Sequences, FiniteSets, FiniteSetsExt

CONSTANTS Configs,     \* the nodelists: sets of positions
          MaxChanges,  \* bound on edits of the nodelist
          MaxLosses    \* bound on the times corosync goes away, or fails a call

ASSUME ConfigAssumption ==
  /\ Configs \subseteq SUBSET (Nat \ {0}) /\ Configs # {}
  /\ IsFiniteSet(UNION Configs)
ASSUME BoundAssumption == MaxChanges \in Nat /\ MaxLosses \in Nat

VARIABLES keys,       \* the nodelist keys that corosync has
          target,     \* the nodelist that is being put in place
          reloading,  \* config.totemconfig_reload_in_progress
          up,         \* is corosync there?
          connected,  \* does the daemon's connection work?
          tracks,     \* what the connection tracks: "reload", "nodelist"
          queue,      \* the notifications under way
          polled,     \* is the descriptor of the connection in the main loop?
          pc,         \* where the daemon is
          iter,       \* the iteration of update_node_count
          g_node_count, cmap_reload_in_progress,
          cut,        \* history: the last count broke off at a call that failed
          changes, losses

corosyncVars == <<keys, target, reloading, up>>
countVars == <<iter, g_node_count, cut>>
vars == <<keys, target, reloading, up, connected, tracks, queue, polled, pc, iter,
          g_node_count, cmap_reload_in_progress, cut, changes, losses>>

\* A position has two keys, ring0_addr and nodeid.  They are numbered in the order
\* of the iteration, which keeps the keys of a position together.
KeysOf(config) == {2 * p - i : p \in config, i \in {0, 1}}
Position(key) == (key + 1) \div 2
AllKeys == UNION {KeysOf(config) : config \in Configs}
Positions == UNION Configs

NodeCount == Cardinality({Position(key) : key \in keys})

PC == {"init", "track", "count", "loop", "dead"}

\* at: the last key seen; last: last_node_pos; n: new_nodecount.
NewIteration == [at |-> 0, last |-> 0, n |-> 0]

TypeOK ==
  /\ keys \subseteq AllKeys
  /\ target \in Configs
  /\ {reloading, up, connected, polled, cmap_reload_in_progress, cut} \subseteq BOOLEAN
  /\ tracks \subseteq {"reload", "nodelist"}
  /\ queue \in Seq({"started", "ended", "nodelist"})
  /\ pc \in PC
  /\ iter \in [at : AllKeys \cup {0}, last : Positions \cup {0}, n : 0..Cardinality(Positions)]
  /\ g_node_count \in 0..Cardinality(Positions)
  /\ changes \in 0..MaxChanges
  /\ losses \in 0..MaxLosses

Init ==
  /\ target \in Configs
  /\ keys = KeysOf(target)
  /\ reloading = FALSE
  /\ up = TRUE
  /\ connected = FALSE
  /\ tracks = {}
  /\ queue = <<>>
  /\ polled = TRUE
  /\ pc = "init"
  /\ iter = NewIteration
  /\ g_node_count = 0
  /\ cmap_reload_in_progress = FALSE
  /\ cut = FALSE
  /\ changes = 0
  /\ losses = 0

-----------------------------------------------------------------------------
(* Corosync.                                                               *)
Notify(track, event) ==
  queue' = IF track \in tracks THEN Append(queue, event) ELSE queue

\* A new nodelist: by a reload of corosync.conf, or by hand.
ChangeNodelist ==
  /\ up /\ ~ reloading
  /\ keys = KeysOf(target)
  /\ changes < MaxChanges
  /\ changes' = changes + 1
  /\ target' \in Configs \ {target}
  /\ \/ reloading' = TRUE /\ Notify("reload", "started")
     \/ UNCHANGED <<reloading, queue>>
  /\ UNCHANGED <<keys, up, connected, tracks, polled, pc, countVars,
                 cmap_reload_in_progress, losses>>

\* One key appears or goes.
ChangeKey ==
  /\ up
  /\ \/ \E key \in KeysOf(target) \ keys : keys' = keys \cup {key}
     \/ \E key \in keys \ KeysOf(target) : keys' = keys \ {key}
  /\ Notify("nodelist", "nodelist")
  /\ UNCHANGED <<target, reloading, up, connected, tracks, polled, pc, countVars,
                 cmap_reload_in_progress, changes, losses>>

EndReload ==
  /\ up /\ reloading
  /\ keys = KeysOf(target)
  /\ reloading' = FALSE
  /\ Notify("reload", "ended")
  /\ UNCHANGED <<keys, target, up, connected, tracks, polled, pc, countVars,
                 cmap_reload_in_progress, changes, losses>>

\* Corosync goes away, with every connection and what it had queued, ...
LoseCorosync ==
  /\ up
  /\ losses < MaxLosses
  /\ losses' = losses + 1
  /\ up' = FALSE /\ reloading' = FALSE /\ connected' = FALSE
  /\ tracks' = {} /\ queue' = <<>>
  /\ UNCHANGED <<keys, target, polled, pc, countVars, cmap_reload_in_progress, changes>>

\* ... and comes back with the nodelist of its configuration file.
CorosyncStarts ==
  /\ ~ up
  /\ up' = TRUE
  /\ target' \in Configs
  /\ keys' = KeysOf(target')
  /\ UNCHANGED <<reloading, connected, tracks, queue, polled, pc, countVars,
                 cmap_reload_in_progress, changes, losses>>

-----------------------------------------------------------------------------
(* The daemon.                                                             *)

\* qdisk_cmap_init: connect and track reloads, ...
Initialize ==
  /\ pc = "init"
  /\ \/ up /\ connected' = TRUE /\ tracks' = {"reload"} /\ pc' = "track"
     \/ ~ up /\ pc' = "dead" /\ UNCHANGED <<connected, tracks>>
  /\ UNCHANGED <<corosyncVars, polled, queue, countVars, cmap_reload_in_progress,
                 changes, losses>>

\* Faulty variant: the nodelist is not tracked, a reload is.
TrackReloadsOnly ==
  /\ pc = "track"
  /\ \/ connected /\ pc' = "count" /\ iter' = NewIteration
     \/ ~ connected /\ pc' = "dead" /\ UNCHANGED iter
  /\ UNCHANGED <<corosyncVars, polled, connected, tracks, queue, g_node_count, cut,
                 cmap_reload_in_progress, changes, losses>>

\* ... track the nodelist, and then count it.
TrackNodelist ==
  /\ pc = "track"
  /\ \/ connected /\ tracks' = tracks \cup {"nodelist"} /\ pc' = "count" /\ iter' = NewIteration
     \/ ~ connected /\ pc' = "dead" /\ UNCHANGED <<tracks, iter>>
  /\ UNCHANGED <<corosyncVars, polled, connected, queue, g_node_count, cut,
                 cmap_reload_in_progress, changes, losses>>

Following == {key \in keys : key > iter.at}

\* Faulty variant: every key counts.
CountEveryKey ==
  /\ pc = "count"
  /\ connected /\ Following # {}
  /\ iter' = [at |-> Min(Following), last |-> Position(Min(Following)), n |-> iter.n + 1]
  /\ UNCHANGED <<corosyncVars, connected, tracks, queue, polled, pc, g_node_count, cut,
                 cmap_reload_in_progress, changes, losses>>

\* update_node_count: one turn of its loop.
CountKey ==
  /\ pc = "count"
  /\ connected /\ Following # {}
  /\ LET key == Min(Following) IN
       iter' = [at |-> key, last |-> Position(key),
                n |-> IF Position(key) = iter.last THEN iter.n ELSE iter.n + 1]
  /\ UNCHANGED <<corosyncVars, connected, tracks, queue, polled, pc, g_node_count, cut,
                 cmap_reload_in_progress, changes, losses>>

\* The loop ends with the last key, and when the connection breaks.
CountDone ==
  /\ pc = "count"
  /\ ~ connected \/ Following = {}
  /\ g_node_count' = iter.n
  /\ cut' = FALSE
  /\ iter' = NewIteration
  /\ pc' = "loop"
  /\ UNCHANGED <<corosyncVars, polled, connected, tracks, queue, cmap_reload_in_progress,
                 changes, losses>>

\* So it does with the first call that fails, of which nothing is heard but a line of log.
CountBreaksOff ==
  /\ pc = "count"
  /\ connected /\ Following # {}
  /\ losses < MaxLosses
  /\ losses' = losses + 1
  /\ g_node_count' = iter.n
  /\ cut' = TRUE
  /\ iter' = NewIteration
  /\ pc' = "loop"
  /\ UNCHANGED <<corosyncVars, polled, connected, tracks, queue, cmap_reload_in_progress,
                 changes>>

update_node_count == CountKey \/ CountDone

\* main.c puts the descriptor of the first connection into its loop, and none but that one:
\* nothing else dispatches cmap.
Receive(event) ==
  /\ pc = "loop"
  /\ polled
  /\ connected /\ queue # <<>>
  /\ Head(queue) = event
  /\ queue' = Tail(queue)

qdisk_cmap_reload_cb ==
  /\ \/ Receive("started") /\ cmap_reload_in_progress' = TRUE /\ UNCHANGED pc
     \/ Receive("ended") /\ cmap_reload_in_progress' = FALSE /\ pc' = "count"
  /\ UNCHANGED <<corosyncVars, polled, connected, tracks, countVars, changes, losses>>

qdisk_cmap_nodelist_cb ==
  /\ Receive("nodelist")
  /\ pc' = "count"
  /\ UNCHANGED <<corosyncVars, polled, connected, tracks, countVars,
                 cmap_reload_in_progress, changes, losses>>

\* qdisk_cmap_dispatch_all with a broken connection: start over.  The new descriptor is
\* not in the loop.
Reconnect ==
  /\ pc = "loop" /\ polled /\ ~ connected
  /\ pc' = "init"
  /\ polled' = FALSE
  /\ UNCHANGED <<corosyncVars, connected, tracks, queue, countVars,
                 cmap_reload_in_progress, changes, losses>>

\* A daemon that gave up is started again with corosync.
Restart ==
  /\ pc = "dead" /\ up
  /\ pc' = "init"
  /\ g_node_count' = 0 /\ cmap_reload_in_progress' = FALSE
  /\ connected' = FALSE /\ tracks' = {} /\ queue' = <<>>
  /\ polled' = TRUE /\ cut' = FALSE
  /\ UNCHANGED <<corosyncVars, iter, changes, losses>>

DaemonStep ==
  \/ Initialize \/ TrackNodelist \/ update_node_count
  \/ qdisk_cmap_reload_cb \/ qdisk_cmap_nodelist_cb \/ Reconnect \/ Restart

CorosyncStep ==
  ChangeNodelist \/ ChangeKey \/ EndReload \/ LoseCorosync \/ CorosyncStarts

Next == DaemonStep \/ CountBreaksOff \/ CorosyncStep

Spec == Init /\ [][Next]_vars

\* The daemon's loop goes on; nothing forces corosync to change, to fail or to come back.
FairSpec == Spec /\ WF_vars(DaemonStep)

-----------------------------------------------------------------------------
(* Properties.                                                             *)

\* Once the daemon has seen every notification, its count is the number of nodes
\* in the nodelist, though keys change while it iterates over them and before
\* it tracks them: a node is never missed or counted twice, unless a call failed.
CountIsCurrent ==
  pc = "loop" /\ connected /\ queue = <<>> /\ ~ cut => g_node_count = NodeCount

\* When corosync stays and its nodelist no longer changes, the daemon gets to know
\* the number of nodes, also after a connection that broke in a reload or in the middle
\* of a count.  There are two ways to stay ignorant: a count that broke off and was not
\* asked for again, and a connection that is not polled, on which something waits.
Quiet == up /\ ~ reloading /\ keys = KeysOf(target)

Deaf == ~ polled /\ (queue # <<>> \/ ~ connected)

CountConverges == <>[] Quiet => <>[](g_node_count = NodeCount \/ cut \/ Deaf)

\* cmap.c:237: "Wait for full reload".  The count does not change while the
\* daemon knows that a reload is in progress.
WaitsForFullReload ==
  [][g_node_count' # g_node_count => ~ cmap_reload_in_progress]_vars
================================================================================
