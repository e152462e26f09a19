----------------------------- MODULE VQuorumProofs -----------------------------
(***************************************************************************)
(* Proofs about VQuorum.  What a daemon will know is decided by what it    *)
(* knows and by the notices on their way to it (Ends): the invariant says  *)
(* of every pair of daemons that share a partition that the key will be    *)
(* known in the end, whoever still has to do something about it.           *)
(***************************************************************************)
EXTENDS VQuorum, TLAPS

(* Reading all of q makes true what the notices in W make true and those   *)
(* in E make false, and what is true now: that v is in V.                  *)
Ends(q, W, E, v, V) ==
  \/ \E i \in 1..Len(q) : q[i] \in W /\ \A j \in 1..Len(q) : j > i => q[j] \notin E
  \/ v \in V /\ \A j \in 1..Len(q) : q[j] \notin E

Nodelists == {x \in Notice : x.type = "nodelist"}
Quorums   == {x \in Notice : x.type = "quorum"}

\* The notices that give the key of m to a list, and those that take it away.
Gives(m) == {ExtraInfo(m, TRUE)}
Takes(m) == {x \in Notice : x.type = "quorum" /\ m \notin x.nodes}
              \cup {ExtraInfo(m, FALSE)}

-----------------------------------------------------------------------------
(* Queues.                                                                 *)

\* What is told last decides, ...
LEMMA EndsAppend ==
  ASSUME NEW q \in Seq(Notice), NEW x \in Notice, NEW W, NEW E, NEW v, NEW V
  PROVE  /\ x \in W => Ends(Append(q, x), W, E, v, V)
         /\ Ends(q, W, E, v, V) /\ x \notin E => Ends(Append(q, x), W, E, v, V)
<1>1. /\ Len(Append(q, x)) = Len(q) + 1
      /\ \A i \in 1..Len(q) : Append(q, x)[i] = q[i]
      /\ Append(q, x)[Len(q) + 1] = x
      /\ Len(q) \in Nat
  OBVIOUS
<1>2. ASSUME x \in W PROVE Ends(Append(q, x), W, E, v, V)
  BY <1>1, <1>2 DEF Ends
<1>3. ASSUME Ends(q, W, E, v, V), x \notin E PROVE Ends(Append(q, x), W, E, v, V)
  <2>1. CASE \E i \in 1..Len(q) : q[i] \in W /\ \A j \in 1..Len(q) : j > i => q[j] \notin E
    BY <1>1, <1>3, <2>1 DEF Ends
  <2>2. CASE v \in V /\ \A j \in 1..Len(q) : q[j] \notin E
    BY <1>1, <1>3, <2>2 DEF Ends
  <2> QED BY <1>3, <2>1, <2>2 DEF Ends
<1> QED BY <1>2, <1>3

\* ... and reading the first notice puts into effect what it says.
LEMMA EndsTail ==
  ASSUME NEW q \in Seq(Notice), q # <<>>, NEW W, NEW E, NEW v, NEW V, NEW v1, NEW V1,
         Ends(q, W, E, v, V),
         Head(q) \in W => v1 \in V1,
         v \in V /\ Head(q) \notin E => v1 \in V1
  PROVE  Ends(Tail(q), W, E, v1, V1)
<1>1. /\ Len(q) \in Nat /\ Len(q) > 0
      /\ Len(Tail(q)) = Len(q) - 1
      /\ \A i \in 1..Len(q) - 1 : Tail(q)[i] = q[i + 1]
      /\ Head(q) = q[1]
  OBVIOUS
<1>2. CASE \E i \in 1..Len(q) : q[i] \in W /\ \A j \in 1..Len(q) : j > i => q[j] \notin E
  <2>1. PICK i \in 1..Len(q) : q[i] \in W /\ \A j \in 1..Len(q) : j > i => q[j] \notin E
    BY <1>2
  <2>2. CASE i = 1
    BY <1>1, <2>1, <2>2 DEF Ends
  <2>3. CASE i # 1
    <3>1. i - 1 \in 1..Len(Tail(q)) /\ Tail(q)[i - 1] = q[i]
      BY <1>1, <2>3
    <3>2. \A j \in 1..Len(Tail(q)) : j > i - 1 => Tail(q)[j] \notin E
      BY <1>1, <2>1
    <3> QED BY <2>1, <3>1, <3>2 DEF Ends
  <2> QED BY <2>2, <2>3
<1>3. CASE v \in V /\ \A j \in 1..Len(q) : q[j] \notin E
  BY <1>1, <1>3 DEF Ends
<1> QED BY <1>2, <1>3 DEF Ends

\* When nothing is left to read, it is so.
LEMMA EndsEmpty ==
  ASSUME NEW W, NEW E, NEW v, NEW V
  PROVE  Ends(<<>>, W, E, v, V) <=> v \in V
BY DEF Ends

\* What is told of other things leaves the outcome as it was.
LEMMA Kept ==
  ASSUME NEW q \in Seq(Notice), NEW x \in Notice, NEW W, NEW E, NEW v, NEW V,
         x \notin E, Ends(q, W, E, v, V), NEW r, r = q \/ r = Append(q, x)
  PROVE  Ends(r, W, E, v, V)
BY EndsAppend

\* The notices are notices, ...
LEMMA Notices ==
  /\ \A nodes \in SUBSET Node : Nodelist(nodes) \in Notice /\ Quorum(nodes) \in Notice
  /\ \A m \in Node : ExtraInfo(m, TRUE) \in Notice /\ ExtraInfo(m, FALSE) \in Notice
<1>1. ASSUME NEW nodes \in SUBSET Node
      PROVE  Nodelist(nodes) \in Notice /\ Quorum(nodes) \in Notice
  BY DEF Nodelist, Quorum, Notice
<1>2. ASSUME NEW m \in Node, NEW key \in BOOLEAN PROVE ExtraInfo(m, key) \in Notice
  BY DEF ExtraInfo, Notice
<1> QED BY <1>1, <1>2

\* ... about nodes, and extra info is about one.
LEMMA NoticeShape ==
  ASSUME NEW x \in Notice
  PROVE  /\ x.nodes \in SUBSET Node
         /\ x.type = "info" => \E m \in Node, key \in BOOLEAN : x = ExtraInfo(m, key)
<1>1. CASE x \in [type : {"nodelist", "quorum"}, nodes : SUBSET Node, key : {FALSE}]
  BY <1>1
<1>2. CASE x \in [type : {"info"}, nodes : {{m} : m \in Node}, key : BOOLEAN]
  BY <1>2 DEF ExtraInfo
<1> QED BY <1>1, <1>2 DEF Notice

\* There is a process that does not run.
LEMMA DownIsPC == "down" \in PC
BY DEF PC

\* The edits of a client keep its type and its keys in its list.
LEMMA ClientEdits ==
  ASSUME NEW c \in Client, c.keyed \subseteq c.listed, NEW l \in PC, NEW b \in BOOLEAN,
         NEW nodes \in SUBSET Node
  PROVE  /\ [c EXCEPT !.pc = l] \in Client
         /\ [c EXCEPT !.pc = l, !.qdevice = b] \in Client
         /\ [c EXCEPT !.view = nodes] \in Client
         /\ [c EXCEPT !.listed = nodes, !.keyed = @ \cap nodes] \in Client
         /\ [c EXCEPT !.listed = @ \cup nodes, !.keyed = @ \cup nodes] \in Client
         /\ [c EXCEPT !.listed = @ \cup nodes, !.keyed = @ \ nodes] \in Client
BY DEF Client

\* What telling does to one queue.
LEMMA TellOne ==
  ASSUME NEW q \in [Node -> Seq(Notice)], NEW nodes \in SUBSET Node,
         NEW notice \in [Node -> Notice]
  PROVE  /\ Tell(q, nodes, notice) \in [Node -> Seq(Notice)]
         /\ \A k \in Node : Tell(q, nodes, notice)[k] =
              IF k \in nodes /\ Connected(k) THEN Append(q[k], notice[k]) ELSE q[k]
BY DEF Tell

-----------------------------------------------------------------------------
(* The invariant.                                                          *)

\* Members that have exchanged their states know each other.
MembersKnown == \A n \in Node : due \cap network[n] = {} => network[n] \subseteq known[n]

\* A daemon sees its partition when it has read what it was told.
ViewsEnd ==
  \A n \in Node :
    Connected(n) => Ends(queue[n], {Nodelist(network[n])}, Nodelists,
                         client[n].view, {network[n]})

\* Of two that share, n will have the key of m, or m will share it once more.
KeyEnds(n, m) ==
  \/ due \cap network[n] # {}
  \/ Ends(queue[m], Quorums, {}, 0, {})
  \/ Ends(queue[n], Gives(m), Takes(m), m, client[n].keyed)

KeysEnd ==
  \A n, m \in Node : Shares(n) /\ Shares(m) /\ m \in network[n] => KeyEnds(n, m)

\* A daemon that starts, serves with a registered qdevice, or stops.
Following(n) == Connected(n) /\ (client[n].pc \in {"run", "stop"} => client[n].qdevice)

\* A key that corosync on n does not have is not kept.
Withdrawn(n, m) ==
  m \notin info[n] => Ends(queue[n], Takes(m), Gives(m), m, Node \ client[n].keyed)

WithdrawnEnds == \A n, m \in Node : Following(n) => Withdrawn(n, m)

IInv == TypeOK /\ MembersKnown /\ ViewsEnd /\ KeysEnd /\ WithdrawnEnds

-----------------------------------------------------------------------------
(* Types.                                                                  *)

\* Every step keeps the types.
LEMMA TypeStep == TypeOK /\ [Next]_vars => TypeOK'
<1> SUFFICES ASSUME TypeOK, [Next]_vars PROVE TypeOK'
  OBVIOUS
<1> USE DEF TypeOK
<1>s. Boot \in Client /\ Boot.keyed = {} /\ Boot.pc = "down" /\ <<>> \in Seq(Notice)
  BY DEF Boot, Client, PC
<1>c. \A n \in Node : client[n] \in Client /\ network[n] \in SUBSET Node
  BY LayoutAssumption
<1>f. Fault => faults' \in 0..MaxFaults
  BY BoundAssumption DEF Fault
<1>u. ASSUME NEW n \in Node, NEW c \in Client, c.keyed \subseteq c.listed, Update(n, c)
      PROVE  /\ client' \in [Node -> Client]
             /\ \A k \in Node : client'[k].keyed \subseteq client'[k].listed
  BY <1>u DEF Update
<1>x. ASSUME NEW n \in Node, NEW how \in PC, Exit(n, how)
      PROVE  /\ client' \in [Node -> Client]
             /\ \A k \in Node : client'[k].keyed \subseteq client'[k].listed
             /\ queue' \in [Node -> Seq(Notice)]
  <2>1. /\ [Boot EXCEPT !.pc = how] \in Client
        /\ [Boot EXCEPT !.pc = how].keyed \subseteq [Boot EXCEPT !.pc = how].listed
    BY DEF Boot, Client, PC
  <2>2. queue' \in [Node -> Seq(Notice)]
    BY <1>x, <1>s DEF Exit
  <2> QED BY <1>x, <1>u, <2>1, <2>2 DEF Exit
<1>p. ASSUME NEW n \in Node, NEW l \in PC, NEW b \in BOOLEAN
      PROVE  /\ [client[n] EXCEPT !.pc = l] \in Client
             /\ [client[n] EXCEPT !.pc = l, !.qdevice = b] \in Client
             /\ [client[n] EXCEPT !.pc = l].keyed \subseteq [client[n] EXCEPT !.pc = l].listed
             /\ [client[n] EXCEPT !.pc = l, !.qdevice = b].keyed
                   \subseteq [client[n] EXCEPT !.pc = l, !.qdevice = b].listed
  <2>1. client[n].keyed \subseteq client[n].listed
    OBVIOUS
  <2>2. client[n] \in Client
    BY <1>c
  <2>3. /\ [client[n] EXCEPT !.pc = l] \in Client
        /\ [client[n] EXCEPT !.pc = l, !.qdevice = b] \in Client
    BY <2>1, <2>2, ClientEdits
  <2>4. /\ [client[n] EXCEPT !.pc = l].keyed \subseteq [client[n] EXCEPT !.pc = l].listed
        /\ [client[n] EXCEPT !.pc = l, !.qdevice = b].keyed
             \subseteq [client[n] EXCEPT !.pc = l, !.qdevice = b].listed
    BY <2>1, <2>2 DEF Client
  <2> QED BY <2>3, <2>4
<1>t. ASSUME NEW n \in Node
      PROVE  Tracked(n) \in Seq(Notice) /\ Announced(n) \in [Node -> Seq(Notice)]
  <2>1. [k \in Node |-> Quorum(known[k])] \in [Node -> Notice]
    BY Notices
  <2>2. Tracked(n) \in Seq(Notice)
    BY Notices, <1>c DEF Tracked
  <2> QED BY <1>c, <2>1, <2>2, TellOne DEF Announced
<1>a. ASSUME NEW n \in Node, NEW q \in [Node -> Seq(Notice)], Attach(n, q)
      PROVE  info' \in [Node -> SUBSET Node] /\ queue' \in [Node -> Seq(Notice)]
  <2>1. [k \in Node |-> ExtraInfo(n, TRUE)] \in [Node -> Notice]
    BY Notices
  <2> QED BY <1>a, <1>c, <2>1, TellOne DEF Attach
<1>r. ASSUME NEW n \in Node, NEW type, Receive(n, type)
      PROVE  /\ Head(queue[n]) \in Notice /\ Head(queue[n]).nodes \in SUBSET Node
             /\ Rest(n) \in [Node -> Seq(Notice)]
  <2>1. queue[n] \in Seq(Notice) /\ queue[n] # <<>>
    BY <1>r DEF Receive
  <2>2. Head(queue[n]) \in Notice /\ Tail(queue[n]) \in Seq(Notice)
    BY <2>1
  <2> QED BY <2>2, NoticeShape DEF Rest
<1>1. CASE NetworkChange
  <2> DEFINE notice == [k \in Node |-> Nodelist(network'[k])]
             moved == {k \in Node : network'[k] # network[k]}
  <2>1. network' \in Layouts /\ changes' \in 0..MaxChanges
    BY <1>1, BoundAssumption DEF NetworkChange
  <2>2. notice \in [Node -> Notice]
    BY <2>1, LayoutAssumption, Notices
  <2>3. queue' \in [Node -> Seq(Notice)] /\ due' \subseteq Node
    <3>1. queue' = Tell(queue, moved, notice) /\ due' = due \cup moved
      BY <1>1 DEF NetworkChange
    <3> HIDE DEF notice
    <3> QED BY <2>2, <3>1, TellOne
  <2> QED BY <1>1, <2>1, <2>3 DEF NetworkChange
<1>2. ASSUME NEW n \in Node, NodeInfo(n) PROVE TypeOK'
  <2> DEFINE notice == [k \in Node |-> Quorum(known'[k])]
  <2>1. known' \in [Node -> SUBSET Node] /\ due' \subseteq Node
    BY <1>2, <1>c DEF NodeInfo
  <2>2. notice \in [Node -> Notice]
    BY <2>1, Notices
  <2>3. queue' = Tell(queue, network[n], notice)
    BY <1>2 DEF NodeInfo
  <2>4. queue' \in [Node -> Seq(Notice)]
    <3> HIDE DEF notice
    <3> QED BY <1>c, <2>2, <2>3, TellOne
  <2> QED BY <1>2, <2>1, <2>4 DEF NodeInfo
<1>3. ASSUME NEW n \in Node, CorosyncRestarts(n) PROVE TypeOK'
  <2>1. /\ client' \in [Node -> Client]
        /\ \A k \in Node : client'[k].keyed \subseteq client'[k].listed
    <3>1. CASE client[n].pc \in {"run", "lost"}
      BY <1>3, <3>1, <1>u, <1>p DEF CorosyncRestarts, PC
    <3>2. CASE client[n].pc \notin {"run", "lost"}
      BY <1>3, <3>2, <1>u, <1>s DEF CorosyncRestarts
    <3> QED BY <3>1, <3>2
  <2>2. known' \in [Node -> SUBSET Node] /\ info' \in [Node -> SUBSET Node]
    BY <1>3 DEF CorosyncRestarts
  <2>3. queue' \in [Node -> Seq(Notice)]
    BY <1>3, <1>s DEF CorosyncRestarts
  <2> QED BY <1>3, <1>f, <2>1, <2>2, <2>3 DEF CorosyncRestarts
<1>4. ASSUME NEW n \in Node, StartDaemon(n) PROVE TypeOK'
  <2>1. /\ [Boot EXCEPT !.pc = "init"] \in Client
        /\ [Boot EXCEPT !.pc = "init"].keyed \subseteq [Boot EXCEPT !.pc = "init"].listed
    BY DEF Boot, Client, PC
  <2>2. queue' \in [Node -> Seq(Notice)]
    BY <1>4, <1>t DEF StartDaemon
  <2> QED BY <1>4, <1>u, <2>1, <2>2 DEF StartDaemon, corosyncVars
<1>5. ASSUME NEW n \in Node, nodelist_notification_fn(n) PROVE TypeOK'
  <2> DEFINE c == [client[n] EXCEPT !.view = Head(queue[n]).nodes]
  <2>0. Receive(n, "nodelist") /\ Update(n, c)
    BY <1>5 DEF nodelist_notification_fn
  <2>1. c \in Client /\ c.keyed \subseteq c.listed
    <3>1. Head(queue[n]).nodes \in SUBSET Node /\ client[n] \in Client
      BY <2>0, <1>r, <1>c
    <3>2. client[n].keyed \subseteq client[n].listed
      OBVIOUS
    <3> QED BY <3>1, <3>2 DEF Client
  <2> QED BY <1>5, <1>r, <1>u, <2>0, <2>1 DEF nodelist_notification_fn, corosyncVars
<1>6. ASSUME NEW n \in Node, quorum_notification_fn(n) PROVE TypeOK'
  <2> DEFINE nodes == Head(queue[n]).nodes
             c == [client[n] EXCEPT !.listed = nodes, !.keyed = @ \cap nodes]
  <2>0. Receive(n, "quorum") /\ Update(n, c)
    BY <1>6 DEF quorum_notification_fn
  <2>1. c \in Client /\ c.keyed \subseteq c.listed
    <3>1. nodes \in SUBSET Node /\ client[n] \in Client
      BY <2>0, <1>r, <1>c
    <3>2. client[n].keyed \subseteq client[n].listed
      OBVIOUS
    <3> HIDE DEF nodes
    <3>3. c \in Client
      BY <3>1, <3>2, ClientEdits, DownIsPC
    <3>4. c.keyed \subseteq c.listed
      BY <3>1 DEF Client
    <3> QED BY <3>3, <3>4
  <2>2. info' \in [Node -> SUBSET Node] /\ queue' \in [Node -> Seq(Notice)]
    BY <1>6, <2>0, <1>r, <1>a DEF quorum_notification_fn
  <2>3. /\ client' \in [Node -> Client]
        /\ \A k \in Node : client'[k].keyed \subseteq client'[k].listed
    BY <2>0, <2>1, <1>u
  <2> QED BY <1>6, <2>2, <2>3 DEF quorum_notification_fn
<1>7. ASSUME NEW n \in Node, qdevice_extra_info_notify(n) PROVE TypeOK'
  <2> DEFINE from == Head(queue[n]).nodes
             c == [client[n] EXCEPT !.listed = @ \cup from,
                     !.keyed = IF Head(queue[n]).key THEN @ \cup from ELSE @ \ from]
  <2>0. Receive(n, "info") /\ Update(n, c)
    BY <1>7 DEF qdevice_extra_info_notify
  <2>1. c \in Client /\ c.keyed \subseteq c.listed
    <3>1. from \in SUBSET Node /\ client[n] \in Client
      BY <2>0, <1>r, <1>c
    <3>2. client[n].keyed \subseteq client[n].listed
      OBVIOUS
    <3> QED BY <3>1, <3>2 DEF Client
  <2>2. queue' \in [Node -> Seq(Notice)]
    BY <1>7, <2>0, <1>r DEF qdevice_extra_info_notify
  <2>3. /\ client' \in [Node -> Client]
        /\ \A k \in Node : client'[k].keyed \subseteq client'[k].listed
    BY <2>0, <2>1, <1>u
  <2> QED BY <1>7, <2>2, <2>3 DEF qdevice_extra_info_notify, corosyncVars
<1>8. ASSUME NEW n \in Node, vquorum_init(n) PROVE TypeOK'
  <2>1. "start" \in PC
    BY DEF PC
  <2> QED BY <1>8, <2>1, <1>u, <1>p DEF vquorum_init, corosyncVars
<1>9. ASSUME NEW n \in Node, KeyListFails(n) \/ RefuseStart(n) PROVE TypeOK'
  <2>1. "down" \in PC /\ "refused" \in PC
    BY DEF PC
  <2> QED BY <1>9, <2>1, <1>x DEF KeyListFails, RefuseStart, corosyncVars
<1>10. ASSUME NEW n \in Node, RegisterAndShare(n) PROVE TypeOK'
  <2>1. "run" \in PC
    BY DEF PC
  <2>2. /\ client' \in [Node -> Client]
        /\ \A k \in Node : client'[k].keyed \subseteq client'[k].listed
    BY <1>10, <2>1, <1>u, <1>p DEF RegisterAndShare
  <2>3. info' \in [Node -> SUBSET Node] /\ queue' \in [Node -> Seq(Notice)]
    BY <1>10, <1>a, <1>t DEF RegisterAndShare
  <2> QED BY <1>10, <2>2, <2>3 DEF RegisterAndShare
<1>11. ASSUME NEW n \in Node, Reconnect(n) PROVE TypeOK'
  <2>1. "run" \in PC /\ "down" \in PC
    BY DEF PC
  <2>2. CASE Exit(n, "down")
    BY <1>11, <2>1, <2>2, <1>x DEF Reconnect, corosyncVars
  <2>3. CASE /\ Update(n, [client[n] EXCEPT !.pc = "run", !.qdevice = FALSE])
             /\ queue' = [queue EXCEPT ![n] = Tracked(n)]
    BY <1>11, <2>1, <2>3, <1>u, <1>p, <1>t DEF Reconnect, corosyncVars
  <2> QED BY <1>11, <2>2, <2>3 DEF Reconnect
<1>12. ASSUME NEW n \in Node, StopOnDisk(n) PROVE TypeOK'
  <2>1. "stop" \in PC
    BY DEF PC
  <2> QED BY <1>12, <2>1, <1>u, <1>p, <1>f DEF StopOnDisk, corosyncVars
<1>13. ASSUME NEW n \in Node, StopInCorosync(n) PROVE TypeOK'
  <2>1. [k \in Node |-> ExtraInfo(n, FALSE)] \in [Node -> Notice]
    BY Notices
  <2>2. info' \in [Node -> SUBSET Node] /\ queue' \in [Node -> Seq(Notice)]
    BY <1>13, <1>t, <1>c, <1>s, <2>1, TellOne DEF StopInCorosync, Detach
  <2> QED BY <1>13, <1>s, <1>u, <2>2 DEF StopInCorosync
<1>14. ASSUME NEW n \in Node, Crash(n) PROVE TypeOK'
  <2>1. "down" \in PC
    BY DEF PC
  <2> QED BY <1>14, <2>1, <1>x, <1>f DEF Crash, corosyncVars
<1>15. CASE UNCHANGED vars
  BY <1>15 DEF vars
<1> QED
  BY <1>1, <1>2, <1>3, <1>4, <1>5, <1>6, <1>7, <1>8, <1>9, <1>10, <1>11, <1>12, <1>13,
     <1>14, <1>15
  DEF Next, DaemonStep, vquorum_dispatch_all

-----------------------------------------------------------------------------
(* The steps.                                                              *)

\* A daemon shares only while it is connected.
LEMMA SharesIsConnected == \A n \in Node : Shares(n) => Connected(n) /\ Following(n)
BY DEF Shares, Connected, Following

\* What the types say of one node, and that partitions are partitions.
LEMMA Facts ==
  ASSUME TypeOK, NEW n \in Node
  PROVE  /\ client[n] \in Client /\ queue[n] \in Seq(Notice)
         /\ n \in network[n] /\ network[n] \subseteq Node
         /\ \A m \in Node : m \in network[n] => network[m] = network[n]
BY LayoutAssumption DEF TypeOK

\* Which notices matter to what.
LEMMA Meaning ==
  ASSUME NEW nodes \in SUBSET Node, NEW m \in Node
  PROVE  /\ Nodelist(nodes) \in Nodelists
         /\ Nodelist(nodes) \notin Quorums \cup Gives(m) \cup Takes(m)
         /\ Quorum(nodes) \in Quorums /\ Quorum(nodes) \notin Nodelists \cup Gives(m)
         /\ \A x \in Node, key \in BOOLEAN :
              /\ ExtraInfo(x, key) \notin Nodelists \cup Quorums
              /\ x # m => ExtraInfo(x, key) \notin Gives(m) \cup Takes(m)
         /\ ExtraInfo(m, TRUE) \in Gives(m) /\ ExtraInfo(m, TRUE) \notin Takes(m)
         /\ ExtraInfo(m, FALSE) \in Takes(m) /\ ExtraInfo(m, FALSE) \notin Gives(m)
<1>1. Nodelist(nodes) \in Notice /\ Quorum(nodes) \in Notice
  BY Notices
<1>2. /\ Nodelist(nodes).type = "nodelist" /\ Quorum(nodes).type = "quorum"
      /\ \A x \in Node, key \in BOOLEAN : /\ ExtraInfo(x, key).type = "info"
                                          /\ ExtraInfo(x, key).nodes = {x}
                                          /\ ExtraInfo(x, key).key = key
  BY DEF Nodelist, Quorum, ExtraInfo
<1> HIDE DEF Nodelist, Quorum, ExtraInfo
<1> QED BY <1>1, <1>2 DEF Nodelists, Quorums, Gives, Takes

\* A process that is gone is owed nothing, and what the others know is as before.
LEMMA Gone ==
  ASSUME IInv, NEW x \in Node, client'[x].pc \in {"down", "refused", "lost"},
         \A k \in Node : k # x => /\ client'[k] = client[k]
                                  /\ queue'[k] = queue[k]
                                  /\ info'[k] = info[k],
         UNCHANGED <<network, due>>
  PROVE  ViewsEnd' /\ KeysEnd' /\ WithdrawnEnds'
<1> USE DEF IInv
<1>1. ~ Connected(x)' /\ ~ Shares(x)' /\ ~ Following(x)'
  BY DEF Connected, Shares, Following
<1>2. \A k \in Node : k # x => /\ Connected(k)' <=> Connected(k)
                               /\ Shares(k)' <=> Shares(k)
                               /\ Following(k)' <=> Following(k)
  BY DEF Connected, Shares, Following
<1>3. ViewsEnd'
  <2> SUFFICES ASSUME NEW n \in Node, Connected(n)'
               PROVE  Ends(queue[n], {Nodelist(network[n])}, Nodelists,
                           client[n].view, {network[n]})'
    BY DEF ViewsEnd
  <2> QED BY <1>1, <1>2 DEF ViewsEnd, Ends
<1>4. KeysEnd'
  <2> SUFFICES ASSUME NEW n \in Node, NEW m \in Node, Shares(n)', Shares(m)', m \in network'[n]
               PROVE  KeyEnds(n, m)'
    BY DEF KeysEnd
  <2>1. n # x /\ m # x /\ KeyEnds(n, m)
    BY <1>1, <1>2 DEF KeysEnd
  <2> QED BY <2>1 DEF KeyEnds, Ends
<1>5. WithdrawnEnds'
  <2> SUFFICES ASSUME NEW n \in Node, NEW m \in Node, Following(n)'
               PROVE  Withdrawn(n, m)'
    BY DEF WithdrawnEnds
  <2>1. n # x /\ Withdrawn(n, m)
    BY <1>1, <1>2 DEF WithdrawnEnds
  <2> QED BY <2>1 DEF Withdrawn, Ends
<1> QED BY <1>3, <1>4, <1>5

\* Members that know each other go on to, unless corosync has to do with it.
LEMMA MembersKept ==
  ASSUME IInv, UNCHANGED <<network, known, due>>
  PROVE  MembersKnown'
BY DEF IInv, MembersKnown

\* A process whose lists and queue stay, and which does not share afterwards.
LEMMA Quiescent ==
  ASSUME IInv, NEW x \in Node,
         \A k \in Node : k # x => client'[k] = client[k],
         /\ client'[x].view = client[x].view /\ client'[x].keyed = client[x].keyed
         /\ Connected(x)' <=> Connected(x)
         /\ ~ Shares(x)'
         /\ Following(x)' => Following(x),
         UNCHANGED <<network, info, due, queue>>
  PROVE  ViewsEnd' /\ KeysEnd' /\ WithdrawnEnds'
<1> USE DEF IInv
<1>1. \A k \in Node : /\ Connected(k)' <=> Connected(k)
                      /\ Shares(k)' => Shares(k)
                      /\ Following(k)' => Following(k)
                      /\ client'[k].view = client[k].view /\ client'[k].keyed = client[k].keyed
  BY DEF Connected, Shares, Following
<1>2. ViewsEnd'
  BY <1>1 DEF ViewsEnd, Ends
<1>3. KeysEnd'
  BY <1>1 DEF KeysEnd, KeyEnds, Ends
<1>4. WithdrawnEnds'
  BY <1>1 DEF WithdrawnEnds, Withdrawn, Ends
<1> QED BY <1>2, <1>3, <1>4

\* A new connection is told the membership; it has no keys, or does not count.
LEMMA Anew ==
  ASSUME IInv, NEW x \in Node,
         queue' = [queue EXCEPT ![x] = Tracked(x)],
         \A k \in Node : k # x => client'[k] = client[k],
         ~ Shares(x)', Following(x)' => client'[x].keyed = {},
         UNCHANGED <<network, known, info, due>>
  PROVE  ViewsEnd' /\ KeysEnd' /\ WithdrawnEnds'
<1> USE DEF IInv
<1>1. \A k \in Node : k # x => /\ Connected(k)' <=> Connected(k)
                               /\ Shares(k)' <=> Shares(k)
                               /\ Following(k)' <=> Following(k)
                               /\ queue'[k] = queue[k]
  BY DEF Connected, Shares, Following
<1>2. /\ queue'[x] = Tracked(x) /\ Len(Tracked(x)) = 2
      /\ Tracked(x)[1] = Nodelist(network[x]) /\ Tracked(x)[2] = Quorum(known[x])
  BY DEF TypeOK, Tracked
<1>3. known[x] \in SUBSET Node /\ network[x] \in SUBSET Node
  BY Facts DEF TypeOK
<1>4. ViewsEnd'
  <2> SUFFICES ASSUME NEW n \in Node, Connected(n)'
               PROVE  Ends(queue'[n], {Nodelist(network'[n])}, Nodelists,
                           client'[n].view, {network'[n]})
    BY DEF ViewsEnd
  <2>1. CASE n = x
    <3>1. Tracked(x)[2] \notin Nodelists /\ Tracked(x)[1] \in {Nodelist(network'[x])}
      BY <1>2, <1>3, Meaning
    <3>2. \A j \in 1..Len(Tracked(x)) : j > 1 => Tracked(x)[j] \notin Nodelists
      BY <1>2, <3>1
    <3>3. 1 \in 1..Len(Tracked(x))
      BY <1>2
    <3>4. Ends(Tracked(x), {Nodelist(network'[x])}, Nodelists, client'[x].view, {network'[x]})
      BY <3>1, <3>2, <3>3 DEF Ends
    <3> QED BY <1>2, <2>1, <3>4
  <2>2. CASE n # x
    BY <1>1, <2>2 DEF ViewsEnd
  <2> QED BY <2>1, <2>2
<1>5. KeysEnd'
  <2> SUFFICES ASSUME NEW n \in Node, NEW m \in Node, Shares(n)', Shares(m)', m \in network'[n]
               PROVE  KeyEnds(n, m)'
    BY DEF KeysEnd
  <2>1. n # x /\ m # x /\ KeyEnds(n, m)
    BY <1>1 DEF KeysEnd
  <2> QED BY <1>1, <2>1 DEF KeyEnds
<1>6. WithdrawnEnds'
  <2> SUFFICES ASSUME NEW n \in Node, NEW m \in Node, Following(n)'
               PROVE  Withdrawn(n, m)'
    BY DEF WithdrawnEnds
  <2>1. CASE n = x
    <3>1. Quorum(known[x]) \notin Gives(m) /\ Nodelist(network[x]) \notin Gives(m)
      BY <1>3, Meaning
    <3>2. \A j \in 1..2 : Tracked(x)[j] \notin Gives(m)
      BY <1>2, <3>1
    <3>3. m \notin client'[x].keyed
      BY <2>1
    <3> QED BY <1>2, <2>1, <3>2, <3>3 DEF Withdrawn, Ends
  <2>2. CASE n # x
    BY <1>1, <2>2 DEF WithdrawnEnds, Withdrawn
  <2> QED BY <2>1, <2>2
<1> QED BY <1>4, <1>5, <1>6

\* Nothing changes.
LEMMA StutterStep ==
  ASSUME IInv, UNCHANGED vars
  PROVE  MembersKnown' /\ ViewsEnd' /\ KeysEnd' /\ WithdrawnEnds'
BY DEF IInv, vars, MembersKnown, ViewsEnd, KeysEnd, KeyEnds, WithdrawnEnds, Withdrawn, Ends,
       Connected, Shares, Following

-----------------------------------------------------------------------------
(* One lemma per action.                                                   *)

\* A process ends.
LEMMA ExitStep ==
  ASSUME IInv, NEW x \in Node, NEW how \in {"down", "refused"}, Exit(x, how),
         UNCHANGED <<network, corosyncVars>>
  PROVE  MembersKnown' /\ ViewsEnd' /\ KeysEnd' /\ WithdrawnEnds'
<1>1. client'[x].pc \in {"down", "refused", "lost"}
  BY DEF Exit, Update, Boot, IInv, TypeOK
<1>2. \A k \in Node : k # x => client'[k] = client[k] /\ queue'[k] = queue[k] /\ info'[k] = info[k]
  BY DEF Exit, Update, corosyncVars, IInv, TypeOK
<1> QED BY <1>1, <1>2, Gone, MembersKept DEF corosyncVars

\* Corosync restarts on a node that is alone.
LEMMA RestartStep ==
  ASSUME IInv, NEW x \in Node, CorosyncRestarts(x)
  PROVE  MembersKnown' /\ ViewsEnd' /\ KeysEnd' /\ WithdrawnEnds'
<1>1. client'[x].pc \in {"down", "refused", "lost"}
  <2>1. CASE client[x].pc \in {"run", "lost"}
    BY <2>1, Facts DEF CorosyncRestarts, Update, Boot, IInv, TypeOK, Client
  <2>2. CASE client[x].pc \notin {"run", "lost"}
    BY <2>2 DEF CorosyncRestarts, Update, Boot, IInv, TypeOK
  <2> QED BY <2>1, <2>2
<1>2. \A k \in Node : k # x => client'[k] = client[k] /\ queue'[k] = queue[k] /\ info'[k] = info[k]
  BY DEF CorosyncRestarts, Update, IInv, TypeOK
<1>3. MembersKnown'
  BY DEF CorosyncRestarts, MembersKnown, IInv, TypeOK
<1> QED BY <1>1, <1>2, <1>3, Gone DEF CorosyncRestarts

\* A process starts.
LEMMA StartStep ==
  ASSUME IInv, NEW x \in Node, StartDaemon(x)
  PROVE  MembersKnown' /\ ViewsEnd' /\ KeysEnd' /\ WithdrawnEnds'
<1>1. /\ \A k \in Node : k # x => client'[k] = client[k]
      /\ client'[x].pc = "init" /\ client'[x].keyed = {}
  BY DEF StartDaemon, Update, Boot, IInv, TypeOK
<1>2. ~ Shares(x)'
  BY <1>1 DEF Shares
<1> QED BY <1>1, <1>2, Anew, MembersKept DEF StartDaemon, corosyncVars

\* A broken connection is replaced, or the process aborts.
LEMMA ReconnectStep ==
  ASSUME IInv, NEW x \in Node, Reconnect(x)
  PROVE  MembersKnown' /\ ViewsEnd' /\ KeysEnd' /\ WithdrawnEnds'
<1>1. CASE Exit(x, "down")
  BY <1>1, ExitStep DEF Reconnect
<1>2. CASE /\ Update(x, [client[x] EXCEPT !.pc = "run", !.qdevice = FALSE])
           /\ queue' = [queue EXCEPT ![x] = Tracked(x)]
  <2>1. /\ \A k \in Node : k # x => client'[k] = client[k]
        /\ client'[x].pc = "run" /\ client'[x].qdevice = FALSE
    BY <1>2, Facts DEF Update, Client, IInv, TypeOK
  <2>2. ~ Shares(x)' /\ ~ Following(x)'
    BY <2>1 DEF Shares, Following
  <2> QED BY <1>2, <2>1, <2>2, Anew, MembersKept DEF Reconnect, corosyncVars
<1> QED BY <1>1, <1>2 DEF Reconnect

\* vquorum_init has dispatched what was waiting.
LEMMA InitStep ==
  ASSUME IInv, NEW x \in Node, vquorum_init(x)
  PROVE  MembersKnown' /\ ViewsEnd' /\ KeysEnd' /\ WithdrawnEnds'
<1>1. client[x] \in Client /\ client[x].pc = "init"
  BY Facts DEF IInv, vquorum_init
<1>2. /\ \A k \in Node : k # x => client'[k] = client[k]
      /\ client'[x] = [client[x] EXCEPT !.pc = "start"]
  BY DEF vquorum_init, Update, IInv, TypeOK
<1>3. client'[x].pc = "start" /\ client'[x].view = client[x].view
      /\ client'[x].keyed = client[x].keyed
  BY <1>1, <1>2 DEF Client
<1>4. /\ Connected(x)' <=> Connected(x)
      /\ ~ Shares(x)'
      /\ Following(x)' => Following(x)
  BY <1>1, <1>3 DEF Connected, Shares, Following
<1> QED BY <1>2, <1>3, <1>4, Quiescent, MembersKept DEF vquorum_init, corosyncVars

\* algorithm_stop has unregistered from the disk.
LEMMA StopOnDiskStep ==
  ASSUME IInv, NEW x \in Node, StopOnDisk(x)
  PROVE  MembersKnown' /\ ViewsEnd' /\ KeysEnd' /\ WithdrawnEnds'
<1>1. client[x] \in Client /\ client[x].pc = "run"
  BY Facts DEF IInv, StopOnDisk
<1>2. /\ \A k \in Node : k # x => client'[k] = client[k]
      /\ client'[x] = [client[x] EXCEPT !.pc = "stop"]
  BY DEF StopOnDisk, Update, IInv, TypeOK
<1>3. /\ client'[x].pc = "stop" /\ client'[x].view = client[x].view
      /\ client'[x].keyed = client[x].keyed /\ client'[x].qdevice = client[x].qdevice
  BY <1>1, <1>2 DEF Client
<1>4. /\ Connected(x)' <=> Connected(x)
      /\ ~ Shares(x)'
      /\ Following(x)' => Following(x)
  BY <1>1, <1>3 DEF Connected, Shares, Following
<1> QED BY <1>2, <1>3, <1>4, Quiescent, MembersKept DEF StopOnDisk, corosyncVars

\* Totem forms new partitions.
LEMMA NetworkChangeStep ==
  ASSUME IInv, NetworkChange
  PROVE  MembersKnown' /\ ViewsEnd' /\ KeysEnd' /\ WithdrawnEnds'
<1> USE DEF IInv
<1> DEFINE moved == {k \in Node : network'[k] # network[k]}
           notice == [k \in Node |-> Nodelist(network'[k])]
<1>1. /\ network' \in Layouts /\ due' = due \cup moved
      /\ queue' = Tell(queue, moved, notice)
      /\ UNCHANGED <<known, info, client>>
  BY DEF NetworkChange
<1>2. \A k \in Node : network'[k] \in SUBSET Node /\ k \in network'[k]
  BY <1>1, LayoutAssumption
<1>3. \A k \in Node : notice[k] \in Notice /\ notice[k] = Nodelist(network'[k])
  BY <1>2, Notices
<1>4. \A k \in Node : queue'[k] = IF k \in moved /\ Connected(k)
                                     THEN Append(queue[k], Nodelist(network'[k])) ELSE queue[k]
  <2>1. notice \in [Node -> Notice] /\ moved \in SUBSET Node /\ queue \in [Node -> Seq(Notice)]
    BY <1>3 DEF TypeOK
  <2> HIDE DEF notice, moved
  <2>2. \A k \in Node : Tell(queue, moved, notice)[k] =
           IF k \in moved /\ Connected(k) THEN Append(queue[k], notice[k]) ELSE queue[k]
    BY <2>1, TellOne
  <2> QED BY <1>1, <1>3, <2>2
<1>5. \A k \in Node : (Connected(k)' <=> Connected(k)) /\ (Shares(k)' <=> Shares(k))
                      /\ (Following(k)' <=> Following(k))
  BY <1>1 DEF Connected, Shares, Following
<1>6. \A k \in Node : /\ queue[k] \in Seq(Notice)
                      /\ Nodelist(network'[k]) \in Notice
                      /\ queue'[k] = queue[k] \/ queue'[k] = Append(queue[k], Nodelist(network'[k]))
  BY <1>2, <1>4, Notices DEF TypeOK
<1>7. MembersKnown'
  BY <1>1, <1>2 DEF MembersKnown
<1>8. ViewsEnd'
  <2> SUFFICES ASSUME NEW n \in Node, Connected(n)'
               PROVE  Ends(queue'[n], {Nodelist(network'[n])}, Nodelists,
                           client'[n].view, {network'[n]})
    BY DEF ViewsEnd
  <2>1. CASE n \in moved
    BY <1>4, <1>5, <1>6, <2>1, EndsAppend
  <2>2. CASE n \notin moved
    BY <1>1, <1>4, <1>5, <2>2 DEF ViewsEnd
  <2> QED BY <2>1, <2>2
<1>9. KeysEnd'
  <2> SUFFICES ASSUME NEW n \in Node, NEW m \in Node, Shares(n)', Shares(m)', m \in network'[n]
               PROVE  KeyEnds(n, m)'
    BY DEF KeysEnd
  <2>1. CASE n \in moved
    BY <1>1, <1>2, <2>1 DEF KeyEnds
  <2>2. CASE n \notin moved
    <3>1. KeyEnds(n, m)
      BY <1>5, <2>2 DEF KeysEnd
    <3>2. ASSUME Ends(queue[m], Quorums, {}, 0, {}) PROVE Ends(queue'[m], Quorums, {}, 0, {})
      BY <1>6, <3>2, Kept
    <3>3. ASSUME Ends(queue[n], Gives(m), Takes(m), m, client[n].keyed)
          PROVE  Ends(queue'[n], Gives(m), Takes(m), m, client'[n].keyed)
      BY <1>1, <1>4, <2>2, <3>3
    <3> QED BY <1>1, <2>2, <3>1, <3>2, <3>3 DEF KeyEnds
  <2> QED BY <2>1, <2>2
<1>10. WithdrawnEnds'
  <2> SUFFICES ASSUME NEW n \in Node, NEW m \in Node, Following(n)', m \notin info'[n]
               PROVE  Ends(queue'[n], Takes(m), Gives(m), m, Node \ client'[n].keyed)
    BY DEF WithdrawnEnds, Withdrawn
  <2>1. Ends(queue[n], Takes(m), Gives(m), m, Node \ client[n].keyed)
    BY <1>1, <1>5 DEF WithdrawnEnds, Withdrawn
  <2>2. Nodelist(network'[n]) \notin Gives(m)
    BY <1>2, Meaning
  <2> QED BY <1>1, <1>6, <2>1, <2>2, Kept
<1> QED BY <1>7, <1>8, <1>9, <1>10

\* The members of a partition get to know each other.
LEMMA NodeInfoStep ==
  ASSUME IInv, NEW x \in Node, NodeInfo(x)
  PROVE  MembersKnown' /\ ViewsEnd' /\ KeysEnd' /\ WithdrawnEnds'
<1> USE DEF IInv
<1> DEFINE notice == [k \in Node |-> Quorum(known'[k])]
<1>1. /\ due' = due \ network[x]
      /\ known' = [k \in Node |-> IF k \in network[x] THEN known[k] \cup network[x] ELSE known[k]]
      /\ queue' = Tell(queue, network[x], notice)
      /\ UNCHANGED <<network, info, client>>
  BY DEF NodeInfo
<1>2. \A k \in Node : network[k] \in SUBSET Node /\ known'[k] \in SUBSET Node
  BY <1>1, Facts DEF TypeOK
<1>3. \A k \in Node : notice[k] \in Notice /\ notice[k] = Quorum(known'[k])
  BY <1>2, Notices
<1>4. \A k \in Node : queue'[k] = IF k \in network[x] /\ Connected(k)
                                     THEN Append(queue[k], Quorum(known'[k])) ELSE queue[k]
  <2>1. /\ notice \in [Node -> Notice] /\ queue \in [Node -> Seq(Notice)]
        /\ network[x] \in SUBSET Node
    BY <1>2, <1>3 DEF TypeOK
  <2> HIDE DEF notice
  <2>2. \A k \in Node : Tell(queue, network[x], notice)[k] =
           IF k \in network[x] /\ Connected(k) THEN Append(queue[k], notice[k]) ELSE queue[k]
    BY <2>1, TellOne
  <2> QED BY <1>1, <1>3, <2>2
<1>5. \A k \in Node : (Connected(k)' <=> Connected(k)) /\ (Shares(k)' <=> Shares(k))
                      /\ (Following(k)' <=> Following(k))
  BY <1>1 DEF Connected, Shares, Following
<1>6. \A k \in Node : /\ queue[k] \in Seq(Notice)
                      /\ Quorum(known'[k]) \in Notice
                      /\ queue'[k] = queue[k] \/ queue'[k] = Append(queue[k], Quorum(known'[k]))
  BY <1>2, <1>4, Notices DEF TypeOK
<1>7. \A n \in Node : n \notin network[x] => network[n] \cap network[x] = {}
  <2> SUFFICES ASSUME NEW n \in Node, NEW y \in Node, y \in network[n], y \in network[x]
               PROVE  n \in network[x]
    BY <1>2
  <2> QED BY Facts
<1>8. MembersKnown'
  <2> SUFFICES ASSUME NEW n \in Node, due' \cap network[n] = {} PROVE network[n] \subseteq known'[n]
    BY <1>1 DEF MembersKnown
  <2>1. CASE n \in network[x]
    BY <1>1, <2>1, Facts DEF TypeOK
  <2>2. CASE n \notin network[x]
    BY <1>1, <1>7, <2>2 DEF MembersKnown, TypeOK
  <2> QED BY <2>1, <2>2
<1>9. ViewsEnd'
  <2> SUFFICES ASSUME NEW n \in Node, Connected(n)'
               PROVE  Ends(queue'[n], {Nodelist(network[n])}, Nodelists, client[n].view, {network[n]})
    BY <1>1 DEF ViewsEnd
  <2>1. Ends(queue[n], {Nodelist(network[n])}, Nodelists, client[n].view, {network[n]})
    BY <1>5 DEF ViewsEnd
  <2>2. Quorum(known'[n]) \notin Nodelists
    BY <1>2, Meaning
  <2> QED BY <1>6, <2>1, <2>2, Kept
<1>10. KeysEnd'
  <2> SUFFICES ASSUME NEW n \in Node, NEW m \in Node, Shares(n), Shares(m), m \in network[n]
               PROVE  KeyEnds(n, m)'
    BY <1>1, <1>5 DEF KeysEnd
  <2>1. CASE n \in network[x]
    <3>1. m \in network[x] /\ Connected(m)
      BY <2>1, Facts, SharesIsConnected
    <3>2. queue'[m] = Append(queue[m], Quorum(known'[m])) /\ Quorum(known'[m]) \in Quorums
      BY <1>2, <1>4, <3>1, Meaning
    <3> QED BY <1>6, <3>2, EndsAppend DEF KeyEnds
  <2>2. CASE n \notin network[x]
    <3>1. m \notin network[x] /\ due' \cap network[n] = due \cap network[n]
      BY <1>1, <1>7, <2>2
    <3>2. queue'[m] = queue[m] /\ queue'[n] = queue[n] /\ KeyEnds(n, m)
      BY <1>4, <2>2, <3>1 DEF KeysEnd
    <3> QED BY <1>1, <3>1, <3>2 DEF KeyEnds
  <2> QED BY <2>1, <2>2
<1>11. WithdrawnEnds'
  <2> SUFFICES ASSUME NEW n \in Node, NEW m \in Node, Following(n), m \notin info[n]
               PROVE  Ends(queue'[n], Takes(m), Gives(m), m, Node \ client[n].keyed)
    BY <1>1, <1>5 DEF WithdrawnEnds, Withdrawn
  <2>1. Ends(queue[n], Takes(m), Gives(m), m, Node \ client[n].keyed)
    BY DEF WithdrawnEnds, Withdrawn
  <2>2. Quorum(known'[n]) \notin Gives(m)
    BY <1>2, Meaning
  <2> QED BY <1>6, <2>1, <2>2, Kept
<1> QED BY <1>8, <1>9, <1>10, <1>11

\* Edits of a client read back.
LEMMA ReadBack ==
  ASSUME TypeOK, NEW x \in Node, NEW c \in Client, Update(x, c)
  PROVE  client'[x] = c /\ \A k \in Node : k # x => client'[k] = client[k]
BY DEF TypeOK, Update

\* A daemon reads a notice about nothing it has to share its key for.
LEMMA ReadStep ==
  ASSUME IInv, NEW x \in Node, queue[x] # <<>>, queue' = Rest(x),
         \A k \in Node : k # x => client'[k] = client[k],
         client'[x].pc = client[x].pc, client'[x].qdevice = client[x].qdevice,
         Head(queue[x]) \in {Nodelist(network[x])} => client'[x].view \in {network[x]},
         Head(queue[x]) \notin Nodelists => client'[x].view = client[x].view,
         Head(queue[x]) \in Quorums => ~ Shares(x),
         \A m \in Node :
           /\ Head(queue[x]) \in Gives(m) => m \in client'[x].keyed
           /\ m \in client[x].keyed /\ Head(queue[x]) \notin Takes(m) => m \in client'[x].keyed
           /\ Head(queue[x]) \in Takes(m) => m \in Node \ client'[x].keyed
           /\ m \in Node \ client[x].keyed /\ Head(queue[x]) \notin Gives(m)
                => m \in Node \ client'[x].keyed,
         UNCHANGED <<network, info, due>>
  PROVE  ViewsEnd' /\ KeysEnd' /\ WithdrawnEnds'
<1> USE DEF IInv
<1>1. queue[x] \in Seq(Notice)
  BY Facts
<1>2. queue'[x] = Tail(queue[x]) /\ \A k \in Node : k # x => queue'[k] = queue[k]
  BY DEF Rest, TypeOK
<1>3. \A k \in Node : (Connected(k)' <=> Connected(k)) /\ (Shares(k)' <=> Shares(k))
                      /\ (Following(k)' <=> Following(k))
  BY DEF Connected, Shares, Following
<1>4. ViewsEnd'
  <2> SUFFICES ASSUME NEW n \in Node, Connected(n)
               PROVE  Ends(queue'[n], {Nodelist(network[n])}, Nodelists,
                           client'[n].view, {network[n]})
    BY <1>3 DEF ViewsEnd
  <2>1. Ends(queue[n], {Nodelist(network[n])}, Nodelists, client[n].view, {network[n]})
    BY DEF ViewsEnd
  <2>2. CASE n = x
    <3>1. Ends(Tail(queue[x]), {Nodelist(network[x])}, Nodelists, client'[x].view, {network[x]})
      BY <1>1, <2>1, <2>2, EndsTail
    <3> QED BY <1>2, <2>2, <3>1
  <2>3. CASE n # x
    BY <1>2, <2>1, <2>3
  <2> QED BY <2>2, <2>3
<1>5. KeysEnd'
  <2> SUFFICES ASSUME NEW n \in Node, NEW m \in Node, Shares(n), Shares(m), m \in network[n]
               PROVE  KeyEnds(n, m)'
    BY <1>3 DEF KeysEnd
  <2>1. KeyEnds(n, m)
    BY DEF KeysEnd
  <2>2. ASSUME Ends(queue[m], Quorums, {}, 0, {}) PROVE Ends(queue'[m], Quorums, {}, 0, {})
    <3>1. CASE m = x
      BY <1>1, <1>2, <2>2, <3>1, EndsTail
    <3>2. CASE m # x
      BY <1>2, <2>2, <3>2
    <3> QED BY <3>1, <3>2
  <2>3. ASSUME Ends(queue[n], Gives(m), Takes(m), m, client[n].keyed)
        PROVE  Ends(queue'[n], Gives(m), Takes(m), m, client'[n].keyed)
    <3>1. CASE n = x
      BY <1>1, <1>2, <2>3, <3>1, EndsTail
    <3>2. CASE n # x
      BY <1>2, <2>3, <3>2
    <3> QED BY <3>1, <3>2
  <2> QED BY <2>1, <2>2, <2>3 DEF KeyEnds
<1>6. WithdrawnEnds'
  <2> SUFFICES ASSUME NEW n \in Node, NEW m \in Node, Following(n), m \notin info[n]
               PROVE  Ends(queue'[n], Takes(m), Gives(m), m, Node \ client'[n].keyed)
    BY <1>3 DEF WithdrawnEnds, Withdrawn
  <2>1. Ends(queue[n], Takes(m), Gives(m), m, Node \ client[n].keyed)
    BY DEF WithdrawnEnds, Withdrawn
  <2>2. CASE n = x
    BY <1>1, <1>2, <2>1, <2>2, EndsTail
  <2>3. CASE n # x
    BY <1>2, <2>1, <2>3
  <2> QED BY <2>2, <2>3
<1> QED BY <1>4, <1>5, <1>6

\* The membership is read.
LEMMA NodelistStep ==
  ASSUME IInv, NEW x \in Node, nodelist_notification_fn(x)
  PROVE  MembersKnown' /\ ViewsEnd' /\ KeysEnd' /\ WithdrawnEnds'
<1> DEFINE h == Head(queue[x])
<1>1. /\ client[x] \in Client /\ queue[x] \in Seq(Notice) /\ queue[x] # <<>>
      /\ h.type = "nodelist" /\ queue' = Rest(x)
      /\ client'[x] = [client[x] EXCEPT !.view = h.nodes]
      /\ \A k \in Node : k # x => client'[k] = client[k]
      /\ UNCHANGED <<network, known, info, due>>
  BY Facts DEF IInv, TypeOK, nodelist_notification_fn, Receive, Update, corosyncVars
<1>2. h \in Notice
  BY <1>1
<1>3. /\ client'[x].view = h.nodes /\ client'[x].pc = client[x].pc
      /\ client'[x].qdevice = client[x].qdevice /\ client'[x].keyed = client[x].keyed
  BY <1>1 DEF Client
<1> HIDE DEF h
<1>4. h \in Nodelists /\ h \notin Quorums
  BY <1>1, <1>2 DEF Nodelists, Quorums
<1>5. h \in {Nodelist(network[x])} => h.nodes = network[x]
  BY DEF Nodelist
<1>6. \A m \in Node : h \notin Gives(m) /\ h \notin Takes(m)
  BY <1>1 DEF Gives, Takes, ExtraInfo
<1>7. ViewsEnd' /\ KeysEnd' /\ WithdrawnEnds'
  <2>1. \A m \in Node :
           /\ h \in Gives(m) => m \in client'[x].keyed
           /\ m \in client[x].keyed /\ h \notin Takes(m) => m \in client'[x].keyed
           /\ h \in Takes(m) => m \in Node \ client'[x].keyed
           /\ m \in Node \ client[x].keyed /\ h \notin Gives(m)
                => m \in Node \ client'[x].keyed
    BY <1>3, <1>6
  <2>2. /\ h \in {Nodelist(network[x])} => client'[x].view \in {network[x]}
        /\ h \notin Nodelists => client'[x].view = client[x].view
        /\ h \in Quorums => ~ Shares(x)
    BY <1>3, <1>4, <1>5
  <2> QED BY <1>1, <1>3, <2>1, <2>2, ReadStep DEF h
<1> QED BY <1>1, <1>7, MembersKept

\* A key is read, or that there is none.
LEMMA ExtraInfoStep ==
  ASSUME IInv, NEW x \in Node, qdevice_extra_info_notify(x)
  PROVE  MembersKnown' /\ ViewsEnd' /\ KeysEnd' /\ WithdrawnEnds'
<1> DEFINE h == Head(queue[x])
<1>1. /\ client[x] \in Client /\ queue[x] \in Seq(Notice) /\ queue[x] # <<>>
      /\ h.type = "info" /\ queue' = Rest(x)
      /\ client'[x] = [client[x] EXCEPT
                         !.listed = @ \cup h.nodes,
                         !.keyed = IF h.key THEN @ \cup h.nodes ELSE @ \ h.nodes]
      /\ \A k \in Node : k # x => client'[k] = client[k]
      /\ UNCHANGED <<network, known, info, due>>
  BY Facts DEF IInv, TypeOK, qdevice_extra_info_notify, Receive, Update, corosyncVars
<1>2. h \in Notice
  BY <1>1
<1> HIDE DEF h
<1>3. PICK y \in Node, key \in BOOLEAN : h = ExtraInfo(y, key)
  BY <1>1, <1>2, NoticeShape
<1>4. h.nodes = {y} /\ h.key = key
  BY <1>3 DEF ExtraInfo
<1>5. /\ client'[x].pc = client[x].pc /\ client'[x].qdevice = client[x].qdevice
      /\ client'[x].view = client[x].view
      /\ client'[x].keyed = IF key THEN client[x].keyed \cup {y} ELSE client[x].keyed \ {y}
  BY <1>1, <1>4 DEF Client
<1>6. h \notin Nodelists /\ h \notin Quorums /\ h \notin {Nodelist(network[x])}
  BY <1>1 DEF Nodelists, Quorums, Nodelist
<1>7. \A m \in Node : /\ h \in Gives(m) <=> y = m /\ key
                      /\ h \in Takes(m) <=> y = m /\ ~ key
  BY <1>1, <1>3, <1>4 DEF Gives, Takes, ExtraInfo
<1>8. ViewsEnd' /\ KeysEnd' /\ WithdrawnEnds'
  <2>1. \A m \in Node :
           /\ h \in Gives(m) => m \in client'[x].keyed
           /\ m \in client[x].keyed /\ h \notin Takes(m) => m \in client'[x].keyed
           /\ h \in Takes(m) => m \in Node \ client'[x].keyed
           /\ m \in Node \ client[x].keyed /\ h \notin Gives(m)
                => m \in Node \ client'[x].keyed
    BY <1>5, <1>7
  <2>2. /\ h \in {Nodelist(network[x])} => client'[x].view \in {network[x]}
        /\ h \notin Nodelists => client'[x].view = client[x].view
        /\ h \in Quorums => ~ Shares(x)
    BY <1>5, <1>6
  <2> QED BY <1>1, <1>5, <2>1, <2>2, ReadStep DEF h
<1> QED BY <1>1, <1>8, MembersKept

\* What sharing a key does to the queues and to corosync.
LEMMA AttachOne ==
  ASSUME TypeOK, NEW x \in Node, NEW q \in [Node -> Seq(Notice)], Attach(x, q)
  PROVE  /\ \A k \in Node : queue'[k] = IF k \in network[x] /\ Connected(k)
                              THEN Append(q[k], ExtraInfo(x, TRUE)) ELSE q[k]
         /\ \A k \in Node : info'[k] = IF k \in network[x] THEN info[k] \cup {x} ELSE info[k]
<1> DEFINE notice == [k \in Node |-> ExtraInfo(x, TRUE)]
<1>1. notice \in [Node -> Notice] /\ network[x] \in SUBSET Node
  BY Notices, Facts
<1>2. \A k \in Node : notice[k] = ExtraInfo(x, TRUE)
  OBVIOUS
<1>3. queue' = Tell(q, network[x], notice)
  BY DEF Attach
<1>4. \A k \in Node : info'[k] = IF k \in network[x] THEN info[k] \cup {x} ELSE info[k]
  BY DEF Attach
<1> HIDE DEF notice
<1>5. \A k \in Node : Tell(q, network[x], notice)[k] =
         IF k \in network[x] /\ Connected(k) THEN Append(q[k], notice[k]) ELSE q[k]
  BY <1>1, TellOne
<1> QED BY <1>2, <1>3, <1>4, <1>5

\* What the announcement of a qdevice does to the queues.
LEMMA AnnouncedOne ==
  ASSUME TypeOK, NEW x \in Node
  PROVE  /\ Announced(x) \in [Node -> Seq(Notice)]
         /\ \A k \in Node : Announced(x)[k] = IF k \in network[x] /\ Connected(k)
                              THEN Append(queue[k], Quorum(known[k])) ELSE queue[k]
<1> DEFINE notice == [k \in Node |-> Quorum(known[k])]
<1>1. /\ notice \in [Node -> Notice] /\ network[x] \in SUBSET Node
      /\ queue \in [Node -> Seq(Notice)]
  BY Notices, Facts DEF TypeOK
<1>2. \A k \in Node : notice[k] = Quorum(known[k])
  OBVIOUS
<1>3. Announced(x) = Tell(queue, network[x], notice)
  BY DEF Announced
<1> HIDE DEF notice
<1>4. /\ Tell(queue, network[x], notice) \in [Node -> Seq(Notice)]
      /\ \A k \in Node : Tell(queue, network[x], notice)[k] =
           IF k \in network[x] /\ Connected(k) THEN Append(queue[k], notice[k]) ELSE queue[k]
  BY <1>1, TellOne
<1> QED BY <1>2, <1>3, <1>4

\* A daemon that shares reads which nodes corosync knows, and shares its key again.
LEMMA ShareAgainStep ==
  ASSUME IInv, NEW x \in Node, quorum_notification_fn(x), Shares(x)
  PROVE  ViewsEnd' /\ KeysEnd' /\ WithdrawnEnds'
<1> USE DEF IInv
<1> DEFINE h == Head(queue[x])
<1>1. /\ client[x] \in Client /\ queue[x] \in Seq(Notice) /\ queue[x] # <<>>
      /\ h.type = "quorum" /\ Attach(x, Rest(x))
      /\ client'[x] = [client[x] EXCEPT !.listed = h.nodes, !.keyed = @ \cap h.nodes]
      /\ \A k \in Node : k # x => client'[k] = client[k]
      /\ UNCHANGED <<network, known, due>>
  BY Facts DEF TypeOK, quorum_notification_fn, Receive, Update
<1>2. h \in Notice /\ Tail(queue[x]) \in Seq(Notice)
  BY <1>1
<1>3. /\ Rest(x) \in [Node -> Seq(Notice)] /\ Rest(x)[x] = Tail(queue[x])
      /\ \A k \in Node : k # x => Rest(x)[k] = queue[k]
  BY <1>2 DEF Rest, TypeOK
<1> HIDE DEF h
<1>4. /\ client'[x].view = client[x].view /\ client'[x].pc = client[x].pc
      /\ client'[x].qdevice = client[x].qdevice
      /\ client'[x].keyed = client[x].keyed \cap h.nodes
  BY <1>1 DEF Client
<1>5. h \in Quorums /\ h \notin Nodelists
      /\ \A m \in Node : h \notin Gives(m) /\ (h \in Takes(m) <=> m \notin h.nodes)
  BY <1>1, <1>2 DEF Quorums, Nodelists, Gives, Takes, ExtraInfo
<1>6. /\ \A k \in Node : queue'[k] = IF k \in network[x] /\ Connected(k)
                           THEN Append(Rest(x)[k], ExtraInfo(x, TRUE)) ELSE Rest(x)[k]
      /\ \A k \in Node : info'[k] = IF k \in network[x] THEN info[k] \cup {x} ELSE info[k]
  BY <1>1, <1>3, AttachOne
<1>7. \A k \in Node : /\ Rest(x)[k] \in Seq(Notice) /\ ExtraInfo(x, TRUE) \in Notice
                      /\ \/ queue'[k] = Rest(x)[k]
                         \/ queue'[k] = Append(Rest(x)[k], ExtraInfo(x, TRUE))
  BY <1>3, <1>6, Notices
<1>8. \A k \in Node : (Connected(k)' <=> Connected(k)) /\ (Shares(k)' <=> Shares(k))
                      /\ (Following(k)' <=> Following(k))
  BY <1>1, <1>4 DEF Connected, Shares, Following
<1>9. ExtraInfo(x, TRUE) \notin Nodelists /\ ExtraInfo(x, TRUE) \in Gives(x)
      /\ \A m \in Node : ExtraInfo(x, TRUE) \notin Takes(m)
                         /\ (m # x => ExtraInfo(x, TRUE) \notin Gives(m))
  <2>1. {} \in SUBSET Node
    OBVIOUS
  <2> QED BY <2>1, Meaning
<1>10. ViewsEnd'
  <2> SUFFICES ASSUME NEW n \in Node, Connected(n)
               PROVE  Ends(queue'[n], {Nodelist(network[n])}, Nodelists,
                           client'[n].view, {network[n]})
    BY <1>1, <1>8 DEF ViewsEnd
  <2>1. Ends(queue[n], {Nodelist(network[n])}, Nodelists, client[n].view, {network[n]})
    BY DEF ViewsEnd
  <2>2. Ends(Rest(x)[n], {Nodelist(network[n])}, Nodelists, client'[n].view, {network[n]})
    <3>1. CASE n = x
      <4>1. h \notin {Nodelist(network[x])}
        BY <1>1 DEF Nodelist
      <4>2. Ends(Tail(queue[x]), {Nodelist(network[x])}, Nodelists, client'[x].view, {network[x]})
        BY <1>1, <1>4, <1>5, <2>1, <3>1, <4>1, EndsTail DEF h
      <4> QED BY <1>3, <3>1, <4>2
    <3>2. CASE n # x
      BY <1>1, <1>3, <2>1, <3>2
    <3> QED BY <3>1, <3>2
  <2> QED BY <1>7, <1>9, <2>2, Kept
<1>11. KeysEnd'
  <2> SUFFICES ASSUME NEW n \in Node, NEW m \in Node, Shares(n), Shares(m), m \in network[n]
               PROVE  KeyEnds(n, m)'
    BY <1>1, <1>8 DEF KeysEnd
  <2>1. KeyEnds(n, m)
    BY DEF KeysEnd
  <2>2. CASE m = x
    <3>1. n \in network[x] /\ Connected(n)
      BY <2>2, Facts, SharesIsConnected
    <3>2. queue'[n] = Append(Rest(x)[n], ExtraInfo(x, TRUE))
      BY <1>6, <3>1
    <3>3. Ends(queue'[n], Gives(m), Takes(m), m, client'[n].keyed)
      BY <1>7, <1>9, <2>2, <3>2, EndsAppend
    <3> QED BY <3>3 DEF KeyEnds
  <2>3. CASE m # x
    <3>1. ASSUME Ends(queue[m], Quorums, {}, 0, {}) PROVE Ends(queue'[m], Quorums, {}, 0, {})
      <4>1. Ends(Rest(x)[m], Quorums, {}, 0, {})
        BY <1>3, <2>3, <3>1
      <4> QED BY <1>7, <4>1, Kept
    <3>2. ASSUME Ends(queue[n], Gives(m), Takes(m), m, client[n].keyed)
          PROVE  Ends(queue'[n], Gives(m), Takes(m), m, client'[n].keyed)
      <4>1. Ends(Rest(x)[n], Gives(m), Takes(m), m, client'[n].keyed)
        <5>1. CASE n = x
          <6>1. Ends(Tail(queue[x]), Gives(m), Takes(m), m, client'[x].keyed)
            BY <1>1, <1>4, <1>5, <3>2, <5>1, EndsTail DEF h
          <6> QED BY <1>3, <5>1, <6>1
        <5>2. CASE n # x
          BY <1>1, <1>3, <3>2, <5>2
        <5> QED BY <5>1, <5>2
      <4> QED BY <1>7, <1>9, <4>1, Kept
    <3> QED BY <1>1, <2>1, <3>1, <3>2 DEF KeyEnds
  <2> QED BY <2>2, <2>3
<1>12. WithdrawnEnds'
  <2> SUFFICES ASSUME NEW n \in Node, NEW m \in Node, Following(n), m \notin info'[n]
               PROVE  Ends(queue'[n], Takes(m), Gives(m), m, Node \ client'[n].keyed)
    BY <1>8 DEF WithdrawnEnds, Withdrawn
  <2>1. m \notin info[n] /\ (n \in network[x] => m # x)
    BY <1>6
  <2>2. Ends(queue[n], Takes(m), Gives(m), m, Node \ client[n].keyed)
    BY <2>1 DEF WithdrawnEnds, Withdrawn
  <2>3. Ends(Rest(x)[n], Takes(m), Gives(m), m, Node \ client'[n].keyed)
    <3>1. CASE n = x
      <4>1. Ends(Tail(queue[x]), Takes(m), Gives(m), m, Node \ client'[x].keyed)
        BY <1>1, <1>4, <1>5, <2>2, <3>1, EndsTail DEF h
      <4> QED BY <1>3, <3>1, <4>1
    <3>2. CASE n # x
      BY <1>1, <1>3, <2>2, <3>2
    <3> QED BY <3>1, <3>2
  <2>4. CASE n \in network[x]
    BY <1>7, <1>9, <2>1, <2>3, <2>4, Kept
  <2>5. CASE n \notin network[x]
    BY <1>6, <2>3, <2>5
  <2> QED BY <2>4, <2>5
<1> QED BY <1>10, <1>11, <1>12

\* The nodes that corosync knows are read.
LEMMA QuorumStep ==
  ASSUME IInv, NEW x \in Node, quorum_notification_fn(x)
  PROVE  MembersKnown' /\ ViewsEnd' /\ KeysEnd' /\ WithdrawnEnds'
<1>1. CASE Shares(x)
  BY <1>1, ShareAgainStep, MembersKept DEF quorum_notification_fn
<1>2. CASE ~ Shares(x)
  <2> DEFINE h == Head(queue[x])
  <2>1. /\ client[x] \in Client /\ queue[x] \in Seq(Notice) /\ queue[x] # <<>>
        /\ h.type = "quorum" /\ queue' = Rest(x)
        /\ client'[x] = [client[x] EXCEPT !.listed = h.nodes, !.keyed = @ \cap h.nodes]
        /\ \A k \in Node : k # x => client'[k] = client[k]
        /\ UNCHANGED <<network, known, info, due>>
    BY <1>2, Facts DEF IInv, TypeOK, quorum_notification_fn, Receive, Update
  <2>2. h \in Notice
    BY <2>1
  <2> HIDE DEF h
  <2>3. /\ client'[x].view = client[x].view /\ client'[x].pc = client[x].pc
        /\ client'[x].qdevice = client[x].qdevice
        /\ client'[x].keyed = client[x].keyed \cap h.nodes
    BY <2>1 DEF Client
  <2>4. /\ h \notin {Nodelist(network[x])}
        /\ \A m \in Node : h \notin Gives(m) /\ (h \in Takes(m) <=> m \notin h.nodes)
    BY <2>1, <2>2 DEF Nodelist, Gives, Takes, ExtraInfo
  <2>5. \A m \in Node :
           /\ h \in Gives(m) => m \in client'[x].keyed
           /\ m \in client[x].keyed /\ h \notin Takes(m) => m \in client'[x].keyed
           /\ h \in Takes(m) => m \in Node \ client'[x].keyed
           /\ m \in Node \ client[x].keyed /\ h \notin Gives(m)
                => m \in Node \ client'[x].keyed
    BY <2>3, <2>4
  <2>6. ViewsEnd' /\ KeysEnd' /\ WithdrawnEnds'
    BY <1>2, <2>1, <2>3, <2>4, <2>5, ReadStep DEF h
  <2> QED BY <2>1, <2>6, MembersKept
<1> QED BY <1>1, <1>2

\* What is told of other things, twice.
LEMMA KeptTwice ==
  ASSUME NEW q \in Seq(Notice), NEW x \in Notice, NEW y \in Notice,
         NEW W, NEW E, NEW v, NEW V,
         x \notin E, y \notin E, Ends(q, W, E, v, V),
         NEW r, r = q \/ r = Append(Append(q, x), y)
  PROVE  Ends(r, W, E, v, V)
<1>1. Append(q, x) \in Seq(Notice) /\ Ends(Append(q, x), W, E, v, V)
  BY EndsAppend
<1>2. Ends(Append(Append(q, x), y), W, E, v, V)
  BY <1>1, EndsAppend
<1> QED BY <1>2

\* A daemon that starts registers, and shares its key.
LEMMA RegisterStep ==
  ASSUME IInv, NEW x \in Node, RegisterAndShare(x)
  PROVE  MembersKnown' /\ ViewsEnd' /\ KeysEnd' /\ WithdrawnEnds'
<1> USE DEF IInv
<1>1. /\ client[x] \in Client /\ client[x].pc = "start"
      /\ Attach(x, Announced(x))
      /\ client'[x] = [client[x] EXCEPT !.pc = "run", !.qdevice = TRUE]
      /\ \A k \in Node : k # x => client'[k] = client[k]
      /\ UNCHANGED <<network, known, due>>
  BY Facts DEF TypeOK, RegisterAndShare, Update
<1>2. /\ client'[x].view = client[x].view /\ client'[x].keyed = client[x].keyed
      /\ client'[x].pc = "run" /\ client'[x].qdevice = TRUE
  BY <1>1 DEF Client
<1>3. /\ \A k \in Node : Announced(x)[k] = IF k \in network[x] /\ Connected(k)
                           THEN Append(queue[k], Quorum(known[k])) ELSE queue[k]
      /\ \A k \in Node : queue'[k] = IF k \in network[x] /\ Connected(k)
                           THEN Append(Announced(x)[k], ExtraInfo(x, TRUE)) ELSE Announced(x)[k]
      /\ \A k \in Node : info'[k] = IF k \in network[x] THEN info[k] \cup {x} ELSE info[k]
  BY <1>1, AnnouncedOne, AttachOne
<1>4. \A k \in Node :
        /\ queue[k] \in Seq(Notice) /\ Quorum(known[k]) \in Notice
        /\ known[k] \in SUBSET Node /\ ExtraInfo(x, TRUE) \in Notice
        /\ Append(queue[k], Quorum(known[k])) \in Seq(Notice)
  <2> SUFFICES ASSUME NEW k \in Node
               PROVE  /\ queue[k] \in Seq(Notice) /\ Quorum(known[k]) \in Notice
                      /\ known[k] \in SUBSET Node /\ ExtraInfo(x, TRUE) \in Notice
                      /\ Append(queue[k], Quorum(known[k])) \in Seq(Notice)
    OBVIOUS
  <2>1. queue[k] \in Seq(Notice) /\ known[k] \in SUBSET Node
    BY DEF TypeOK
  <2>2. Quorum(known[k]) \in Notice /\ ExtraInfo(x, TRUE) \in Notice
    BY <2>1, Notices
  <2>3. Append(queue[k], Quorum(known[k])) \in Seq(Notice)
    <3> HIDE DEF Quorum
    <3> QED BY <2>1, <2>2
  <2> QED BY <2>1, <2>2, <2>3
<1>5. \A k \in Node :
        queue'[k] = IF k \in network[x] /\ Connected(k)
                      THEN Append(Append(queue[k], Quorum(known[k])), ExtraInfo(x, TRUE))
                      ELSE queue[k]
  <2> SUFFICES ASSUME NEW k \in Node
               PROVE  queue'[k] = IF k \in network[x] /\ Connected(k)
                        THEN Append(Append(queue[k], Quorum(known[k])), ExtraInfo(x, TRUE))
                        ELSE queue[k]
    OBVIOUS
  <2>1. CASE k \in network[x] /\ Connected(k)
    BY <1>3, <2>1
  <2>2. CASE ~ (k \in network[x] /\ Connected(k))
    BY <1>3, <2>2
  <2> QED BY <2>1, <2>2
<1>6. /\ \A k \in Node : (Connected(k)' <=> Connected(k)) /\ (Following(k)' => Following(k))
      /\ \A k \in Node : k # x => (Shares(k)' <=> Shares(k))
  BY <1>1, <1>2 DEF Connected, Shares, Following
<1>7. /\ ExtraInfo(x, TRUE) \notin Nodelists /\ ExtraInfo(x, TRUE) \in Gives(x)
      /\ \A m \in Node : ExtraInfo(x, TRUE) \notin Takes(m)
                         /\ (m # x => ExtraInfo(x, TRUE) \notin Gives(m))
      /\ \A k \in Node : Quorum(known[k]) \notin Nodelists /\ Quorum(known[k]) \in Quorums
      /\ \A k, m \in Node : Quorum(known[k]) \notin Gives(m)
  BY <1>4, Meaning
<1>8. ViewsEnd'
  <2> SUFFICES ASSUME NEW n \in Node, Connected(n)
               PROVE  Ends(queue'[n], {Nodelist(network[n])}, Nodelists,
                           client'[n].view, {network[n]})
    BY <1>1, <1>6 DEF ViewsEnd
  <2>1. client'[n].view = client[n].view
    BY <1>1, <1>2
  <2>2. Ends(queue[n], {Nodelist(network[n])}, Nodelists, client'[n].view, {network[n]})
    BY <2>1 DEF ViewsEnd
  <2> QED BY <1>4, <1>5, <1>7, <2>2, KeptTwice
<1>9. KeysEnd'
  <2> SUFFICES ASSUME NEW n \in Node, NEW m \in Node, Shares(n)', Shares(m)', m \in network[n]
               PROVE  KeyEnds(n, m)'
    BY <1>1 DEF KeysEnd
  <2>0. Connected(n) /\ Connected(m)
    BY <1>6, SharesIsConnected DEF Shares, Connected
  <2>1. CASE n \in network[x]
    <3>1. m \in network[x]
      BY <2>1, Facts
    <3>2. CASE m = x
      <4>1. queue'[n] = Append(Append(queue[n], Quorum(known[n])), ExtraInfo(x, TRUE))
        BY <1>5, <2>0, <2>1
      <4>2. Ends(queue'[n], Gives(m), Takes(m), m, client'[n].keyed)
        BY <1>4, <1>7, <3>2, <4>1, EndsAppend
      <4> QED BY <4>2 DEF KeyEnds
    <3>3. CASE m # x
      <4>1. queue'[m] = Append(Append(queue[m], Quorum(known[m])), ExtraInfo(x, TRUE))
        BY <1>5, <2>0, <3>1
      <4>2. Ends(Append(queue[m], Quorum(known[m])), Quorums, {}, 0, {})
        BY <1>4, <1>7, EndsAppend
      <4>3. Ends(queue'[m], Quorums, {}, 0, {})
        BY <1>4, <4>1, <4>2, EndsAppend
      <4> QED BY <4>3 DEF KeyEnds
    <3> QED BY <3>2, <3>3
  <2>2. CASE n \notin network[x]
    <3>1. n # x /\ m # x /\ m \notin network[x]
      BY <2>2, Facts
    <3>2. KeyEnds(n, m) /\ queue'[n] = queue[n] /\ queue'[m] = queue[m]
      BY <1>5, <1>6, <2>2, <3>1 DEF KeysEnd
    <3> QED BY <1>1, <3>1, <3>2 DEF KeyEnds
  <2> QED BY <2>1, <2>2
<1>10. WithdrawnEnds'
  <2> SUFFICES ASSUME NEW n \in Node, NEW m \in Node, Following(n)', m \notin info'[n]
               PROVE  Ends(queue'[n], Takes(m), Gives(m), m, Node \ client'[n].keyed)
    BY DEF WithdrawnEnds, Withdrawn
  <2>1. m \notin info[n] /\ (n \in network[x] => m # x)
    BY <1>3
  <2>2. client'[n].keyed = client[n].keyed
    BY <1>1, <1>2
  <2>3. Ends(queue[n], Takes(m), Gives(m), m, Node \ client'[n].keyed)
    BY <1>6, <2>1, <2>2 DEF WithdrawnEnds, Withdrawn
  <2>4. CASE n \in network[x]
    BY <1>4, <1>5, <1>7, <2>1, <2>3, <2>4, KeptTwice
  <2>5. CASE n \notin network[x]
    BY <1>5, <2>3, <2>5
  <2> QED BY <2>4, <2>5
<1> QED BY <1>1, <1>8, <1>9, <1>10, MembersKept

\* A daemon that stops withdraws its key.
LEMMA StopStep ==
  ASSUME IInv, NEW x \in Node, StopInCorosync(x)
  PROVE  MembersKnown' /\ ViewsEnd' /\ KeysEnd' /\ WithdrawnEnds'
<1> USE DEF IInv
<1> DEFINE notice == [k \in Node |-> ExtraInfo(x, FALSE)]
           told == Tell(Announced(x), network[x], notice)
<1>1. /\ Update(x, Boot) /\ Detach(x) /\ UNCHANGED <<network, known, due>>
  BY DEF StopInCorosync
<1>2. client'[x].pc = "down" /\ \A k \in Node : k # x => client'[k] = client[k]
  BY <1>1 DEF TypeOK, Update, Boot
<1>3. /\ Announced(x) \in [Node -> Seq(Notice)]
      /\ \A k \in Node : Announced(x)[k] = IF k \in network[x] /\ Connected(k)
                           THEN Append(queue[k], Quorum(known[k])) ELSE queue[k]
  BY AnnouncedOne
<1>4. /\ told \in [Node -> Seq(Notice)]
      /\ \A k \in Node : told[k] = IF k \in network[x] /\ Connected(k)
                           THEN Append(Announced(x)[k], ExtraInfo(x, FALSE)) ELSE Announced(x)[k]
  <2>1. notice \in [Node -> Notice] /\ network[x] \in SUBSET Node
    BY Notices, Facts
  <2>2. \A k \in Node : notice[k] = ExtraInfo(x, FALSE)
    OBVIOUS
  <2> HIDE DEF notice
  <2>3. /\ Tell(Announced(x), network[x], notice) \in [Node -> Seq(Notice)]
        /\ \A k \in Node : Tell(Announced(x), network[x], notice)[k] =
             IF k \in network[x] /\ Connected(k)
               THEN Append(Announced(x)[k], notice[k]) ELSE Announced(x)[k]
    BY <1>3, <2>1, TellOne
  <2> QED BY <2>2, <2>3
<1>5. queue' = [told EXCEPT ![x] = <<>>]
  BY <1>1 DEF Detach
<1>6. \A k \in Node : info'[k] = IF k \in network[x] THEN info[k] \ {x} ELSE info[k]
  BY <1>1 DEF Detach
<1> HIDE DEF told
<1>7. \A k \in Node : k # x =>
        queue'[k] = IF k \in network[x] /\ Connected(k)
                      THEN Append(Append(queue[k], Quorum(known[k])), ExtraInfo(x, FALSE))
                      ELSE queue[k]
  <2> SUFFICES ASSUME NEW k \in Node, k # x
               PROVE  queue'[k] = IF k \in network[x] /\ Connected(k)
                        THEN Append(Append(queue[k], Quorum(known[k])), ExtraInfo(x, FALSE))
                        ELSE queue[k]
    OBVIOUS
  <2>1. queue'[k] = told[k]
    BY <1>4, <1>5
  <2>2. CASE k \in network[x] /\ Connected(k)
    BY <1>3, <1>4, <2>1, <2>2
  <2>3. CASE ~ (k \in network[x] /\ Connected(k))
    BY <1>3, <1>4, <2>1, <2>3
  <2> QED BY <2>2, <2>3
<1>8. \A k \in Node :
        /\ queue[k] \in Seq(Notice) /\ Quorum(known[k]) \in Notice
        /\ known[k] \in SUBSET Node /\ ExtraInfo(x, FALSE) \in Notice
        /\ Append(queue[k], Quorum(known[k])) \in Seq(Notice)
  <2> SUFFICES ASSUME NEW k \in Node
               PROVE  /\ queue[k] \in Seq(Notice) /\ Quorum(known[k]) \in Notice
                      /\ known[k] \in SUBSET Node /\ ExtraInfo(x, FALSE) \in Notice
                      /\ Append(queue[k], Quorum(known[k])) \in Seq(Notice)
    OBVIOUS
  <2>1. queue[k] \in Seq(Notice) /\ known[k] \in SUBSET Node
    BY DEF TypeOK
  <2>2. Quorum(known[k]) \in Notice /\ ExtraInfo(x, FALSE) \in Notice
    BY <2>1, Notices
  <2>3. Append(queue[k], Quorum(known[k])) \in Seq(Notice)
    <3> HIDE DEF Quorum
    <3> QED BY <2>1, <2>2
  <2> QED BY <2>1, <2>2, <2>3
<1>9. /\ ~ Connected(x)' /\ ~ Shares(x)' /\ ~ Following(x)'
      /\ \A k \in Node : k # x => /\ Connected(k)' <=> Connected(k)
                                  /\ Shares(k)' <=> Shares(k)
                                  /\ Following(k)' <=> Following(k)
  BY <1>2 DEF Connected, Shares, Following
<1>10. /\ ExtraInfo(x, FALSE) \notin Nodelists /\ ExtraInfo(x, FALSE) \in Takes(x)
       /\ \A m \in Node : ExtraInfo(x, FALSE) \notin Gives(m)
       /\ \A k \in Node : Quorum(known[k]) \notin Nodelists /\ Quorum(known[k]) \in Quorums
       /\ \A k, m \in Node : Quorum(known[k]) \notin Gives(m)
  BY <1>8, Meaning
<1>11. ViewsEnd'
  <2> SUFFICES ASSUME NEW n \in Node, Connected(n)'
               PROVE  Ends(queue'[n], {Nodelist(network[n])}, Nodelists,
                           client'[n].view, {network[n]})
    BY <1>1 DEF ViewsEnd
  <2>1. n # x /\ client'[n] = client[n] /\ Connected(n)
    BY <1>2, <1>9
  <2>2. Ends(queue[n], {Nodelist(network[n])}, Nodelists, client'[n].view, {network[n]})
    BY <2>1 DEF ViewsEnd
  <2> QED BY <1>7, <1>8, <1>10, <2>1, <2>2, KeptTwice
<1>12. KeysEnd'
  <2> SUFFICES ASSUME NEW n \in Node, NEW m \in Node, Shares(n)', Shares(m)', m \in network[n]
               PROVE  KeyEnds(n, m)'
    BY <1>1 DEF KeysEnd
  <2>0. /\ n # x /\ m # x /\ Shares(n) /\ Shares(m) /\ Connected(m)
        /\ client'[n] = client[n]
    BY <1>2, <1>9, SharesIsConnected
  <2>1. CASE n \in network[x]
    <3>1. m \in network[x]
      BY <2>1, Facts
    <3>2. queue'[m] = Append(Append(queue[m], Quorum(known[m])), ExtraInfo(x, FALSE))
      BY <1>7, <2>0, <3>1
    <3>3. Ends(Append(queue[m], Quorum(known[m])), Quorums, {}, 0, {})
      BY <1>8, <1>10, EndsAppend
    <3>4. Ends(queue'[m], Quorums, {}, 0, {})
      BY <1>8, <3>2, <3>3, EndsAppend
    <3> QED BY <3>4 DEF KeyEnds
  <2>2. CASE n \notin network[x]
    <3>1. m \notin network[x]
      BY <2>2, Facts
    <3>2. KeyEnds(n, m) /\ queue'[n] = queue[n] /\ queue'[m] = queue[m]
      BY <1>7, <2>0, <2>2, <3>1 DEF KeysEnd
    <3> QED BY <1>1, <2>0, <3>2 DEF KeyEnds
  <2> QED BY <2>1, <2>2
<1>13. WithdrawnEnds'
  <2> SUFFICES ASSUME NEW n \in Node, NEW m \in Node, Following(n)', m \notin info'[n]
               PROVE  Ends(queue'[n], Takes(m), Gives(m), m, Node \ client'[n].keyed)
    BY DEF WithdrawnEnds, Withdrawn
  <2>0. n # x /\ Following(n) /\ Connected(n) /\ client'[n] = client[n]
    BY <1>2, <1>9 DEF Following
  <2>1. CASE m = x /\ n \in network[x]
    <3>1. queue'[n] = Append(Append(queue[n], Quorum(known[n])), ExtraInfo(x, FALSE))
      BY <1>7, <2>0, <2>1
    <3>2. ExtraInfo(x, FALSE) \in Takes(m)
      BY <1>10, <2>1
    <3>3. Append(queue[n], Quorum(known[n])) \in Seq(Notice) /\ ExtraInfo(x, FALSE) \in Notice
      BY <1>8
    <3>4. Ends(Append(Append(queue[n], Quorum(known[n])), ExtraInfo(x, FALSE)),
               Takes(m), Gives(m), m, Node \ client'[n].keyed)
      BY <3>2, <3>3, EndsAppend
    <3> QED BY <3>1, <3>4
  <2>2. CASE ~ (m = x /\ n \in network[x])
    <3>1. m \notin info[n]
      BY <1>6, <2>2
    <3>2. Ends(queue[n], Takes(m), Gives(m), m, Node \ client'[n].keyed)
      BY <2>0, <3>1 DEF WithdrawnEnds, Withdrawn
    <3>3. CASE n \in network[x]
      <4>1. ExtraInfo(x, FALSE) \notin Gives(m) /\ Quorum(known[n]) \notin Gives(m)
        BY <1>10
      <4>2. \/ queue'[n] = queue[n]
            \/ queue'[n] = Append(Append(queue[n], Quorum(known[n])), ExtraInfo(x, FALSE))
        BY <1>7, <2>0
      <4> QED BY <1>8, <3>2, <4>1, <4>2, KeptTwice
    <3>4. CASE n \notin network[x]
      BY <1>7, <2>0, <3>2, <3>4
    <3> QED BY <3>3, <3>4
  <2> QED BY <2>1, <2>2
<1> QED BY <1>1, <1>11, <1>12, <1>13, MembersKept

\* It holds at first: no daemon runs, and members know each other.
LEMMA InitInvariant == Init => IInv
<1> SUFFICES ASSUME Init PROVE IInv
  OBVIOUS
<1>1. /\ client = [n \in Node |-> Boot] /\ Boot \in Client /\ Boot.keyed = {} /\ Boot.pc = "down"
      /\ known = network /\ network \in Layouts /\ network \in [Node -> SUBSET Node]
  BY LayoutAssumption DEF Init, Boot, Client, PC
<1>2. TypeOK
  BY <1>1, BoundAssumption DEF Init, TypeOK
<1>3. \A n \in Node : ~ Connected(n) /\ ~ Shares(n) /\ ~ Following(n)
  BY <1>1 DEF Connected, Shares, Following
<1> QED BY <1>1, <1>2, <1>3 DEF IInv, MembersKnown, ViewsEnd, KeysEnd, WithdrawnEnds

\* Every step keeps it.
LEMMA NextInvariant == IInv /\ [Next]_vars => IInv'
<1> SUFFICES ASSUME IInv, [Next]_vars PROVE IInv'
  OBVIOUS
<1> DEFINE Parts == MembersKnown /\ ViewsEnd /\ KeysEnd /\ WithdrawnEnds
<1>1. TypeOK'
  BY TypeStep DEF IInv
<1>2. ASSUME NEW n \in Node, DaemonStep(n) PROVE Parts'
  <2>1. CASE vquorum_dispatch_all(n)
    BY <2>1, NodelistStep, QuorumStep, ExtraInfoStep DEF vquorum_dispatch_all
  <2>2. CASE vquorum_init(n)
    BY <2>2, InitStep
  <2>3. CASE KeyListFails(n) \/ RefuseStart(n)
    BY <2>3, ExitStep DEF KeyListFails, RefuseStart
  <2>4. CASE RegisterAndShare(n)
    BY <2>4, RegisterStep
  <2>5. CASE Reconnect(n)
    BY <2>5, ReconnectStep
  <2>6. CASE StopInCorosync(n)
    BY <2>6, StopStep
  <2> QED BY <1>2, <2>1, <2>2, <2>3, <2>4, <2>5, <2>6 DEF DaemonStep
<1>3. ASSUME NetworkChange PROVE Parts'
  BY <1>3, NetworkChangeStep
<1>4. ASSUME NEW n \in Node, NodeInfo(n) \/ CorosyncRestarts(n) PROVE Parts'
  BY <1>4, NodeInfoStep, RestartStep
<1>5. ASSUME NEW n \in Node, StartDaemon(n) \/ StopOnDisk(n) PROVE Parts'
  BY <1>5, StartStep, StopOnDiskStep
<1>6. ASSUME NEW n \in Node, Crash(n) PROVE Parts'
  BY <1>6, ExitStep DEF Crash
<1>7. ASSUME UNCHANGED vars PROVE Parts'
  BY <1>7, StutterStep
<1>8. Parts'
  <2> HIDE DEF Parts
  <2> QED BY <1>2, <1>3, <1>4, <1>5, <1>6, <1>7 DEF Next
<1> QED BY <1>1, <1>8 DEF IInv

-----------------------------------------------------------------------------
(* The theorems.                                                           *)

\* The inductive invariant holds in every state of every behaviour.
THEOREM Invariance == Spec => []IInv
<1>1. Init => IInv
  BY InitInvariant
<1>2. IInv /\ [Next]_vars => IInv'
  BY NextInvariant
<1> QED BY <1>1, <1>2, PTL DEF Spec

\* Every variable keeps its type, and no daemon has a key without a list entry.
THEOREM TypeCorrect == Spec => []TypeOK
<1>1. IInv => TypeOK
  BY DEF IInv
<1> QED BY <1>1, Invariance, PTL

\* A connected daemon that has read what it was told sees its partition.
THEOREM ViewCurrent == Spec => []ViewIsCurrent
<1>1. IInv => ViewIsCurrent
  <2> SUFFICES ASSUME IInv, NEW n \in Node, Connected(n), queue[n] = <<>>
               PROVE  client[n].view \in {network[n]}
    BY DEF ViewIsCurrent
  <2>1. Ends(<<>>, {Nodelist(network[n])}, Nodelists, client[n].view, {network[n]})
    BY DEF IInv, ViewsEnd
  <2> QED BY <2>1, EndsEmpty
<1> QED BY <1>1, Invariance, PTL

\* Whatever order daemons start, meet, stop and reconnect in: two that are together and
\* have read what they were told see each other and have each other's key.
THEOREM KeysKnown == Spec => []KeysAreKnown
<1>1. IInv => KeysAreKnown
  <2> SUFFICES ASSUME IInv, NEW n \in Node, NEW m \in Node, Shares(n), Shares(m),
                      m \in network[n], Quiet(n), Quiet(m)
               PROVE  m \in client[n].view \cap client[n].keyed
    BY DEF KeysAreKnown
  <2>1. queue[n] = <<>> /\ queue[m] = <<>> /\ due \cap network[n] = {}
    BY DEF Quiet
  <2>2. client[n].view \in {network[n]}
    <3>1. Ends(<<>>, {Nodelist(network[n])}, Nodelists, client[n].view, {network[n]})
      BY <2>1, SharesIsConnected DEF IInv, ViewsEnd
    <3> QED BY <3>1, EndsEmpty
  <2>3. m \in client[n].keyed
    <3>1. \/ Ends(<<>>, Quorums, {}, 0, {})
          \/ Ends(<<>>, Gives(m), Takes(m), m, client[n].keyed)
      BY <2>1 DEF IInv, KeysEnd, KeyEnds
    <3>2. ~ Ends(<<>>, Quorums, {}, 0, {})
      BY EndsEmpty
    <3> QED BY <3>1, <3>2, EndsEmpty
  <2> QED BY <2>2, <2>3
<1> QED BY <1>1, Invariance, PTL

\* A daemon that has read what it was told has no key that corosync no longer has.
THEOREM WithdrawnForgotten == Spec => []WithdrawnKeysForgotten
<1>1. IInv => WithdrawnKeysForgotten
  <2> SUFFICES ASSUME IInv, NEW n \in Node, NEW m \in Node, Shares(n), queue[n] = <<>>,
                      m \notin info[n]
               PROVE  m \notin client[n].keyed
    <3>1. IInv => \A n \in Node : client[n].keyed \subseteq Node
      BY Facts DEF IInv, Client
    <3> QED BY <3>1 DEF WithdrawnKeysForgotten
  <2>1. Ends(<<>>, Takes(m), Gives(m), m, Node \ client[n].keyed)
    BY SharesIsConnected DEF IInv, WithdrawnEnds, Withdrawn
  <2> QED BY <2>1, EndsEmpty
<1> QED BY <1>1, Invariance, PTL
================================================================================
