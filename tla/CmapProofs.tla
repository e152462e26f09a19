------------------------------- MODULE CmapProofs ------------------------------
(***************************************************************************)
(* Proofs about Cmap.  A count that missed a change has the notification   *)
(* of that change queued behind it, and a count that missed none has, at   *)
(* every turn of its loop, the positions of the keys it has passed.        *)
(***************************************************************************)
EXTENDS Cmap, FiniteSetTheorems, WellFoundedInduction, TLAPS

\* The positions of the keys up to a key.
PositionsTo(k) == {Position(key) : key \in {j \in keys : j <= k}}

\* Where the daemon is determines what its connection and its iteration are.
Connection ==
  /\ connected => up
  /\ connected => pc \notin {"init", "dead"}
  /\ connected /\ pc \in {"count", "loop"} => "nodelist" \in tracks
  /\ pc # "count" => iter = NewIteration

\* No position is counted twice, whatever happens to the keys meanwhile.
NoneTwice ==
  /\ iter.last = Position(iter.at)
  /\ iter.n <= Cardinality({p \in Positions : p <= iter.last})

\* Nothing is under way about the nodelist.
NothingMissed == connected /\ \A i \in 1..Len(queue) : queue[i] # "nodelist"

Counted ==
  /\ iter.at \in keys \cup {0}
  /\ iter.n = Cardinality(PositionsTo(iter.at))

NoneMissed ==
  NothingMissed => /\ pc = "count" => Counted
                   /\ pc = "loop" /\ ~ cut => g_node_count = NodeCount

IInv == TypeOK /\ Connection /\ NoneTwice /\ NoneMissed

-----------------------------------------------------------------------------
(* Keys and positions.                                                     *)

\* A set of numbers that has a member has a least one.
LEMMA SomeMin ==
  ASSUME NEW S \in SUBSET Nat, S # {}
  PROVE  Min(S) \in S /\ \A y \in S : Min(S) <= y
<1>1. \E x \in S : \A y \in S : ~ (<<y, x>> \in OpToRel(<, Nat))
  BY NatLessThanWellFounded, WFMin
<1>2. PICK x \in S : \A y \in S : ~ (<<y, x>> \in OpToRel(<, Nat))
  BY <1>1
<1>3. \A y \in S : x <= y
  <2> TAKE y \in S
  <2>1. ~ (y < x)
    BY <1>2 DEF OpToRel
  <2> QED BY <2>1
<1> QED BY <1>3 DEF Min

\* There are finitely many positions, and a set of them has at most as many.
LEMMA PositionsFinite ==
  /\ Positions \subseteq Nat \ {0}
  /\ IsFiniteSet(Positions)
  /\ \A S \in SUBSET Positions :
       /\ IsFiniteSet(S) /\ Cardinality(S) \in Nat
       /\ Cardinality(S) <= Cardinality(Positions)
<1>1. Positions \subseteq Nat \ {0} /\ IsFiniteSet(Positions)
  BY ConfigAssumption DEF Positions
<1>2. ASSUME NEW S \in SUBSET Positions
      PROVE  /\ IsFiniteSet(S) /\ Cardinality(S) \in Nat
             /\ Cardinality(S) <= Cardinality(Positions)
  BY <1>1, FS_Subset, FS_CardinalityType
<1> QED BY <1>1, <1>2

\* Every key has a position.
LEMMA KeyHasPosition ==
  \A key \in AllKeys : key \in Nat \ {0} /\ Position(key) \in Positions
<1> SUFFICES ASSUME NEW key \in AllKeys
             PROVE  key \in Nat \ {0} /\ Position(key) \in Positions
  OBVIOUS
<1>1. PICK config \in Configs : key \in KeysOf(config)
  BY DEF AllKeys
<1>2. PICK p \in config, i \in {0, 1} : key = 2 * p - i
  BY <1>1 DEF KeysOf
<1>3. p \in Nat /\ p # 0 /\ p \in Positions
  BY <1>1, <1>2, ConfigAssumption DEF Positions
<1>4. key \in Nat \ {0} /\ (key + 1) \div 2 = p
  BY <1>2, <1>3
<1> QED BY <1>3, <1>4 DEF Position

\* The order of the keys is one of their positions.
LEMMA PositionOrder ==
  /\ Position(0) = 0
  /\ \A j, k \in Nat : Position(j) \in Nat /\ (j <= k => Position(j) <= Position(k))
BY DEF Position

\* A nodelist has only keys of the model.
LEMMA TargetKeys ==
  ASSUME NEW config \in Configs
  PROVE  KeysOf(config) \subseteq AllKeys
BY DEF AllKeys

\* The positions up to a key are positions.
LEMMA PositionsToFinite ==
  ASSUME TypeOK, NEW k
  PROVE  PositionsTo(k) \subseteq Positions /\ IsFiniteSet(PositionsTo(k))
<1>1. PositionsTo(k) \subseteq Positions
  BY KeyHasPosition DEF TypeOK, PositionsTo
<1> QED BY <1>1, PositionsFinite

\* The next key of an iteration.
LEMMA NextKey ==
  ASSUME TypeOK, Following # {}
  PROVE  /\ Min(Following) \in keys /\ Min(Following) \in AllKeys
         /\ Min(Following) > iter.at
         /\ \A j \in keys : j > iter.at => j >= Min(Following)
<1>1. keys \subseteq Nat /\ iter.at \in Nat
  BY KeyHasPosition DEF TypeOK
<1>2. Following \in SUBSET Nat
  BY <1>1 DEF Following
<1>3. Min(Following) \in Following /\ \A y \in Following : Min(Following) <= y
  BY <1>2, SomeMin
<1> QED BY <1>1, <1>3 DEF Following, TypeOK

\* A turn of the loop adds the position of the next key, ...
LEMMA OnePositionMore ==
  ASSUME TypeOK, Following # {}
  PROVE  PositionsTo(Min(Following))
           = PositionsTo(iter.at) \cup {Position(Min(Following))}
<1> DEFINE key == Min(Following)
<1>1. /\ key \in keys /\ key > iter.at /\ key \in Nat
      /\ keys \subseteq Nat /\ iter.at \in Nat
      /\ \A j \in keys : j > iter.at => j >= key
  BY NextKey, KeyHasPosition DEF TypeOK
<1> HIDE DEF key
<1>2. \A j \in keys : j <= key <=> j <= iter.at \/ j = key
  BY <1>1
<1>3. {j \in keys : j <= key} = {j \in keys : j <= iter.at} \cup {key}
  BY <1>1, <1>2
<1> QED BY <1>3 DEF PositionsTo, key

\* ... which is a new one unless the key before has it as well.
LEMMA SamePosition ==
  ASSUME TypeOK, NoneTwice, Following # {}, iter.at \in keys \cup {0}
  PROVE  Position(Min(Following)) \in PositionsTo(iter.at)
           <=> Position(Min(Following)) = iter.last
<1> DEFINE key == Min(Following)
<1>1. /\ key \in keys /\ key > iter.at /\ key \in Nat
      /\ keys \subseteq Nat /\ iter.at \in Nat
  BY NextKey, KeyHasPosition DEF TypeOK
<1>2. key \in AllKeys
  BY NextKey
<1> HIDE DEF key
<1>3. Position(key) \in Positions
  BY <1>2, KeyHasPosition
<1>4. Position(key) \in Nat /\ Position(key) > 0 /\ iter.last = Position(iter.at)
  <2>1. iter.last = Position(iter.at)
    BY DEF NoneTwice
  <2>2. \A p \in Positions : p \in Nat /\ p > 0
    BY PositionsFinite
  <2>3. Position(key) \in Nat /\ Position(key) > 0
    BY <1>3, <2>2
  <2> QED BY <2>1, <2>3
<1>5. ASSUME Position(key) \in PositionsTo(iter.at) PROVE Position(key) = iter.last
  <2>1. PICK j \in keys : j <= iter.at /\ Position(j) = Position(key)
    BY <1>5 DEF PositionsTo
  <2>2. Position(j) <= Position(iter.at) /\ Position(iter.at) <= Position(key)
    BY <1>1, <2>1, PositionOrder
  <2>3. Position(iter.at) \in Nat
    BY <1>1, PositionOrder
  <2> QED BY <1>4, <2>1, <2>2, <2>3
<1>6. ASSUME Position(key) = iter.last PROVE Position(key) \in PositionsTo(iter.at)
  <2>1. iter.at # 0
    BY <1>4, <1>6, PositionOrder
  <2>2. iter.at \in {j \in keys : j <= iter.at}
    BY <1>1, <2>1
  <2> QED BY <1>4, <1>6, <2>2 DEF PositionsTo
<1> QED BY <1>5, <1>6 DEF key

-----------------------------------------------------------------------------
(* The steps.                                                              *)

\* An iteration that begins.
LEMMA TypeOfNew ==
  /\ NewIteration \in [at : AllKeys \cup {0}, last : Positions \cup {0},
                       n : 0..Cardinality(Positions)]
  /\ NewIteration.at = 0 /\ NewIteration.last = 0 /\ NewIteration.n = 0
<1>1. 0 \in 0..Cardinality(Positions)
  BY PositionsFinite
<1> QED BY <1>1 DEF NewIteration

\* An iteration that has not begun has counted nothing, which is right.
LEMMA NothingCounted ==
  TypeOK /\ iter = NewIteration => NoneTwice /\ Counted
<1> SUFFICES ASSUME TypeOK, iter = NewIteration
             PROVE  NoneTwice /\ Counted
  OBVIOUS
<1>1. iter.at = 0 /\ iter.last = 0 /\ iter.n = 0
  BY TypeOfNew
<1>2. {p \in Positions : p <= iter.last} \in SUBSET Positions
  OBVIOUS
<1>3. Cardinality({p \in Positions : p <= iter.last}) >= 0
  BY <1>2, PositionsFinite
<1>4. {j \in keys : j <= 0} = {}
  <2>1. \A j \in keys : j \in Nat \ {0}
    BY KeyHasPosition DEF TypeOK
  <2> QED BY <2>1
<1>5. PositionsTo(iter.at) = {}
  BY <1>1, <1>4 DEF PositionsTo
<1>6. NoneTwice
  BY <1>1, <1>3, PositionOrder DEF NoneTwice
<1>7. Counted
  BY <1>1, <1>5, FS_EmptySet DEF Counted
<1> QED BY <1>6, <1>7

\* The initial states satisfy the invariant.
LEMMA InitInvariant ==
  ASSUME Init
  PROVE  IInv
<1>1. TypeOK
  <2>1. iter \in [at : AllKeys \cup {0}, last : Positions \cup {0},
                  n : 0..Cardinality(Positions)]
        /\ g_node_count \in 0..Cardinality(Positions)
    BY TypeOfNew, PositionsFinite DEF Init
  <2>2. keys \subseteq AllKeys /\ target \in Configs
    BY TargetKeys DEF Init
  <2>3. {reloading, up, connected, polled, cmap_reload_in_progress, cut} \subseteq BOOLEAN
    BY DEF Init
  <2>4. /\ tracks \subseteq {"reload", "nodelist"}
        /\ queue \in Seq({"started", "ended", "nodelist"})
        /\ pc \in PC
    BY DEF Init, PC
  <2>5. changes \in 0..MaxChanges /\ losses \in 0..MaxLosses
    BY BoundAssumption DEF Init
  <2> QED BY <2>1, <2>2, <2>3, <2>4, <2>5 DEF TypeOK
<1>2. Connection
  BY DEF Init, Connection
<1>3. NoneTwice
  BY <1>1, NothingCounted DEF Init
<1>4. NoneMissed
  BY DEF Init, NoneMissed, NothingMissed
<1> QED BY <1>1, <1>2, <1>3, <1>4 DEF IInv

\* What a step that leaves the count alone has to show.
LEMMA CountKept ==
  ASSUME IInv, UNCHANGED iter
  PROVE  NoneTwice'
BY DEF IInv, NoneTwice

\* A notice at the end of the queue is in the queue.
LEMMA Queued ==
  ASSUME NEW q \in Seq({"started", "ended", "nodelist"}),
         NEW x \in {"started", "ended", "nodelist"}
  PROVE  /\ Append(q, x) \in Seq({"started", "ended", "nodelist"})
         /\ \E i \in 1..Len(Append(q, x)) : Append(q, x)[i] = x
         /\ \A i \in 1..Len(q) : i \in 1..Len(Append(q, x)) /\ Append(q, x)[i] = q[i]
<1>1. /\ Len(Append(q, x)) = Len(q) + 1 /\ Len(q) \in Nat
      /\ Append(q, x)[Len(q) + 1] = x
      /\ \A i \in 1..Len(q) : Append(q, x)[i] = q[i]
  OBVIOUS
<1>2. Len(q) + 1 \in 1..Len(Append(q, x))
  BY <1>1
<1>3. \A i \in 1..Len(q) : i \in 1..Len(Append(q, x))
  BY <1>1
<1> QED BY <1>1, <1>2, <1>3

\* Reading a notification that is not about the nodelist misses none that is.
LEMMA Dequeued ==
  ASSUME NEW q \in Seq({"started", "ended", "nodelist"}), q # <<>>
  PROVE  /\ Tail(q) \in Seq({"started", "ended", "nodelist"})
         /\ Head(q) # "nodelist" /\ (\A i \in 1..Len(Tail(q)) : Tail(q)[i] # "nodelist")
              => \A i \in 1..Len(q) : q[i] # "nodelist"
<1>1. /\ Len(q) \in Nat /\ Len(q) > 0 /\ Len(Tail(q)) = Len(q) - 1
      /\ \A i \in 1..Len(q) - 1 : Tail(q)[i] = q[i + 1]
      /\ Head(q) = q[1]
      /\ Tail(q) \in Seq({"started", "ended", "nodelist"})
  OBVIOUS
<1>2. ASSUME Head(q) # "nodelist", \A i \in 1..Len(Tail(q)) : Tail(q)[i] # "nodelist",
             NEW i \in 1..Len(q)
      PROVE  q[i] # "nodelist"
  <2>1. CASE i = 1
    BY <1>1, <1>2, <2>1
  <2>2. CASE i # 1
    <3>1. i - 1 \in 1..Len(Tail(q)) /\ Tail(q)[i - 1] = q[i]
      BY <1>1, <2>2
    <3> QED BY <1>2, <3>1
  <2> QED BY <2>1, <2>2
<1> QED BY <1>1, <1>2

\* A notice of a step neither undoes one that is under way, nor is lost if it is tracked.
LEMMA NotifyFacts ==
  ASSUME TypeOK, NEW track, NEW event \in {"started", "ended", "nodelist"},
         Notify(track, event), connected' = connected
  PROVE  /\ queue' \in Seq({"started", "ended", "nodelist"})
         /\ NothingMissed' => NothingMissed
         /\ NothingMissed' /\ event = "nodelist" => track \notin tracks
<1>1. queue \in Seq({"started", "ended", "nodelist"})
  BY DEF TypeOK
<1>2. CASE track \in tracks
  <2>1. queue' = Append(queue, event)
    BY <1>2 DEF Notify
  <2>2. /\ queue' \in Seq({"started", "ended", "nodelist"})
        /\ \E i \in 1..Len(queue') : queue'[i] = event
        /\ \A i \in 1..Len(queue) : i \in 1..Len(queue') /\ queue'[i] = queue[i]
    BY <1>1, <2>1, Queued
  <2>3. NothingMissed' => NothingMissed /\ event # "nodelist"
    BY <2>2 DEF NothingMissed
  <2> QED BY <2>2, <2>3
<1>3. CASE track \notin tracks
  BY <1>1, <1>3 DEF Notify, NothingMissed
<1> QED BY <1>2, <1>3

\* A count sees no edit before its first key is written.
LEMMA StepChangeNodelist ==
  ASSUME IInv, ChangeNodelist
  PROVE  IInv'
<1>1. PICK events \in {{}, {"started"}} :
           IF events = {} THEN UNCHANGED <<reloading, queue>>
                          ELSE reloading' = TRUE /\ Notify("reload", "started")
  BY DEF ChangeNodelist
<1>2. /\ queue' \in Seq({"started", "ended", "nodelist"})
      /\ NothingMissed' => NothingMissed
  <2>1. CASE events = {}
    BY <1>1, <2>1 DEF IInv, TypeOK, ChangeNodelist, NothingMissed
  <2>2. CASE events # {}
    BY <1>1, <2>2, NotifyFacts DEF IInv, ChangeNodelist
  <2> QED BY <2>1, <2>2
<1>3. TypeOK'
  <2>1. {reloading, up, connected, polled, cmap_reload_in_progress, cut}' \subseteq BOOLEAN
    BY DEF ChangeNodelist, IInv, TypeOK, countVars
  <2>2. changes' \in 0..MaxChanges /\ losses' \in 0..MaxLosses
    BY BoundAssumption DEF ChangeNodelist, IInv, TypeOK
  <2> QED BY <1>2, <2>1, <2>2 DEF ChangeNodelist, IInv, TypeOK, countVars
<1>4. Connection' /\ NoneTwice' /\ NoneMissed'
  BY <1>2 DEF ChangeNodelist, IInv, Connection, NoneTwice, NoneMissed, Counted, PositionsTo,
              NodeCount, countVars
<1> QED BY <1>3, <1>4 DEF IInv

\* A key that changes under a count leaves a notification behind it.
LEMMA StepChangeKey ==
  ASSUME IInv, ChangeKey
  PROVE  IInv'
<1>1. /\ queue' \in Seq({"started", "ended", "nodelist"})
      /\ NothingMissed' => "nodelist" \notin tracks
  BY NotifyFacts DEF IInv, ChangeKey
<1>2. keys' \subseteq AllKeys
  <2>1. keys \subseteq AllKeys /\ KeysOf(target) \subseteq AllKeys
    BY TargetKeys DEF IInv, TypeOK
  <2> QED BY <2>1 DEF ChangeKey
<1>3. TypeOK'
  <2>1. {reloading, up, connected, polled, cmap_reload_in_progress, cut}' \subseteq BOOLEAN
    BY DEF ChangeKey, IInv, TypeOK, countVars
  <2> QED BY <1>1, <1>2, <2>1 DEF ChangeKey, IInv, TypeOK, countVars
<1>4. Connection' /\ NoneTwice'
  BY DEF ChangeKey, IInv, Connection, NoneTwice, countVars
<1>5. NoneMissed'
  BY <1>1 DEF ChangeKey, IInv, Connection, NoneMissed, NothingMissed, countVars
<1> QED BY <1>3, <1>4, <1>5 DEF IInv

\* The end of a reload changes no key.
LEMMA StepEndReload ==
  ASSUME IInv, EndReload
  PROVE  IInv'
<1>1. /\ queue' \in Seq({"started", "ended", "nodelist"})
      /\ NothingMissed' => NothingMissed
  BY NotifyFacts DEF IInv, EndReload
<1>2. TypeOK'
  <2>1. {reloading, up, connected, polled, cmap_reload_in_progress, cut}' \subseteq BOOLEAN
    BY DEF EndReload, IInv, TypeOK, countVars
  <2> QED BY <1>1, <2>1 DEF EndReload, IInv, TypeOK, countVars
<1>3. Connection' /\ NoneTwice' /\ NoneMissed'
  BY <1>1 DEF EndReload, IInv, Connection, NoneTwice, NoneMissed, Counted, PositionsTo,
              NodeCount, countVars
<1> QED BY <1>2, <1>3 DEF IInv

\* Without a connection there is nothing to be right about.
LEMMA StepLoseCorosync ==
  ASSUME IInv, LoseCorosync
  PROVE  IInv'
<1>1. TypeOK'
  <2>1. {reloading, up, connected, polled, cmap_reload_in_progress, cut}' \subseteq BOOLEAN
    BY DEF LoseCorosync, IInv, TypeOK, countVars
  <2>2. changes' \in 0..MaxChanges /\ losses' \in 0..MaxLosses
    BY BoundAssumption DEF LoseCorosync, IInv, TypeOK
  <2>3. tracks' \subseteq {"reload", "nodelist"} /\ queue' \in Seq({"started", "ended", "nodelist"})
    BY DEF LoseCorosync
  <2> QED BY <2>1, <2>2, <2>3 DEF LoseCorosync, IInv, TypeOK, countVars
<1>2. Connection' /\ NoneTwice' /\ NoneMissed'
  BY DEF LoseCorosync, IInv, Connection, NoneTwice, NoneMissed, NothingMissed, countVars
<1> QED BY <1>1, <1>2 DEF IInv

\* A Corosync that comes back has no connection to the daemon.
LEMMA StepCorosyncStarts ==
  ASSUME IInv, CorosyncStarts
  PROVE  IInv'
<1>1. TypeOK'
  <2>1. {reloading, up, connected, polled, cmap_reload_in_progress, cut}' \subseteq BOOLEAN
    BY DEF CorosyncStarts, IInv, TypeOK, countVars
  <2>2. keys' \subseteq AllKeys /\ target' \in Configs
    BY TargetKeys DEF CorosyncStarts
  <2> QED BY <2>1, <2>2 DEF CorosyncStarts, IInv, TypeOK, countVars
<1>2. connected' = FALSE
  BY DEF CorosyncStarts, IInv, TypeOK, Connection
<1>3. Connection' /\ NoneTwice' /\ NoneMissed'
  BY <1>2 DEF CorosyncStarts, IInv, Connection, NoneTwice, NoneMissed, NothingMissed, countVars
<1> QED BY <1>1, <1>3 DEF IInv

\* A new connection has counted nothing.
LEMMA StepInitialize ==
  ASSUME IInv, Initialize
  PROVE  IInv'
<1>1. iter = NewIteration /\ connected = FALSE
  BY DEF Initialize, IInv, TypeOK, Connection
<1>2. TypeOK'
  <2>1. {reloading, up, connected, polled, cmap_reload_in_progress, cut}' \subseteq BOOLEAN
    BY DEF Initialize, corosyncVars, IInv, TypeOK, countVars
  <2>2. tracks' \subseteq {"reload", "nodelist"} /\ pc' \in PC
    BY DEF Initialize, IInv, TypeOK, PC
  <2> QED BY <2>1, <2>2 DEF Initialize, corosyncVars, IInv, TypeOK, countVars
<1>3. Connection' /\ NoneTwice' /\ NoneMissed'
  BY <1>1 DEF Initialize, corosyncVars, IInv, Connection, NoneTwice, NoneMissed, NothingMissed,
              countVars
<1> QED BY <1>2, <1>3 DEF IInv

\* From here on changes are notified, and the count begins.
LEMMA StepTrackNodelist ==
  ASSUME IInv, TrackNodelist
  PROVE  IInv'
<1>1. iter' = NewIteration
  BY DEF TrackNodelist, IInv, Connection
<1>2. TypeOK'
  <2>1. {reloading, up, connected, polled, cmap_reload_in_progress, cut}' \subseteq BOOLEAN
    BY DEF TrackNodelist, corosyncVars, IInv, TypeOK
  <2>2. tracks' \subseteq {"reload", "nodelist"} /\ pc' \in PC
    BY DEF TrackNodelist, IInv, TypeOK, PC
  <2> QED BY <1>1, <2>1, <2>2, TypeOfNew DEF TrackNodelist, corosyncVars, IInv, TypeOK
<1>3. NoneTwice' /\ Counted'
  <2>1. (TypeOK /\ iter = NewIteration)' => (NoneTwice /\ Counted)'
    BY NothingCounted, PTL
  <2>2. NewIteration' = NewIteration
    BY DEF NewIteration
  <2> QED BY <1>1, <1>2, <2>1, <2>2
<1>4. Connection' /\ NoneMissed'
  BY <1>1, <1>3 DEF TrackNodelist, corosyncVars, IInv, Connection, NoneMissed, NothingMissed
<1> QED BY <1>2, <1>3, <1>4 DEF IInv

\* One turn of the loop.
LEMMA StepCountKey ==
  ASSUME IInv, CountKey
  PROVE  IInv'
<1> DEFINE key == Min(Following)
           n == IF Position(key) = iter.last THEN iter.n ELSE iter.n + 1
           upto == {p \in Positions : p <= iter.last}
           next == {p \in Positions : p <= Position(key)}
<1>0. TypeOK /\ Connection /\ NoneTwice /\ NoneMissed /\ Following # {}
  BY DEF IInv, CountKey
<1>1. iter' = [at |-> key, last |-> Position(key), n |-> n]
  BY DEF CountKey
<1>2. /\ key \in keys /\ key \in AllKeys /\ key > iter.at /\ key \in Nat /\ key # 0
      /\ iter.at \in Nat
  BY <1>0, NextKey, KeyHasPosition DEF TypeOK
<1>3. Position(key) \in Positions /\ Position(key) \in Nat
  BY <1>2, KeyHasPosition, PositionOrder
<1>4. iter.last = Position(iter.at) /\ iter.last \in Nat /\ iter.last <= Position(key)
  <2>1. iter.last = Position(iter.at)
    BY <1>0 DEF NoneTwice
  <2>2. Position(iter.at) \in Nat /\ Position(iter.at) <= Position(key)
    BY <1>2, PositionOrder
  <2> QED BY <2>1, <2>2
<1>5. iter.n \in Nat
  BY <1>0, PositionsFinite DEF TypeOK
<1> HIDE DEF key
<1>6. n \in Nat /\ n <= Cardinality(next)
  <2>0. \A p \in Positions : p \in Nat
    BY PositionsFinite
  <2>1. upto \in SUBSET Positions /\ next \in SUBSET Positions
    OBVIOUS
  <2>2. /\ IsFiniteSet(upto) /\ IsFiniteSet(next)
        /\ Cardinality(upto) \in Nat /\ Cardinality(next) \in Nat
    BY <2>1, PositionsFinite
  <2>3. iter.n <= Cardinality(upto)
    BY <1>0 DEF NoneTwice
  <2>4. CASE Position(key) = iter.last
    BY <1>5, <2>3, <2>4
  <2>5. CASE Position(key) # iter.last
    <3>1. Position(key) \notin upto
      BY <1>3, <1>4, <2>5
    <3>2. upto \cup {Position(key)} \subseteq next
      BY <1>3, <1>4, <2>0
    <3>3. Cardinality(upto \cup {Position(key)}) = Cardinality(upto) + 1
      BY <2>2, <3>1, FS_AddElement
    <3>4. Cardinality(upto \cup {Position(key)}) <= Cardinality(next)
      BY <2>2, <3>2, FS_Subset
    <3> HIDE DEF upto, next
    <3> QED BY <1>5, <2>2, <2>3, <2>5, <3>3, <3>4
  <2> QED BY <2>4, <2>5
<1>7. n \in 0..Cardinality(Positions)
  <2>1. next \in SUBSET Positions
    OBVIOUS
  <2>2. /\ Cardinality(next) \in Nat /\ Cardinality(next) <= Cardinality(Positions)
        /\ Cardinality(Positions) \in Nat
    BY <2>1, PositionsFinite
  <2> HIDE DEF next, n
  <2> QED BY <1>6, <2>2
<1> HIDE DEF n
<1>8. TypeOK'
  <2>1. {reloading, up, connected, polled, cmap_reload_in_progress, cut}' \subseteq BOOLEAN
    BY DEF CountKey, corosyncVars, IInv, TypeOK
  <2>2. iter' \in [at : AllKeys \cup {0}, last : Positions \cup {0},
                   n : 0..Cardinality(Positions)]
    BY <1>1, <1>2, <1>3, <1>7
  <2> QED BY <1>0, <2>1, <2>2 DEF CountKey, corosyncVars, TypeOK
<1>9. Connection'
  BY <1>0 DEF CountKey, corosyncVars, Connection
<1>10. NoneTwice'
  BY <1>1, <1>6 DEF NoneTwice
<1>11. NoneMissed'
  <2>1. SUFFICES ASSUME NothingMissed' PROVE Counted'
    BY DEF NoneMissed, CountKey
  <2>2. iter.at \in keys \cup {0} /\ iter.n = Cardinality(PositionsTo(iter.at))
    BY <1>0, <2>1 DEF NoneMissed, NothingMissed, Counted, CountKey, corosyncVars
  <2>3. PositionsTo(key) = PositionsTo(iter.at) \cup {Position(key)}
    BY <1>0, OnePositionMore DEF key
  <2>4. Position(key) \in PositionsTo(iter.at) <=> Position(key) = iter.last
    BY <1>0, <2>2, SamePosition DEF key
  <2>5. IsFiniteSet(PositionsTo(iter.at))
    BY <1>0, PositionsToFinite
  <2>6. n = Cardinality(PositionsTo(key))
    BY <2>2, <2>3, <2>4, <2>5, FS_AddElement DEF n
  <2>8. iter'.at = key /\ iter'.n = n /\ keys' = keys
    BY <1>1 DEF CountKey, corosyncVars
  <2>9. Cardinality({Position(j) : j \in {i \in keys' : i <= iter'.at}}) = n
    BY <2>6, <2>8 DEF PositionsTo
  <2> QED BY <1>2, <2>8, <2>9 DEF Counted, PositionsTo
<1> QED BY <1>8, <1>9, <1>10, <1>11 DEF IInv

\* The loop has passed every key, or the connection has broken.
LEMMA StepCountDone ==
  ASSUME IInv, CountDone
  PROVE  IInv'
<1>1. iter' = NewIteration
  BY DEF CountDone
<1>2. TypeOK'
  <2>1. {reloading, up, connected, polled, cmap_reload_in_progress, cut}' \subseteq BOOLEAN
    BY DEF CountDone, corosyncVars, IInv, TypeOK
  <2>2. pc' \in PC /\ g_node_count' \in 0..Cardinality(Positions)
    BY DEF CountDone, IInv, TypeOK, PC
  <2> QED BY <1>1, <2>1, <2>2, TypeOfNew DEF CountDone, corosyncVars, IInv, TypeOK
<1>3. NoneTwice'
  <2>1. (TypeOK /\ iter = NewIteration)' => (NoneTwice /\ Counted)'
    BY NothingCounted, PTL
  <2>2. NewIteration' = NewIteration
    BY DEF NewIteration
  <2> QED BY <1>1, <1>2, <2>1, <2>2
<1>4. Connection'
  BY DEF CountDone, corosyncVars, IInv, Connection, NewIteration
<1>5. NoneMissed'
  <2>1. SUFFICES ASSUME NothingMissed' PROVE g_node_count' = NodeCount'
    BY DEF NoneMissed, CountDone
  <2>2. /\ iter.n = Cardinality(PositionsTo(iter.at))
        /\ Following = {}
    BY <2>1 DEF IInv, NoneMissed, NothingMissed, Counted, CountDone, corosyncVars
  <2>3. {j \in keys : j <= iter.at} = keys
    <3>1. \A j \in keys : j \in Nat /\ iter.at \in Nat
      BY KeyHasPosition DEF IInv, TypeOK
    <3> QED BY <2>2, <3>1 DEF Following
  <2>4. iter.n = NodeCount
    BY <2>2, <2>3 DEF PositionsTo, NodeCount
  <2>5. keys' = keys /\ g_node_count' = iter.n
    BY DEF CountDone, corosyncVars
  <2> QED BY <2>4, <2>5 DEF NodeCount
<1> QED BY <1>2, <1>3, <1>4, <1>5 DEF IInv

\* A count that broke off promises nothing.
LEMMA StepCountBreaksOff ==
  ASSUME IInv, CountBreaksOff
  PROVE  IInv'
<1>1. iter' = NewIteration /\ pc' = "loop" /\ cut' = TRUE
  BY DEF CountBreaksOff
<1>2. TypeOK'
  <2>1. {reloading, up, connected, polled, cmap_reload_in_progress, cut}' \subseteq BOOLEAN
    BY DEF CountBreaksOff, corosyncVars, IInv, TypeOK
  <2>2. pc' \in PC /\ g_node_count' \in 0..Cardinality(Positions) /\ losses' \in 0..MaxLosses
    BY BoundAssumption DEF CountBreaksOff, IInv, TypeOK, PC
  <2> QED BY <1>1, <2>1, <2>2, TypeOfNew DEF CountBreaksOff, corosyncVars, IInv, TypeOK
<1>3. NoneTwice'
  <2>1. (TypeOK /\ iter = NewIteration)' => (NoneTwice /\ Counted)'
    BY NothingCounted, PTL
  <2>2. NewIteration' = NewIteration
    BY DEF NewIteration
  <2> QED BY <1>1, <1>2, <2>1, <2>2
<1>4. Connection' /\ NoneMissed'
  BY <1>1 DEF CountBreaksOff, corosyncVars, IInv, Connection, NewIteration, NoneMissed
<1> QED BY <1>2, <1>3, <1>4 DEF IInv

\* Reading a notice of a reload leaves the notices of the nodelist in the queue.
LEMMA ReceiveFacts ==
  ASSUME IInv, NEW event \in {"started", "ended", "nodelist"}, Receive(event),
         connected' = connected
  PROVE  /\ pc = "loop" /\ iter = NewIteration
         /\ queue' \in Seq({"started", "ended", "nodelist"})
         /\ event # "nodelist" /\ NothingMissed' => NothingMissed
<1>1. queue \in Seq({"started", "ended", "nodelist"}) /\ queue # <<>>
  BY DEF IInv, TypeOK, Receive
<1>2. queue' = Tail(queue) /\ Head(queue) = event
  BY DEF Receive
<1>3. queue' \in Seq({"started", "ended", "nodelist"})
  BY <1>1, <1>2, Dequeued
<1>4. event # "nodelist" /\ NothingMissed' => NothingMissed
  BY <1>1, <1>2, Dequeued DEF NothingMissed
<1> QED BY <1>3, <1>4 DEF IInv, Connection, Receive

\* After a notice of a reload the old count is right, or a new one begins, ...
LEMMA StepReloadCb ==
  ASSUME IInv, qdisk_cmap_reload_cb
  PROVE  IInv'
<1>0. TypeOK /\ Connection /\ NoneTwice /\ NoneMissed
  BY DEF IInv
<1>1. /\ pc = "loop" /\ iter = NewIteration
      /\ queue' \in Seq({"started", "ended", "nodelist"})
      /\ NothingMissed' => NothingMissed
  BY ReceiveFacts DEF qdisk_cmap_reload_cb
<1>2. /\ pc' \in {"loop", "count"} /\ cmap_reload_in_progress' \in BOOLEAN
  BY <1>1 DEF qdisk_cmap_reload_cb
<1>3. TypeOK'
  <2>1. {reloading, up, connected, polled, cmap_reload_in_progress, cut}' \subseteq BOOLEAN
    BY <1>2 DEF qdisk_cmap_reload_cb, corosyncVars, IInv, TypeOK, countVars
  <2> QED BY <1>0, <1>1, <1>2, <2>1 DEF qdisk_cmap_reload_cb, corosyncVars, countVars, TypeOK, PC
<1>4. NoneTwice' /\ Counted
  BY <1>0, <1>1, NothingCounted DEF qdisk_cmap_reload_cb, countVars, NoneTwice
<1>5. Connection'
  BY <1>0, <1>1, <1>2 DEF qdisk_cmap_reload_cb, corosyncVars, countVars, Connection
<1>6. NoneMissed'
  BY <1>0, <1>1, <1>2, <1>4
     DEF qdisk_cmap_reload_cb, corosyncVars, countVars, NoneMissed, Counted, PositionsTo, NodeCount
<1> QED BY <1>3, <1>4, <1>5, <1>6 DEF IInv

\* ... and after one of the nodelist a new one begins.
LEMMA StepNodelistCb ==
  ASSUME IInv, qdisk_cmap_nodelist_cb
  PROVE  IInv'
<1>0. TypeOK /\ Connection /\ NoneTwice /\ NoneMissed
  BY DEF IInv
<1>1. /\ pc = "loop" /\ iter = NewIteration
      /\ queue' \in Seq({"started", "ended", "nodelist"})
  BY ReceiveFacts DEF qdisk_cmap_nodelist_cb
<1>2. TypeOK'
  <2>1. {reloading, up, connected, polled, cmap_reload_in_progress, cut}' \subseteq BOOLEAN
    BY DEF qdisk_cmap_nodelist_cb, corosyncVars, IInv, TypeOK, countVars
  <2> QED BY <1>0, <1>1, <2>1
       DEF qdisk_cmap_nodelist_cb, corosyncVars, countVars, TypeOK, PC
<1>3. NoneTwice' /\ Counted
  BY <1>0, <1>1, NothingCounted DEF qdisk_cmap_nodelist_cb, countVars, NoneTwice
<1>4. Connection'
  BY <1>0, <1>1 DEF qdisk_cmap_nodelist_cb, corosyncVars, countVars, Connection
<1>5. NoneMissed'
  BY <1>3 DEF qdisk_cmap_nodelist_cb, corosyncVars, countVars, NoneMissed, Counted, PositionsTo
<1> QED BY <1>2, <1>3, <1>4, <1>5 DEF IInv

\* The daemon gives up what it had of the old connection.
LEMMA StepReconnect ==
  ASSUME IInv, Reconnect
  PROVE  IInv'
<1>1. connected = FALSE
  BY DEF Reconnect, IInv, TypeOK
<1>2. TypeOK'
  <2>1. {reloading, up, connected, polled, cmap_reload_in_progress, cut}' \subseteq BOOLEAN
    BY DEF Reconnect, corosyncVars, IInv, TypeOK, countVars
  <2> QED BY <2>1 DEF Reconnect, corosyncVars, countVars, IInv, TypeOK, PC
<1>3. Connection' /\ NoneTwice' /\ NoneMissed'
  BY <1>1 DEF Reconnect, corosyncVars, countVars, IInv, Connection, NoneTwice, NoneMissed,
              NothingMissed
<1> QED BY <1>2, <1>3 DEF IInv

\* So does a process that starts again.
LEMMA StepRestart ==
  ASSUME IInv, Restart
  PROVE  IInv'
<1>1. TypeOK'
  <2>1. {reloading, up, connected, polled, cmap_reload_in_progress, cut}' \subseteq BOOLEAN
    BY DEF Restart, corosyncVars, IInv, TypeOK
  <2>2. 0 \in 0..Cardinality(Positions)
    BY PositionsFinite
  <2>3. tracks' \subseteq {"reload", "nodelist"} /\ queue' \in Seq({"started", "ended", "nodelist"})
    BY DEF Restart
  <2> QED BY <2>1, <2>2, <2>3 DEF Restart, corosyncVars, IInv, TypeOK, PC
<1>2. Connection' /\ NoneTwice' /\ NoneMissed'
  BY DEF Restart, corosyncVars, IInv, Connection, NoneTwice, NoneMissed, NothingMissed
<1> QED BY <1>1, <1>2 DEF IInv

\* A step of nothing keeps the invariant.
LEMMA StutterInvariant ==
  ASSUME IInv, UNCHANGED vars
  PROVE  IInv'
<1>1. TypeOK'
  BY DEF vars, IInv, TypeOK
<1>2. Connection' /\ NoneTwice' /\ NoneMissed'
  BY DEF vars, IInv, Connection, NoneTwice, NoneMissed, NothingMissed, Counted, PositionsTo,
         NodeCount
<1> QED BY <1>1, <1>2 DEF IInv

-----------------------------------------------------------------------------
\* The invariant holds for every set of nodelists, and every number of edits, and of
\* times corosync goes away or fails a call.
THEOREM Invariance == Spec => []IInv
<1>1. IInv /\ [Next]_vars => IInv'
  BY StepInitialize, StepTrackNodelist, StepCountKey, StepCountDone, StepReloadCb,
     StepNodelistCb, StepReconnect, StepCountBreaksOff, StepRestart, StepChangeNodelist,
     StepChangeKey, StepEndReload, StepLoseCorosync, StepCorosyncStarts, StutterInvariant
     DEF Next, DaemonStep, CorosyncStep, update_node_count
<1> QED BY InitInvariant, <1>1, PTL DEF Spec

\* Every variable keeps its type: no count is ever above the number of positions there are,
\* though a count may see keys of several nodelists.
THEOREM TypeCorrect == Spec => []TypeOK
<1>1. IInv => TypeOK
  BY DEF IInv
<1> QED BY Invariance, <1>1, PTL

\* A daemon of cmap.c that has read every notification has the number of nodes of the nodelist,
\* unless its last count broke off.
THEOREM CountCurrent == Spec => []CountIsCurrent
<1>1. IInv => CountIsCurrent
  BY DEF IInv, NoneMissed, NothingMissed, CountIsCurrent
<1> QED BY Invariance, <1>1, PTL
================================================================================
