------------------------------- MODULE Tiebreaker ------------------------------
(***************************************************************************)
(* What the disk promises the cluster: a lock that survives its owner.     *)
(* Design.md: "when multiple hosts race to aquire an exclusive reservation *)
(* only one will actually do so", and "only the node holding the disk      *)
(* reservation should every be in the HAVE_QDISK state".                   *)
(*                                                                         *)
(* A node acquires a free lock, may then win the tie with it, and must     *)
(* stop winning before the lock is let go; a winner that dies leaves the   *)
(* lock taken.                                                             *)
(***************************************************************************)
CONSTANTS Node, None
VARIABLES owner,    \* the node that has the lock, or None
          winners   \* the nodes that act as the winner of the tie

Init == owner = None /\ winners = {}

\* A node takes the free lock; it need not know yet that it did.
Acquire(n) ==
  /\ owner = None
  /\ owner' = n
  /\ winners' \in {{}, {n}}

\* The owner learns that the lock is its own.
Win(n) ==
  /\ owner = n
  /\ winners' = {n}
  /\ UNCHANGED owner

\* The winner stops winning: it gives up, stops or dies.
Resign(n) ==
  /\ n \in winners
  /\ winners' = winners \ {n}
  /\ UNCHANGED owner

\* The owner lets the lock go, which no winner does.
LetGo(n) ==
  /\ owner = n
  /\ n \notin winners
  /\ owner' = None
  /\ UNCHANGED winners

Next == \E n \in Node : Acquire(n) \/ Win(n) \/ Resign(n) \/ LetGo(n)

Spec == Init /\ [][Next]_<<owner, winners>>

\* Nobody wins without the lock, so at most one node wins.
OneWinner == winners \subseteq {owner} \ {None}
================================================================================
