----------------------------- MODULE BreakableLock -----------------------------
(***************************************************************************)
(* What the disk promises when others write to it in the daemons' names:   *)
(* the lock of Tiebreaker, except that a break may take it from its owner  *)
(* or give it to anyone, without asking.  A winner whose lock was broken   *)
(* goes on until it finds out.  Breaks are counted, and that is all that   *)
(* is needed to bound how many winners there are beside the owner.         *)
(***************************************************************************)
EXTENDS Integers

CONSTANTS Node, None

VARIABLES owner,    \* the node that has the lock, or None
          winners,  \* the nodes that act as the winner of the tie
          breaks    \* how often the lock was broken

Init == owner = None /\ winners = {} /\ breaks = 0

\* A node takes the free lock; it need not know yet that it did.
Acquire(n) ==
  /\ owner = None
  /\ owner' = n
  /\ winners' \in {winners, winners \cup {n}}
  /\ UNCHANGED breaks

\* The owner, and only the owner, learns that the lock is its own.
Win(n) ==
  /\ owner = n
  /\ winners' = winners \cup {n}
  /\ UNCHANGED <<owner, breaks>>

\* A winner stops winning, whether it has the lock still or not.
Resign(n) ==
  /\ n \in winners
  /\ winners' = winners \ {n}
  /\ UNCHANGED <<owner, breaks>>

\* The owner lets the lock go, which no winner does.
LetGo(n) ==
  /\ owner = n
  /\ n \notin winners
  /\ owner' = None
  /\ UNCHANGED <<winners, breaks>>

\* The lock changes hands without its owner.
Break ==
  /\ breaks' = breaks + 1
  /\ owner' \in (Node \cup {None}) \ {owner}
  /\ UNCHANGED winners

Next ==
  \/ \E n \in Node : Acquire(n) \/ Win(n) \/ Resign(n) \/ LetGo(n)
  \/ Break

Spec == Init /\ [][Next]_<<owner, winners, breaks>>
================================================================================
