-------------------------------- MODULE MCQdisk --------------------------------
(***************************************************************************)
(* Qdisk on small clusters: two members, both with a daemon, and four      *)
(* or three members, of which two or three run one.                        *)
(***************************************************************************)
EXTENDS Qdisk, TLC

CONSTANTS a, b, c, d

Layout(partition) == [n \in Node |-> CHOOSE C \in partition : n \in C]

Two == {a, b}
TwoLayouts == {Layout({Two}), Layout({{a}, {b}})}

Four == {a, b, c, d}
AB == {a, b}
ABC == {a, b, c}

(* A split in halves, or a node alone.                                      *)
OneSplit == {Layout({Four}), Layout({{a, b}, {c, d}})}
AloneOrWhole == OneSplit \cup {Layout({{a}, {b, c, d}})}

(* Three members: all, each alone, and two against one.                     *)
OddLayouts == {Layout({ABC}), Layout({{a}, {b}, {c}}), Layout({{a, b}, {c}})}

Symmetry == Permutations(Daemon)

FairRestSpec == RestSpec /\ Fairness

(* Two members after a split: a has won, b has resigned.                    *)
Won == [AtRest EXCEPT !.state = "HAVE_QDISK", !.late = TRUE, !.view = {a}]
Lost == [AtRest EXCEPT !.state = "RESIGNED", !.late = TRUE, !.view = {b},
                       !.quorate = FALSE]

TieInit ==
  /\ registered = Two
  /\ holder = a
  /\ network = Layout({{a}, {b}})
  /\ proc = [n \in Two |-> IF n = a THEN Won ELSE Lost]
  /\ shared = Two
  /\ vote = [n \in Two |-> n = a]
  /\ changes = 0
  /\ faults = 0

FairRestOrTieSpec == (RestInit \/ TieInit) /\ [][Next]_vars /\ Fairness
================================================================================
