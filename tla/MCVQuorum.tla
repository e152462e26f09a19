-------------------------------- MODULE MCVQuorum -------------------------------
(***************************************************************************)
(* VQuorum on a cluster of two, whole or split.                            *)
(***************************************************************************)
EXTENDS VQuorum

CONSTANTS a, b

Two == {a, b}

TwoLayouts == {[n \in Two |-> Two], [n \in Two |-> {n}]}
================================================================================
