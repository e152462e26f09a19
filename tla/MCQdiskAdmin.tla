----------------------------- MODULE MCQdiskAdmin ------------------------------
(***************************************************************************)
(* QdiskAdmin on a cluster of two that starts at rest.                     *)
(***************************************************************************)
EXTENDS QdiskAdmin, MCQdisk

RestAdminInit == RestInit /\ tool = NoAbort /\ commands = 0 /\ breaks = 0

FairRestAdminSpec ==
  RestAdminInit /\ [][AdminNext]_adminVars /\ AdminFairness
================================================================================
