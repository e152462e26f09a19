-------------------------------- MODULE MCDevice -------------------------------
(***************************************************************************)
(* Device with a host that has its own key and one of an earlier life.     *)
(***************************************************************************)
EXTENDS Device

CONSTANTS host, old

TwoKeys == {host, old}

BothKinds == {"nvme", "scsi"}
================================================================================
