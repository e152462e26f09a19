--------------------------------- MODULE MCCmap --------------------------------
(***************************************************************************)
(* Cmap with nodelists of one, two and three positions.                    *)
(***************************************************************************)
EXTENDS Cmap

SmallConfigs == {{1}, {2, 3}, {1, 2, 3}}
================================================================================
