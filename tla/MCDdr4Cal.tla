----------------------------- MODULE MCDdr4Cal -----------------------------
(* Two channels for TLC: they are interchangeable.                         *)
EXTENDS Ddr4Cal, TLC
Interchangeable == Permutations(Channel)

(* Nobody but the script raises the level.                                 *)
ScriptAlone == pc \in {"off", "calib", "fresh"} => ~vio_start
=============================================================================
