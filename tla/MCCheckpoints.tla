---- MODULE MCCheckpoints ----
(***************************************************************************)
(* Instances of Checkpoints for TLC.                                       *)
(***************************************************************************)
EXTENDS Checkpoints, TLC

Symmetry == Permutations(Files) \cup Permutations(Contents)
====
