---------------------------- MODULE MCSelection ----------------------------
(***************************************************************************)
(* Instances of Selection for TLC. Backends are numbers that the code      *)
(* computes with, so only the workers are symmetric.                       *)
(***************************************************************************)
EXTENDS Selection, TLC

Symmetry == Permutations(Workers)
=============================================================================
