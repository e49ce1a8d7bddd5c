---------------------------- MODULE MCEgoPlanning ----------------------------
(***************************************************************************)
(* Goals are compared and never told apart, so that they may be permuted.  *)
(* Used for safety only.                                                   *)
(***************************************************************************)
EXTENDS EgoPlanning, TLC
Symmetry == Permutations(Goal)
=============================================================================
