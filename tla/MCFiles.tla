------------------------------ MODULE MCFiles ------------------------------
(* Instances of Files for TLC. *)
EXTENDS Files, TLC

CONSTANTS v1, v2

TwoValues == {v1, v2}
Symmetry == Permutations(TwoValues)
=============================================================================
