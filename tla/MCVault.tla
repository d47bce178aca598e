------------------------------ MODULE MCVault ------------------------------
(* Instances of Vault for TLC. *)
EXTENDS Vault, TLC

CONSTANTS pw1, pw2, r1, r2

TwoPasswords == {pw1, pw2}

Symmetry == Permutations(TwoPasswords)
=============================================================================
