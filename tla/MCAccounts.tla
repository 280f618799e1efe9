----------------------------- MODULE MCAccounts -----------------------------
(* Instances of AccountLinks for TLC. *)
EXTENDS AccountLinks, TLC

Symmetry == Permutations(Requests)
=============================================================================
