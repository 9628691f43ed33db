------------------------- MODULE MCSessionOwnership -------------------------
(* SessionOwnership for TLC.                                                *)
EXTENDS SessionOwnership, TLC

Symmetry == Permutations(Users) \cup Permutations(Requests) \cup Permutations(Records)
=============================================================================
