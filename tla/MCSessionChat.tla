---------------------------- MODULE MCSessionChat ----------------------------
(***************************************************************************)
(* SessionChat with the limit and the window of the code.                  *)
(***************************************************************************)
EXTENDS SessionChat, TLC

Symmetry == Permutations(Requests)
==============================================================================
