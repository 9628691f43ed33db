---------------------------- MODULE MCChatHistory ----------------------------
(***************************************************************************)
(* ChatHistory with a few threads.  Locks are interchangeable; symmetry is *)
(* used only where no liveness is checked.                                 *)
(***************************************************************************)
EXTENDS ChatHistory, TLC

Symmetry == Permutations(Locks) \cup Permutations(Storers)
==============================================================================
