------------------------ MODULE MCDivinationSession ------------------------
(***************************************************************************)
(* DivinationSession with a few concurrent requests, two fortunes, two     *)
(* questions and two lists of categories, each of them interchangeable.    *)
(***************************************************************************)
EXTENDS DivinationSession, TLC

Symmetry ==
    Permutations(Requests) \cup Permutations(Fortunes)
        \cup Permutations(Questions) \cup Permutations(Categories)
============================================================================
