--------------------------- MODULE MCLive2DClient ---------------------------
(***************************************************************************)
(* Live2DClient with a few turns.                                          *)
(***************************************************************************)
EXTENDS Live2DClient

MCTurns == 1 .. MaxTurns

\* All turns say the same.
MCTextOf == [t \in MCTurns |-> 1]
==============================================================================
