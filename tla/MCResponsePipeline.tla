------------------------- MODULE MCResponsePipeline -------------------------
(* ResponsePipeline for TLC: responses of a few tokens of all kinds.        *)
EXTENDS ResponsePipeline

MCTokenKinds == Kinds
=============================================================================
