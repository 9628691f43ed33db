---------------------------- MODULE MCTTSDelivery ----------------------------
(***************************************************************************)
(* TTSDelivery with a few sentences.                                       *)
(***************************************************************************)
EXTENDS TTSDelivery
==============================================================================
