----------------------------- MODULE MCReversal -----------------------------
(* Instances of Reversal for TLC. *)
EXTENDS Reversal
=============================================================================
