------------------------------- MODULE MCEth -------------------------------
(* Instances of XinuEth for TLC. *)
EXTENDS XinuEth
=============================================================================
