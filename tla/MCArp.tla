------------------------------- MODULE MCArp -------------------------------
(* Instances of XinuArp for TLC. *)
EXTENDS XinuArp

=============================================================================
