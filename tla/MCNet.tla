------------------------------- MODULE MCNet -------------------------------
(* Instances of XinuNet for TLC. *)
EXTENDS XinuNet, TLC

ProcSymmetry == Permutations(Procs)
=============================================================================
