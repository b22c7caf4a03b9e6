------------------------------- MODULE MCMem -------------------------------
(* Instances of XinuPool for TLC. *)
EXTENDS XinuPool, TLC

ProcSymmetry == Permutations(Procs)
=============================================================================
