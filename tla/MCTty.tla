------------------------------- MODULE MCTty -------------------------------
(* Instances of XinuTty for TLC. *)
EXTENDS XinuTty, TLC

(* Nothing tells the processes apart. *)
ProcSymmetry == Permutations(Procs)
=============================================================================
