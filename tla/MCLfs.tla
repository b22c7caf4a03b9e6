------------------------------- MODULE MCLfs -------------------------------
(* Instances of XinuLfs for TLC. *)
EXTENDS XinuLfs, TLC

MCWrites == {<<0>>, <<1, 0, 1>>}
Symmetry == Permutations(Procs) \cup Permutations(Names)
=============================================================================
