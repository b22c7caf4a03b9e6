------------------------------- MODULE MCRds -------------------------------
(* Instances of XinuRds for TLC. *)
EXTENDS XinuRds, TLC

(* Both processes use block 1, and one of them block 2 as well. *)
OneShared == [p \in Procs |-> IF p = CHOOSE q \in Procs : TRUE THEN {1} ELSE Blocks]
AllBlocks == [p \in Procs |-> Blocks]

(* The data are interchangeable: what block 1 holds at the start stands    *)
(* for the others.                                                         *)
MCRdsInit == RdsInit /\ disk[1] = CHOOSE d \in Data : TRUE
MCRdsSpec == MCRdsInit /\ [][RdsNext]_vars /\ Fairness
=============================================================================
