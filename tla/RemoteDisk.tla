----------------------------- MODULE RemoteDisk -----------------------------
(***************************************************************************)
(* What the remote disk driver promises its callers: a disk whose blocks   *)
(* are read and written at once, whatever cache, queue, network and server *)
(* are behind it.                                                          *)
(***************************************************************************)
CONSTANTS Procs, Blocks, Data, None

VARIABLES
    contents,   \* what was written last to each block
    returned    \* the block each process read last, until it is written

Init ==
    /\ contents \in [Blocks -> Data]
    /\ returned = [p \in Procs |-> None]

Read(p, blk) ==
    /\ returned' = [returned EXCEPT ![p] = [blk |-> blk, data |-> contents[blk]]]
    /\ UNCHANGED contents

(* What was read of the block before is forgotten, so that reading it once *)
(* more is a step.                                                         *)
Write(blk, data) ==
    /\ contents' = [contents EXCEPT ![blk] = data]
    /\ returned' = [p \in Procs |-> IF returned[p] # None /\ returned[p].blk = blk THEN None ELSE returned[p]]

Next ==
    \E blk \in Blocks :
        \/ \E p \in Procs : Read(p, blk)
        \/ \E data \in Data : Write(blk, data)

Spec == Init /\ [][Next]_<<contents, returned>>
=============================================================================
