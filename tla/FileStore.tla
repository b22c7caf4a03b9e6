----------------------------- MODULE FileStore -----------------------------
(***************************************************************************)
(* What the local file system promises its callers: files that are         *)
(* sequences of bytes, read and written at the position of a descriptor.   *)
(***************************************************************************)
EXTENDS Naturals, Sequences

CONSTANTS Names, Slots, Bytes, EOF, Closed

VARIABLES
    contents,   \* the bytes of each file
    opened,     \* the file and the position of each descriptor
    returned    \* what was read last through each descriptor

Init ==
    /\ contents = [n \in Names |-> <<>>]
    /\ opened = [s \in Slots |-> Closed]
    /\ returned = [s \in Slots |-> EOF]

Open(s, n) ==
    /\ opened[s] = Closed
    /\ opened' = [opened EXCEPT ![s] = [name |-> n, pos |-> 0]]
    /\ UNCHANGED <<returned, contents>>

Close(s) ==
    /\ opened' = [opened EXCEPT ![s] = Closed]
    /\ UNCHANGED <<returned, contents>>

Seek(s, pos) ==
    /\ opened' = [opened EXCEPT ![s].pos = pos]
    /\ pos <= Len(contents[opened[s].name])
    /\ UNCHANGED <<returned, contents>>

Read(s) ==
    /\ LET pos == opened[s].pos
           file == contents[opened[s].name]
       IN  \/ /\ opened' = [opened EXCEPT ![s].pos = pos + 1]
              /\ pos < Len(file)
              /\ returned' = [returned EXCEPT ![s] = file[pos + 1]]
           \/ /\ returned' = [returned EXCEPT ![s] = EOF]
              /\ pos = Len(file)
              /\ UNCHANGED opened
    /\ UNCHANGED contents

(* A byte replaces another, or is added at the end. *)
Write(s, byte) ==
    LET pos == opened[s].pos
        written(file) == SubSeq(file, 1, pos) \o <<byte>> \o SubSeq(file, pos + 2, Len(file))
    IN  /\ opened' = [opened EXCEPT ![s].pos = pos + 1]
        /\ UNCHANGED returned
        /\ contents' = [contents EXCEPT ![opened[s].name] = written(@)]

Truncate(s) ==
    /\ opened' = [opened EXCEPT ![s].pos = 0]
    /\ UNCHANGED returned
    /\ contents' = [contents EXCEPT ![opened[s].name] = <<>>]

Next ==
    \E s \in Slots :
        \/ \E n \in Names : Open(s, n)
        \/ /\ opened[s] # Closed
           /\ \/ Close(s) \/ Read(s) \/ Truncate(s)
              \/ \E pos \in 0 .. opened'[s].pos : Seek(s, pos)
              \/ \E byte \in Bytes : Write(s, byte)

Spec == Init /\ [][Next]_<<contents, opened, returned>>
=============================================================================
