----------------------------- MODULE XinuQueue -----------------------------
(***************************************************************************)
(* The process queues of the kernel (queue.c, insert.c, insertd.c,         *)
(* getitem.c) as sequences of process identifiers, head first.  The keys   *)
(* are a separate function, as in the code: queuetab[] has ONE key field   *)
(* for each process, shared by the ready list and the sleep queue, which   *)
(* is sound only while a process is on at most one of them.                *)
(*                                                                         *)
(* The code threads these sequences through one table of links, which      *)
(* behaves as the sequences while every process is on at most one of them. *)
(***************************************************************************)
EXTENDS Integers, Sequences, SequencesExt

(* The least element of a nonempty set of integers. *)
Least(S) == CHOOSE x \in S : \A y \in S : x <= y

(* Mutant: `> key`, a process is placed before those of its own key. *)
InsertPos_BeforeEquals(q, keys, key) ==
    Least({i \in 1 .. Len(q) : keys[q[i]] <= key} \cup {Len(q) + 1})

(* Where insert() stops: `while (queuetab[curr].qkey >= key)`, so a process *)
(* is placed behind every process of the same key.  The tail node's MINKEY  *)
(* ends the walk at position Len(q) + 1.                                    *)
InsertPos(q, keys, key) ==
    Least({i \in 1 .. Len(q) : keys[q[i]] < key} \cup {Len(q) + 1})

(* insert(): the queue after p has been put in, in descending key order. *)
Insert(q, keys, p, key) == InsertAt(q, InsertPos(q, keys, key), p)

(* getitem(): unlink p, wherever in q it stands. *)
Getitem(q, p) == RemoveAt(q, CHOOSE i \in DOMAIN q : q[i] = p)

(* The keys of a delta list are relative: delay[i] is the time from now     *)
(* after which the i-th process is due.                                     *)
DueAfter(q, keys) ==
    LET delay[i \in 0 .. Len(q)] ==
            IF i = 0 THEN 0 ELSE delay[i - 1] + keys[q[i]]
    IN  delay

(* Where insertd() stops, and the keys it leaves: p gets what remains of   *)
(* its delay after those ahead of it, the process behind is made relative. *)
InsertdPos(q, keys, delay) ==
    LET due == DueAfter(q, keys)
    IN  Least({i \in 1 .. Len(q) : due[i] > delay} \cup {Len(q) + 1})

Insertd(q, keys, p, delay) == InsertAt(q, InsertdPos(q, keys, delay), p)

InsertdKeys(q, keys, p, delay) ==
    LET pos  == InsertdPos(q, keys, delay)
        rest == delay - DueAfter(q, keys)[pos - 1]
    IN  [x \in DOMAIN keys |->
            IF x = p THEN rest
            ELSE IF pos <= Len(q) /\ x = q[pos] THEN keys[x] - rest
            ELSE keys[x]]

(* unsleep(): the process behind the one taken out inherits its delay. *)
UnsleepKeys(q, keys, p) ==
    LET i == CHOOSE j \in DOMAIN q : q[j] = p
    IN  IF i < Len(q)
        THEN [keys EXCEPT ![q[i + 1]] = @ + keys[p]]
        ELSE keys
=============================================================================
