----------------------------- MODULE SemValue ------------------------------
(***************************************************************************)
(* wait(), signal() and signaln() on the value of one semaphore, [count,   *)
(* queue], for the models of drivers and servers that use the kernel and   *)
(* do not model it.  A process that calls the kernel is at a place `at` of *)
(* its code; one that was made ready goes on from "woken" when the         *)
(* scheduler gets to it, which may be after any other process.             *)
(***************************************************************************)
EXTENDS Integers, SequencesExt, FiniteSetsExt

SemWith(count) == [count |-> count, queue |-> <<>>]

Tokens(sem) == IF sem.count > 0 THEN sem.count ELSE 0

Released(sem, n) == {sem.queue[i] : i \in 1 .. Min({n, Len(sem.queue)})}

SignalnOn(sem, n) ==
    [count |-> sem.count + n,
     queue |-> SubSeq(sem.queue, Min({n, Len(sem.queue)}) + 1, Len(sem.queue))]

(* A wait() that does not block. *)
Take(sem) == [sem EXCEPT !.count = @ - 1]

WaitOn(sem, p) == [count |-> sem.count - 1, queue |-> Append(sem.queue, p)]

(* The places of the processes, after those in `released` were made ready. *)
Wake(place, released) ==
    [p \in DOMAIN place |->
        IF p \in released THEN [place[p] EXCEPT !.at = "woken"] ELSE place[p]]
=============================================================================
