------------------------------ MODULE XinuSem ------------------------------
(***************************************************************************)
(* Counting semaphores: wait, signal, signaln, semcreate, semdelete and    *)
(* semreset, and the deferred signals of a device interrupt.               *)
(* A negative count is the number of processes on the semaphore's queue.   *)
(***************************************************************************)
EXTENDS XinuSched

CONSTANTS
    NSEM,       \* entries of semtab[]
    Counts,     \* the counts semcreate(), semreset() and signaln() are given
    MaxCount    \* bound: no signal once a semaphore's count is this high

Sem == 0 .. NSEM - 1

ASSUME SemAssumption ==
    /\ NSEM \in Nat \ {0}
    /\ Counts \subseteq Nat
    /\ MaxCount \in Nat

VARIABLES
    sstate,     \* semtab[].sstate
    scount,     \* semtab[].scount
    squeue,     \* semtab[].squeue
    prsem,      \* proctab[].prsem: where a process in PR_WAIT waits
    nextsem     \* newsem()'s static scan position

semVars == <<sstate, scount, squeue, prsem, nextsem>>

SemDistance(s) == (s - nextsem) % NSEM

Semcreate(s, count) ==
    /\ Calling("semcreate")
    /\ sstate[s] = "FREE"
    /\ \A t \in Sem : sstate[t] = "FREE" => SemDistance(s) <= SemDistance(t)
    /\ nextsem' = (s + 1) % NSEM
    /\ sstate' = [sstate EXCEPT ![s] = "USED"]
    /\ scount' = [scount EXCEPT ![s] = count]
    /\ UNCHANGED <<squeue, prsem, schedVars, tableVars, frame>>

WaitPass(s) ==
    /\ Calling("wait")
    /\ sstate[s] = "USED"
    /\ scount[s] > 0
    /\ scount' = [scount EXCEPT ![s] = @ - 1]
    /\ UNCHANGED <<sstate, squeue, prsem, nextsem, schedVars, tableVars, frame>>

(* Mutant: the process is put at the head of the queue. *)
WaitBlock_AtHead(s) ==
    /\ Calling("wait")
    /\ sstate[s] = "USED"
    /\ scount[s] <= 0
    /\ scount' = [scount EXCEPT ![s] = @ - 1]
    /\ prsem' = [prsem EXCEPT ![currpid] = s]
    /\ squeue' = [squeue EXCEPT ![s] = <<currpid>> \o @]
    /\ Block("WAIT", qkey)
    /\ UNCHANGED <<sstate, nextsem, tableVars, frame>>

WaitBlock(s) ==
    /\ Calling("wait")
    /\ sstate[s] = "USED"
    /\ scount[s] <= 0
    /\ scount' = [scount EXCEPT ![s] = @ - 1]
    /\ prsem' = [prsem EXCEPT ![currpid] = s]
    /\ squeue' = [squeue EXCEPT ![s] = Append(@, currpid)]
    /\ Block("WAIT", qkey)
    /\ UNCHANGED <<sstate, nextsem, tableVars, frame>>

(* `if (scount++ < 0) ready(dequeue(squeue), resch)`, the step signal(),   *)
(* signaln() and semdelete() share.                                        *)
Release(s, resch) ==
    /\ scount' = [scount EXCEPT ![s] = @ + 1]
    /\ IF scount[s] < 0
       THEN /\ squeue' = [squeue EXCEPT ![s] = Tail(@)]
            /\ Ready(Head(squeue[s]), qkey, resch)
       ELSE UNCHANGED <<squeue, schedVars>>

Signal(s) ==
    /\ Calling("signal")
    /\ sstate[s] = "USED"
    /\ scount[s] < MaxCount
    /\ Release(s, RESCHED_YES)
    /\ UNCHANGED <<sstate, prsem, nextsem, tableVars, frame>>

(* signaln(): the loop readies without rescheduling, one resched() at the end. *)
Signaln(s, count) ==
    /\ Calling("signaln")
    /\ sstate[s] = "USED"
    /\ scount[s] + count <= MaxCount
    /\ frame' = [frame EXCEPT ![currpid] = Frame("signaln", s, count)]
    /\ UNCHANGED <<semVars, schedVars, tableVars>>

SignalnLoop ==
    LET s == frame[currpid].arg
        n == frame[currpid].num
    IN  /\ At("signaln")
        /\ n > 0
        /\ frame' = [frame EXCEPT ![currpid] = Frame("signaln", s, n - 1)]
        /\ Release(s, RESCHED_NO)
        /\ UNCHANGED <<sstate, prsem, nextsem, tableVars>>

SignalnDone ==
    /\ At("signaln")
    /\ frame[currpid].num = 0
    /\ Return
    /\ Resched(prstate, readylist, qkey, preempt)
    /\ UNCHANGED <<semVars, tableVars>>

(* semdelete(): the entry is free before its waiters are released, and the *)
(* failing test of `while (scount++ < 0)` counts once more.                *)
Semdelete(s) ==
    /\ Calling("semdelete")
    /\ sstate[s] = "USED"
    /\ sstate' = [sstate EXCEPT ![s] = "FREE"]
    /\ frame' = [frame EXCEPT ![currpid] = Frame("semdelete", s, 0)]
    /\ UNCHANGED <<scount, squeue, prsem, nextsem, schedVars, tableVars>>

SemdeleteLoop ==
    LET s == frame[currpid].arg
    IN  /\ At("semdelete")
        /\ scount[s] < 0
        /\ Release(s, RESCHED_NO)
        /\ UNCHANGED <<sstate, prsem, nextsem, tableVars, frame>>

SemdeleteDone ==
    LET s == frame[currpid].arg
    IN  /\ At("semdelete")
        /\ scount[s] >= 0
        /\ scount' = [scount EXCEPT ![s] = @ + 1]
        /\ Return
        /\ Resched(prstate, readylist, qkey, preempt)
        /\ UNCHANGED <<sstate, squeue, prsem, nextsem, tableVars>>

(* semreset(): every waiter is released, then the count is set. *)
Semreset(s, count) ==
    /\ Calling("semreset")
    /\ sstate[s] = "USED"
    /\ frame' = [frame EXCEPT ![currpid] = Frame("semreset", s, count)]
    /\ UNCHANGED <<semVars, schedVars, tableVars>>

SemresetLoop ==
    LET s == frame[currpid].arg
    IN  /\ At("semreset")
        /\ squeue[s] # <<>>
        /\ squeue' = [squeue EXCEPT ![s] = Tail(@)]
        /\ ReadyOnly(Head(squeue[s]), qkey)
        /\ UNCHANGED <<sstate, scount, prsem, nextsem, tableVars, frame>>

SemresetDone ==
    LET s == frame[currpid].arg
    IN  /\ At("semreset")
        /\ squeue[s] = <<>>
        /\ scount' = [scount EXCEPT ![s] = frame[currpid].num]
        /\ Return
        /\ Resched(prstate, readylist, qkey, preempt)
        /\ UNCHANGED <<sstate, squeue, prsem, nextsem, tableVars>>
----------------------------------------------------------------------------
(***************************************************************************)
(* A device interrupt, on the stack of whatever process it interrupts.     *)
(* The handlers of the console and the network bracket their work with     *)
(* sched_cntl(DEFER_START) and sched_cntl(DEFER_STOP): each signal()       *)
(* inside readies a process, and the resched() they missed comes at the    *)
(* end.                                                                    *)
(***************************************************************************)
DeviceInterrupt(s, count) ==
    /\ "interrupt" \in Calls
    /\ ~halted
    /\ frame[currpid] = User
    /\ scount[s] + count <= MaxCount
    /\ defer' = [ndefers |-> defer.ndefers + 1,
                 attempt |-> defer.ndefers > 0 /\ defer.attempt]
    /\ frame' = [frame EXCEPT ![currpid] = Frame("intr", s, count)]
    /\ UNCHANGED <<semVars, prstate, qkey, readylist, currpid, preempt, tableVars>>

IntrSignal ==
    LET s == frame[currpid].arg
        n == frame[currpid].num
    IN  /\ At("intr")
        /\ n > 0
        /\ frame' = [frame EXCEPT ![currpid] = Frame("intr", s, n - 1)]
        /\ IF sstate[s] = "USED"
           THEN Release(s, RESCHED_YES)
           ELSE UNCHANGED <<scount, squeue, schedVars>>
        /\ UNCHANGED <<sstate, prsem, nextsem, tableVars>>

(* Mutant: DEFER_STOP does not make up for the resched() that was missed. *)
IntrDone_NoResched ==
    /\ At("intr")
    /\ frame[currpid].num = 0
    /\ Return
    /\ defer' = [ndefers |-> 0, attempt |-> FALSE]
    /\ UNCHANGED <<prstate, qkey, readylist, currpid, preempt, semVars, tableVars>>

(* sched_cntl(DEFER_STOP) *)
IntrDone ==
    /\ At("intr")
    /\ frame[currpid].num = 0
    /\ Return
    /\ defer' = [defer EXCEPT !.ndefers = @ - 1]
    /\ IF defer.ndefers = 1 /\ defer.attempt
       THEN Switch(prstate, readylist, qkey, preempt)
       ELSE UNCHANGED <<prstate, qkey, readylist, currpid, preempt>>
    /\ UNCHANGED <<semVars, tableVars>>

SemCall ==
    \/ \E s \in Sem, count \in Counts : Semcreate(s, count)
    \/ \E s \in Sem : WaitPass(s)
    \/ \E s \in Sem : WaitBlock(s)
    \/ \E s \in Sem : Signal(s)
    \/ \E s \in Sem, count \in Counts : Signaln(s, count)
    \/ SignalnLoop
    \/ SignalnDone
    \/ \E s \in Sem : Semdelete(s)
    \/ SemdeleteLoop
    \/ SemdeleteDone
    \/ \E s \in Sem, count \in Counts : Semreset(s, count)
    \/ SemresetLoop
    \/ SemresetDone
    \/ \E s \in Sem, count \in Counts : DeviceInterrupt(s, count)
    \/ IntrSignal
    \/ IntrDone

(* No semaphore exists at boot. *)
SemInit ==
    /\ sstate = [s \in Sem |-> "FREE"]
    /\ scount = [s \in Sem |-> 0]
    /\ squeue = [s \in Sem |-> <<>>]
    /\ prsem = [p \in Pid |-> 0]
    /\ nextsem = 0
=============================================================================
