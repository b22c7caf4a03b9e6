----------------------------- MODULE XinuKernel -----------------------------
(***************************************************************************)
(* The kernel: scheduler, semaphores, clock and messages together, and     *)
(* the two calls that reach into all of them, create() and kill().  Every  *)
(* process other than the null process runs arbitrary code, so it may make *)
(* any call in Calls at any time.                                          *)
(***************************************************************************)
EXTENDS XinuSem, XinuMsg

vars == <<schedVars, tableVars, frame, semVars, clockVars, prhasmsg>>

CreateProcess(p, prio, stack) ==
    /\ Create(p, prio, stack)
    /\ prhasmsg' = IF stack THEN [prhasmsg EXCEPT ![p] = FALSE] ELSE prhasmsg
    /\ UNCHANGED <<semVars, clockVars>>

(***************************************************************************)
(* kill(victim) reports the death to the victim's parent first, and that   *)
(* send() may give the processor away; the rest of the call then works on  *)
(* the same table entry, whatever has become of it.                        *)
(***************************************************************************)
KillReports(victim) ==
    LET parent == prparent[victim]
    IN  /\ prcount - 1 > 1
        /\ frame' = [frame EXCEPT ![currpid] = Frame("kill", victim, 0)]
        /\ IF Sendable(parent)
           THEN Deliver(parent)
           ELSE UNCHANGED <<schedVars, clockVars, prhasmsg>>
        /\ UNCHANGED halted

(* `if (--prcount <= 1) xdone()`, which never returns. *)
KillHalts ==
    /\ prcount - 1 <= 1
    /\ halted' = TRUE
    /\ UNCHANGED <<schedVars, frame, clockVars, prhasmsg>>

(* Mutant: the process that dies is not taken off the count. *)
Kill_Uncounted(victim) ==
    /\ Calling("kill")
    /\ victim # NULLPROC
    /\ ~Isbadpid(victim)
    /\ prcount' = prcount
    /\ KillReports(victim) \/ KillHalts
    /\ UNCHANGED <<prprio, prparent, nextpid, semVars>>

Kill(victim) ==
    /\ Calling("kill")
    /\ victim # NULLPROC
    /\ ~Isbadpid(victim)
    /\ prcount' = prcount - 1
    /\ KillReports(victim) \/ KillHalts
    /\ UNCHANGED <<prprio, prparent, nextpid, semVars>>

(* The processor is never given back to a process that kills itself. *)
KillSelf ==
    /\ At("kill")
    /\ frame[currpid].arg = currpid
    /\ Block("FREE", qkey)
    /\ Return
    /\ UNCHANGED <<tableVars, semVars, clockVars, prhasmsg>>

(* Mutant: killing a process that waits leaves the semaphore's count alone. *)
KillOther_NotCounted ==
    LET victim == frame[currpid].arg
        s      == prsem[victim]
    IN  /\ At("kill")
        /\ victim # currpid
        /\ Return
        /\ prstate' = [prstate EXCEPT ![victim] = "FREE"]
        /\ IF prstate[victim] \in {"SLEEP", "RECTIM"}
           THEN qkey' = UnsleepKeys(sleepq, qkey, victim) /\ Unsleep(victim)
           ELSE UNCHANGED <<qkey, clockVars>>
        /\ squeue' = IF prstate[victim] = "WAIT"
                     THEN [squeue EXCEPT ![s] = Getitem(@, victim)]
                     ELSE squeue
        /\ readylist' = IF prstate[victim] = "READY" THEN Getitem(readylist, victim)
                                                     ELSE readylist
        /\ UNCHANGED <<scount, currpid, preempt, defer, tableVars, sstate, prsem,
                       nextsem, prhasmsg>>

KillOther ==
    LET victim == frame[currpid].arg
    IN  /\ At("kill")
        /\ victim # currpid
        /\ Return
        /\ prstate' = [prstate EXCEPT ![victim] = "FREE"]
        /\ CASE prstate[victim] \in {"SLEEP", "RECTIM"} ->
                  /\ qkey' = UnsleepKeys(sleepq, qkey, victim)
                  /\ Unsleep(victim)
                  /\ UNCHANGED <<scount, squeue, readylist>>
             [] prstate[victim] = "WAIT" ->
                  LET s == prsem[victim]
                  IN  /\ scount' = [scount EXCEPT ![s] = @ + 1]
                      /\ squeue' = [squeue EXCEPT ![s] = Getitem(@, victim)]
                      /\ UNCHANGED <<qkey, clockVars, readylist>>
             [] prstate[victim] = "READY" ->
                  /\ readylist' = Getitem(readylist, victim)
                  /\ UNCHANGED <<qkey, clockVars, scount, squeue>>
             [] OTHER -> UNCHANGED <<qkey, clockVars, scount, squeue, readylist>>
        /\ UNCHANGED <<currpid, preempt, defer, tableVars, sstate, prsem,
                       nextsem, prhasmsg>>

(* halt(): "put the processor in a tight loop". *)
Halt == halted /\ UNCHANGED vars

Init == SchedInit /\ SemInit /\ ClockInit /\ MsgInit

Next ==
    \/ SchedCall /\ UNCHANGED <<semVars, clockVars, prhasmsg>>
    \/ SemCall   /\ UNCHANGED <<clockVars, prhasmsg>>
    \/ ClockStep /\ UNCHANGED <<semVars, prhasmsg>>
    \/ MsgCall   /\ UNCHANGED semVars
    \/ \E p \in Pid, prio \in Prios, stack \in BOOLEAN : CreateProcess(p, prio, stack)
    \/ \E p \in Pid : Kill(p)
    \/ KillSelf
    \/ KillOther
    \/ Halt

Spec == Init /\ [][Next]_vars
----------------------------------------------------------------------------
(***************************************************************************)
(* Safety.                                                                 *)
(***************************************************************************)

(* Types.  The time slice never reaches 0 between ticks, so the unsigned   *)
(* decrement of `--preempt <= 0` in clkhandler() does not wrap.            *)
TypeOK ==
    /\ prstate \in [Pid -> PrStates]
    /\ prprio \in [Pid -> Int]
    /\ prparent \in [Pid -> Pid]
    /\ frame \in [Pid -> [at : Points, arg : Nat, num : Nat]]
    /\ DOMAIN qkey = Pid
    /\ readylist \in Seq(Pid)
    /\ currpid \in Pid
    /\ preempt \in 1 .. QUANTUM
    /\ defer \in [ndefers : 0 .. 1, attempt : BOOLEAN]
    /\ prcount \in Int
    /\ nextpid \in Pid
    /\ halted \in BOOLEAN
    /\ sstate \in [Sem -> {"FREE", "USED"}]
    /\ scount \in [Sem -> Int]
    /\ DOMAIN squeue = Sem /\ \A s \in Sem : squeue[s] \in Seq(Pid)
    /\ prsem \in [Pid -> Sem]
    /\ nextsem \in Sem
    /\ sleepq \in Seq(Pid)
    /\ remaining \in [Pid -> Nat]
    /\ prhasmsg \in [Pid -> BOOLEAN]

(* p stands on q exactly once if it should be there, and not at all if not. *)
OnQueue(q, p, should) ==
    /\ should <=> p \in ToSet(q)
    /\ \A i, j \in DOMAIN q : q[i] = p /\ q[j] = p => i = j

(* Every process is on the one queue its state names: what kill(),         *)
(* suspend() and unsleep() rely on when they unlink a process from         *)
(* "its" queue, and what lets the queues share one table of links and keys. *)
QueuesMatchStates ==
    \A p \in Pid :
        /\ prstate[p] = "CURR" <=> p = currpid
        /\ OnQueue(readylist, p, prstate[p] = "READY")
        /\ OnQueue(sleepq, p, prstate[p] \in {"SLEEP", "RECTIM"})
        /\ \A s \in Sem :
               OnQueue(squeue[s], p, prstate[p] = "WAIT" /\ prsem[p] = s)

(* semreset() is releasing the waiters of s, and has yet to set its count. *)
Resetting(s) == frame[currpid].at = "semreset" /\ frame[currpid].arg = s

(* "-n means n processes are waiting": a negative count is the length of   *)
(* the semaphore's queue, whatever mix of waits, signals, deletions,       *)
(* resets and killed waiters led there.                                    *)
SemCounts ==
    \A s \in Sem : ~Resetting(s) =>
        Len(squeue[s]) = IF scount[s] < 0 THEN 0 - scount[s] ELSE 0

(* A process that will take a message when it runs again has one, and no   *)
(* process stays blocked with a message in its mailbox.                    *)
MailboxWakes ==
    \A p \in Pid :
        /\ prstate[p] \in {"RECV", "RECTIM"} => ~prhasmsg[p]
        /\ /\ frame[p].at = "receive"
           /\ prstate[p] \in {"CURR", "READY", "SUSP"}
           => prhasmsg[p]

(* Nobody's delay ends early: while there are ticks left of it, neither a   *)
(* message nor kill() having ended the wait, the process is on the delta    *)
(* list, and the keys up to its own add up to no less than those ticks.     *)
DelaysRespected ==
    \A p \in Pid : remaining[p] > 0 =>
        \E i \in DOMAIN sleepq :
            /\ sleepq[i] = p
            /\ DueAfter(sleepq, qkey)[i] >= remaining[p]

(* With the priorities processes were created with, the processor is never *)
(* in a process's own code while one of higher priority is ready.          *)
HighestRuns ==
    frame[currpid] = User =>
        \A p \in Pid : prstate[p] = "READY" => prprio[p] <= prprio[currpid]

Live == {p \in Pid : prstate[p] # "FREE"}

(* prcount never exceeds the live processes, so the exit of the last one   *)
(* is never missed.                                                        *)
LastExitHalts == prcount <= Cardinality(Live)
----------------------------------------------------------------------------
(***************************************************************************)
(* Liveness.  The timer interrupts whenever interrupts are on, however     *)
(* briefly (a pending interrupt is taken when restore() enables them), and *)
(* a process inside a kernel call runs on.  Nothing is assumed of the code *)
(* of processes.                                                           *)
(***************************************************************************)
Unfinished ==
    /\ frame[currpid] # User
    /\ Next

Fairness ==
    /\ SF_vars(Clkhandler /\ UNCHANGED <<semVars, prhasmsg>>)
    /\ WF_vars(Unfinished)

FairSpec == Spec /\ Fairness

(* A sleeping process wakes up, even if every other process computes,      *)
(* sleeps or waits for messages for ever.                                  *)
SleepersWake ==
    \A p \in Pid : prstate[p] = "SLEEP" ~> prstate[p] # "SLEEP"

(* Processes of equal priority share the processor: none stays ready while *)
(* the others go on running.                                               *)
EqualsTakeTurns ==
    \A p \in Pid \ {NULLPROC} : prstate[p] = "READY" ~> prstate[p] # "READY"
=============================================================================
