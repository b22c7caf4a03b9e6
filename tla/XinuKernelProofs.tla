-------------------------- MODULE XinuKernelProofs --------------------------
(***************************************************************************)
(* Type correctness of the kernel, the agreement of its queues with the    *)
(* process states, and the meaning of negative semaphore counts, for any   *)
(* number of processes and semaphores; and, resting on these, that         *)
(* mailboxes wake their readers, that the exit of the last process is      *)
(* seen, that each semaphore implements `Semaphore', that the highest      *)
(* priority runs, and that nobody's delay ends early.  Last, for the       *)
(* kernel with the calls of lab 3: the senders that wait, their release,   *)
(* and the order of the messages.                                          *)
(***************************************************************************)
EXTENDS XinuContract, XinuIPC, XinuQueueProofs

(* The processes a queue should hold, given the states st. *)
ReadySet(st) == {p \in Pid : st[p] = "READY"}
SleepSet(st) == {p \in Pid : st[p] \in {"SLEEP", "RECTIM"}}
WaitSet(st, sems, s) == {p \in Pid : st[p] = "WAIT" /\ sems[p] = s}

(***************************************************************************)
(* The inductive invariant, in parts.                                      *)
(***************************************************************************)
Tables ==
    /\ prprio \in [Pid -> Int]
    /\ prparent \in [Pid -> Pid]
    /\ prcount \in Int
    /\ nextpid \in Pid
    /\ halted \in BOOLEAN
    /\ sstate \in [Sem -> {"FREE", "USED"}]
    /\ scount \in [Sem -> Int]
    /\ prsem \in [Pid -> Sem]
    /\ nextsem \in Sem
    /\ remaining \in [Pid -> Nat]
    /\ prhasmsg \in [Pid -> BOOLEAN]

(* The null process never blocks, so the ready list is never empty when    *)
(* resched() needs a process from it.                                      *)
Sched(st, rl, cur, keys, slice) ==
    /\ st \in [Pid -> PrStates]
    /\ cur \in Pid
    /\ \A p \in Pid : st[p] = "CURR" <=> p = cur
    /\ st[NULLPROC] \in {"CURR", "READY"}
    /\ Lists(rl, ReadySet(st))
    /\ DOMAIN keys = Pid
    /\ slice \in 1 .. QUANTUM

Scheduled == Sched(prstate, readylist, currpid, qkey, preempt)

Sleepers == Lists(sleepq, SleepSet(prstate))

Waiters ==
    /\ DOMAIN squeue = Sem
    /\ \A s \in Sem : Lists(squeue[s], WaitSet(prstate, prsem, s))

(* The points between which interrupts stay off and nobody else can run. *)
Busy == {"signaln", "semdelete", "semreset", "intr", "wakeup"}

OnSem == {"signaln", "semdelete", "semreset", "intr"}

(* Only the current process is at such a point, resched() is deferred just *)
(* while it is in a device interrupt, and the arguments kept in a frame    *)
(* are the ones the call has checked.                                      *)
Frames(f, cur, d) ==
    /\ f \in [Pid -> [at : Points, arg : Nat, num : Nat]]
    /\ \A p \in Pid :
           /\ f[p].at \in Busy => p = cur
           /\ f[p].at \in OnSem => f[p].arg \in Sem
           /\ f[p].at = "kill" => f[p].arg \in Pid \ {NULLPROC}
    /\ d \in [ndefers : 0 .. 1, attempt : BOOLEAN]
    /\ d.ndefers = IF f[cur].at = "intr" THEN 1 ELSE 0

Contexts == Frames(frame, currpid, defer)

(* A free semaphore has no waiters, except while semdelete() releases them. *)
Deleting(s) == frame[currpid].at = "semdelete" /\ frame[currpid].arg = s

FreeSems == \A s \in Sem : sstate[s] = "FREE" /\ ~Deleting(s) => scount[s] >= 0

IInv == Tables /\ Scheduled /\ Sleepers /\ Waiters /\ Contexts /\ SemCounts /\ FreeSems

----------------------------------------------------------------------------
(***************************************************************************)
(* The scheduler.  Moved(st) says what is true after a resched() that      *)
(* found the process states to be st, or after a call that reschedules     *)
(* nothing.                                                                *)
(***************************************************************************)
Runnable == {"CURR", "READY"}

(* A resched() makes processes current and ready, and changes no other state. *)
Alike(a, b) == a = b \/ {a, b} \subseteq Runnable

Moved(st) ==
    /\ Scheduled'
    /\ \A p \in Pid : Alike(st[p], prstate'[p])
    /\ SleepSet(prstate') = SleepSet(st)
    /\ \A sems, s : WaitSet(prstate', sems, s) = WaitSet(st, sems, s)

(* What resched() needs: whoever is not current any more is out of PR_CURR. *)
CanMove(st, rl, keys, slice) ==
    /\ st \in [Pid -> PrStates]
    /\ \A p \in Pid : st[p] = "CURR" => p = currpid
    /\ st[NULLPROC] \in {"CURR", "READY"}
    /\ Lists(rl, ReadySet(st))
    /\ DOMAIN keys = Pid
    /\ slice \in 1 .. QUANTUM

(* There is a null process, and a full time slice is a legal one. *)
LEMMA NullInPid == NULLPROC \in Pid /\ QUANTUM \in 1 .. QUANTUM
BY SchedAssumption DEF NULLPROC, Pid

(* The switch inside resched() leaves exactly one current process, and     *)
(* moves nobody to or from a waiting queue, whatever tables its caller     *)
(* hands it.                                                               *)
LEMMA SwitchMoves ==
    ASSUME NEW st, NEW rl, NEW keys, NEW slice, currpid \in Pid,
           CanMove(st, rl, keys, slice), Switch(st, rl, keys, slice)
    PROVE  Moved(st)
<1> USE NullInPid
<1>1. CASE KeepsProcessor(st, rl, keys)
  <2>1. /\ prstate' = st /\ readylist' = rl /\ qkey' = keys
        /\ preempt' = slice /\ currpid' = currpid
        /\ st[currpid] = "CURR"
    BY <1>1 DEF Switch, KeepsProcessor
  <2> QED BY <2>1 DEF Moved, Alike, Scheduled, Sched, CanMove
<1>2. CASE ~KeepsProcessor(st, rl, keys)
  <2> DEFINE old   == currpid
             stays == st[old] = "CURR"
             queue == Requeued(st, rl, keys)
             new   == Head(queue)
             Q     == {p \in Pid : st[p] = "READY" \/ (p = old /\ stays)}
  <2>1. /\ currpid' = new
        /\ readylist' = Tail(queue)
        /\ prstate' = [p \in Pid |-> IF p = new THEN "CURR"
                                     ELSE IF p = old /\ stays THEN "READY" ELSE st[p]]
        /\ qkey' = IF stays THEN [keys EXCEPT ![old] = prprio[old]] ELSE keys
        /\ preempt' = QUANTUM
    BY <1>2 DEF Switch
  <2>2. Lists(queue, Q)
    <3>1. CASE stays
      <4>1. old \notin ReadySet(st) /\ Q = ReadySet(st) \cup {old} BY <3>1 DEF ReadySet
      <4>2. queue = Insert(rl, keys, old, prprio[old]) BY <3>1 DEF Requeued
      <4>3. Lists(rl, ReadySet(st)) BY DEF CanMove
      <4> HIDE DEF queue, Q, old
      <4> QED BY <4>1, <4>2, <4>3, InsertLists
    <3>2. CASE ~stays
      <4>1. Q = ReadySet(st) /\ queue = rl BY <3>2 DEF ReadySet, Requeued
      <4> QED BY <4>1 DEF CanMove
    <3> QED BY <3>1, <3>2
  <2>3. Q # {}
    BY DEF CanMove
  <2> HIDE DEF queue, Q
  <2>4. new \in Q /\ Lists(Tail(queue), Q \ {new})
    BY <2>2, <2>3, EmptyLists, TailLists
  <2>5. new \in Pid /\ (st[new] = "READY" \/ (new = old /\ stays)) BY <2>4 DEF Q
  <2> HIDE DEF new
  <2>6. prstate' \in [Pid -> PrStates]
    BY <2>1 DEF CanMove, PrStates
  <2>7. \A p \in Pid : prstate'[p] = "CURR" <=> p = currpid'
    BY <2>1, <2>5 DEF CanMove
  <2>8. ReadySet(prstate') = Q \ {new}
    BY <2>1, <2>5 DEF CanMove, ReadySet, Q
  <2>9. SleepSet(prstate') = SleepSet(st)
    BY <2>1, <2>5 DEF SleepSet
  <2>10. \A sems, s : WaitSet(prstate', sems, s) = WaitSet(st, sems, s)
    BY <2>1, <2>5 DEF WaitSet
  <2>11. /\ prstate'[NULLPROC] \in {"CURR", "READY"}
         /\ \A p \in Pid : Alike(st[p], prstate'[p])
    BY <2>1, <2>5 DEF CanMove, Alike, Runnable
  <2>12. DOMAIN qkey' = Pid BY <2>1 DEF CanMove
  <2> QED
    BY <2>1, <2>4, <2>5, <2>6, <2>7, <2>8, <2>9, <2>10, <2>11, <2>12 DEF Moved, Scheduled, Sched
<1> QED BY <1>1, <1>2

(* resched() with the states st: deferral keeps the processor where it is. *)
LEMMA ReschedMoves ==
    ASSUME Contexts, NEW st, NEW rl, NEW keys, NEW slice, currpid \in Pid,
           CanMove(st, rl, keys, slice), Resched(st, rl, keys, slice),
           frame[currpid].at = "intr" => st[currpid] = "CURR"
    PROVE  /\ Moved(st)
           /\ frame[currpid].at = "intr" => currpid' = currpid
           /\ frame[currpid].at # "intr" => defer' = defer
           /\ defer' \in [ndefers : 0 .. 1, attempt : BOOLEAN]
           /\ defer'.ndefers = defer.ndefers
<1>1. CASE frame[currpid].at = "intr"
  <2>1. defer.ndefers = 1 BY <1>1 DEF Contexts, Frames
  <2>2. Deferred(st, rl, keys, slice) BY <2>1 DEF Resched
  <2>3. Moved(st) BY <1>1, <2>2 DEF Deferred, Moved, Alike, Scheduled, Sched, CanMove
  <2> QED BY <1>1, <2>2, <2>3 DEF Deferred, Contexts, Frames
<1>2. CASE frame[currpid].at # "intr"
  <2>1. defer.ndefers = 0 BY <1>2 DEF Contexts, Frames
  <2>2. Switch(st, rl, keys, slice) /\ defer' = defer BY <2>1 DEF Resched
  <2>3. Moved(st) BY <2>2, SwitchMoves
  <2> QED BY <1>2, <2>2, <2>3 DEF Contexts, Frames
<1> QED BY <1>1, <1>2

(* A call that reschedules without a change of states (yield and the ends  *)
(* of loops), with the slice it leaves. *)
LEMMA StayMoves ==
    ASSUME Scheduled, Contexts, NEW slice \in 1 .. QUANTUM,
           Resched(prstate, readylist, qkey, slice)
    PROVE  /\ Moved(prstate)
           /\ frame[currpid].at = "intr" => currpid' = currpid
           /\ frame[currpid].at # "intr" => defer' = defer
           /\ defer' \in [ndefers : 0 .. 1, attempt : BOOLEAN]
           /\ defer'.ndefers = defer.ndefers
<1>1. CanMove(prstate, readylist, qkey, slice) /\ currpid \in Pid
  BY DEF Scheduled, Sched, CanMove
<1>2. prstate[currpid] = "CURR" BY DEF Scheduled, Sched
<1> QED BY <1>1, <1>2, ReschedMoves

(* ready(p) of a process that is on no ready list.  The keys are those of  *)
(* the table when ready() is called. *)
LEMMA ReadyCanMove ==
    ASSUME Scheduled, NEW p \in Pid, prstate[p] \notin {"CURR", "READY"},
           NEW keys, DOMAIN keys = Pid
    PROVE  /\ CanMove(ReadyState(p), ReadyList(p, keys), ReadyKeys(p, keys), preempt)
           /\ ReadyState(p)[currpid] = "CURR"
           /\ \A q \in Pid : ReadyState(p)[q] = IF q = p THEN "READY" ELSE prstate[q]
<1> DEFINE st == ReadyState(p)
<1>1. st \in [Pid -> PrStates] /\ \A q \in Pid : st[q] = IF q = p THEN "READY" ELSE prstate[q]
  BY DEF ReadyState, Scheduled, Sched, PrStates
<1>2. DOMAIN ReadyKeys(p, keys) = Pid BY DEF ReadyKeys
<1>3. Lists(ReadyList(p, keys), ReadySet(st))
  <2>1. p \notin ReadySet(prstate) BY DEF ReadySet
  <2>2. ReadySet(st) = ReadySet(prstate) \cup {p} BY <1>1 DEF ReadySet
  <2>3. Lists(readylist, ReadySet(prstate)) BY DEF Scheduled, Sched
  <2>4. Lists(ReadyList(p, keys), ReadySet(prstate) \cup {p})
    BY <2>1, <2>3, InsertLists DEF ReadyList
  <2> QED BY <2>2, <2>4
<1>4. /\ \A q \in Pid : st[q] = "CURR" => q = currpid
      /\ st[NULLPROC] \in {"CURR", "READY"}
      /\ st[currpid] = "CURR"
  BY <1>1, NullInPid DEF Scheduled, Sched
<1> QED BY <1>1, <1>2, <1>3, <1>4 DEF CanMove, Scheduled, Sched

(* ready(p, RESCHED_YES) for a process that is on no queue the scheduler   *)
(* looks at: a deferred one only records the attempt.                      *)
LEMMA ReadyReschedMoves ==
    ASSUME Scheduled, Contexts, NEW p \in Pid, prstate[p] \notin {"CURR", "READY"},
           NEW keys, DOMAIN keys = Pid, ReadyResched(p, keys)
    PROVE  /\ Moved(ReadyState(p))
           /\ frame[currpid].at = "intr" => currpid' = currpid
           /\ frame[currpid].at # "intr" => defer' = defer
           /\ defer' \in [ndefers : 0 .. 1, attempt : BOOLEAN]
           /\ defer'.ndefers = defer.ndefers
<1>1. currpid \in Pid BY DEF Scheduled, Sched
<1> QED BY <1>1, ReadyCanMove, ReschedMoves DEF ReadyResched

(* ready(p, RESCHED_NO) puts p on the ready list and leaves the processor  *)
(* where it is.                                                            *)
LEMMA ReadyOnlyMoves ==
    ASSUME Scheduled, NEW p \in Pid, prstate[p] \notin {"CURR", "READY"},
           NEW keys, DOMAIN keys = Pid, ReadyOnly(p, keys)
    PROVE  Moved(ReadyState(p)) /\ currpid' = currpid /\ defer' = defer
<1>1. CanMove(ReadyState(p), ReadyList(p, keys), ReadyKeys(p, keys), preempt)
  BY ReadyCanMove
<1>2. ReadyState(p)[currpid] = "CURR" BY ReadyCanMove
<1> QED BY <1>1, <1>2 DEF ReadyOnly, Moved, Alike, Scheduled, Sched, CanMove

(* The current process blocks, or ends, in state s.  It is not the null    *)
(* process, and not in a device interrupt. *)
LEMMA BlockMoves ==
    ASSUME Scheduled, Contexts, NEW s \in PrStates \ {"CURR", "READY"},
           currpid # NULLPROC, frame[currpid].at # "intr",
           NEW keys, DOMAIN keys = Pid, Block(s, keys)
    PROVE  Moved([prstate EXCEPT ![currpid] = s]) /\ defer' = defer
<1> DEFINE st == [prstate EXCEPT ![currpid] = s]
<1>1. currpid \in Pid BY DEF Scheduled, Sched
<1>2. st \in [Pid -> PrStates] /\ \A q \in Pid : st[q] = IF q = currpid THEN s ELSE prstate[q]
  BY DEF Scheduled, Sched
<1>3. /\ \A q \in Pid : st[q] = "CURR" => q = currpid
      /\ st[NULLPROC] \in {"CURR", "READY"}
  BY <1>2, NullInPid DEF Scheduled, Sched
<1>4. ReadySet(st) = ReadySet(prstate) BY <1>2 DEF ReadySet, Scheduled, Sched
<1>5. CanMove(st, readylist, keys, preempt)
  BY <1>2, <1>3, <1>4 DEF CanMove, Scheduled, Sched
<1> HIDE DEF st
<1>6. Resched(st, readylist, keys, preempt) BY DEF Block, st
<1> QED BY <1>1, <1>5, <1>6, ReschedMoves DEF st

----------------------------------------------------------------------------
(***************************************************************************)
(* The parts of the invariant that a step leaves alone.                    *)
(***************************************************************************)
Waiting == {"WAIT", "SLEEP", "RECTIM"}

(* No process joins or leaves the sleep queue or a semaphore's queue. *)
Kept(st) ==
    \A p \in Pid : st[p] = prstate[p] \/ (st[p] \notin Waiting /\ prstate[p] \notin Waiting)

(* Where no process starts or stops waiting, the sets the waiting queues   *)
(* should hold stay the same.                                              *)
LEMMA KeptSets ==
    ASSUME NEW st, Kept(st)
    PROVE  /\ SleepSet(st) = SleepSet(prstate)
           /\ \A sems, s : WaitSet(st, sems, s) = WaitSet(prstate, sems, s)
BY DEF Kept, Waiting, SleepSet, WaitSet

FrameType == [at : Points, arg : Nat, num : Nat]

(* The current process goes to the point g, and the processor moves on     *)
(* only if interrupts may be on there. *)
LEMMA ContextsStep ==
    ASSUME Contexts, currpid \in Pid, currpid' \in Pid,
           NEW g \in FrameType, frame' = [frame EXCEPT ![currpid] = g],
           g.at \in Busy => currpid' = currpid,
           g.at \in OnSem => g.arg \in Sem,
           g.at = "kill" => g.arg \in Pid \ {NULLPROC},
           defer' \in [ndefers : 0 .. 1, attempt : BOOLEAN],
           defer'.ndefers = IF g.at = "intr" THEN 1 ELSE 0
    PROVE  Contexts'
<1>1. /\ frame' \in [Pid -> FrameType]
      /\ \A p \in Pid : frame'[p] = IF p = currpid THEN g ELSE frame[p]
  BY DEF Contexts, Frames, FrameType
<1>2. \A p \in Pid : p # currpid => frame'[p].at \notin Busy
  BY <1>1 DEF Contexts, Frames
<1>3. "intr" \in Busy BY DEF Busy
<1>4. defer'.ndefers = IF frame'[currpid'].at = "intr" THEN 1 ELSE 0
  BY <1>1, <1>2, <1>3
<1> QED BY <1>1, <1>2, <1>4 DEF Contexts, Frames, FrameType

(* The processor moves on while the current process is at a point where    *)
(* interrupts may be on. *)
LEMMA ContextsStay ==
    ASSUME Contexts, currpid \in Pid, currpid' \in Pid,
           frame' = frame, frame[currpid].at \notin Busy, defer' = defer
    PROVE  Contexts'
<1>1. \A p \in Pid : frame[p].at \notin Busy BY DEF Contexts, Frames
<1>2. frame[currpid'].at # "intr" /\ frame[currpid].at # "intr" BY <1>1 DEF Busy
<1> QED BY <1>1, <1>2 DEF Contexts, Frames

(* A step that touches no semaphore keeps what is known of their counts. *)
LEMMA CountsStay ==
    ASSUME SemCounts, FreeSems, frame[currpid].at \notin {"semreset", "semdelete"},
           UNCHANGED <<squeue, scount, sstate>>
    PROVE  SemCounts' /\ FreeSems'
BY DEF SemCounts, Resetting, FreeSems, Deleting

(* Calls that move no process to or from a semaphore or the sleep queue. *)
LEMMA CallKeeps ==
    ASSUME IInv, NEW st, Moved(st), Kept(st), Tables', Contexts',
           UNCHANGED <<sleepq, squeue, prsem, scount, sstate>>,
           frame[currpid].at \notin {"semreset", "semdelete"}
    PROVE  IInv'
<1>1. Scheduled' BY DEF Moved
<1>2. SleepSet(prstate') = SleepSet(prstate)
  BY KeptSets DEF Moved
<1>3. \A s \in Sem : WaitSet(prstate', prsem, s) = WaitSet(prstate, prsem, s)
  BY KeptSets DEF Moved
<1>4. Sleepers' BY <1>2 DEF IInv, Sleepers
<1>5. Waiters' BY <1>3 DEF IInv, Waiters
<1>6. SemCounts' /\ FreeSems' BY CountsStay DEF IInv
<1> QED BY <1>1, <1>4, <1>5, <1>6 DEF IInv

(* What every call starts from. *)
LEMMA CallFacts ==
    ASSUME IInv
    PROVE  /\ currpid \in Pid /\ prstate[currpid] = "CURR"
           /\ prstate \in [Pid -> PrStates]
           /\ preempt \in 1 .. QUANTUM /\ DOMAIN qkey = Pid
           /\ User \in FrameType /\ User.at = "user" /\ User.at \notin Busy
           /\ frame \in [Pid -> FrameType]
           /\ defer \in [ndefers : 0 .. 1, attempt : BOOLEAN]
           /\ frame[currpid].at = "intr" => defer.ndefers = 1
           /\ frame[currpid].at # "intr" => defer.ndefers = 0
           /\ \A call : Calling(call) => /\ currpid # NULLPROC
                                         /\ frame[currpid] = User
                                         /\ frame[currpid].at = "user"
<1>1. User \in FrameType /\ User.at = "user" /\ User.at \notin Busy
  BY DEF User, Frame, FrameType, Points, Busy
<1> QED BY <1>1 DEF IInv, Scheduled, Sched, Contexts, Frames, FrameType, Calling
----------------------------------------------------------------------------
(***************************************************************************)
(* The calls of XinuSched.                                                 *)
(***************************************************************************)
LEMMA UnblockKeeps ==
    ASSUME IInv, NEW p \in Pid, prstate[p] \in PrStates \ Waiting
    PROVE  Kept(ReadyState(p))
BY CallFacts DEF Kept, ReadyState, Waiting

(* resume() keeps the invariant. *)
LEMMA ResumeInv ==
    ASSUME IInv, NEW p \in Pid, Resume(p), UNCHANGED <<semVars, clockVars, prhasmsg>>
    PROVE  IInv'
<1> USE CallFacts
<1>1. Calling("resume") /\ prstate[p] = "SUSP" /\ ReadyResched(p, qkey)
      /\ UNCHANGED <<tableVars, frame>>
  BY DEF Resume
<1>2. frame[currpid].at = "user" BY <1>1
<1>3. Moved(ReadyState(p)) /\ defer' = defer
  BY <1>1, <1>2, ReadyReschedMoves DEF IInv
<1>4. Kept(ReadyState(p))
  BY <1>1, UnblockKeeps DEF PrStates, Waiting
<1>5. Tables' BY <1>1 DEF IInv, Tables, tableVars, semVars, clockVars
<1>6. Contexts' BY <1>1, <1>2, <1>3, ContextsStay DEF IInv, Moved, Scheduled, Sched, Busy
<1> QED BY <1>2, <1>3, <1>4, <1>5, <1>6, CallKeeps DEF semVars, clockVars

(* suspend() of a ready process takes it off the ready list, and keeps the *)
(* invariant.                                                              *)
LEMMA SuspendReadyInv ==
    ASSUME IInv, NEW p \in Pid, SuspendReady(p), UNCHANGED <<semVars, clockVars, prhasmsg>>
    PROVE  IInv'
<1> USE CallFacts
<1> DEFINE st == [prstate EXCEPT ![p] = "SUSP"]
<1>1. /\ Calling("suspend") /\ p # NULLPROC /\ prstate[p] = "READY"
      /\ prstate' = st /\ readylist' = Getitem(readylist, p)
      /\ UNCHANGED <<qkey, currpid, preempt, defer, tableVars, frame>>
  BY DEF SuspendReady
<1>2. frame[currpid].at = "user" BY <1>1
<1>3. Moved(st)
  <2>1. p \in ReadySet(prstate) /\ ReadySet(st) = ReadySet(prstate) \ {p}
    BY <1>1 DEF ReadySet
  <2>2. Lists(readylist', ReadySet(st))
    <3>1. Lists(readylist, ReadySet(prstate)) BY DEF IInv, Scheduled, Sched
    <3>2. Lists(Getitem(readylist, p), ReadySet(prstate) \ {p}) BY <2>1, <3>1, GetitemLists
    <3> QED BY <1>1, <2>1, <3>2
  <2>3. /\ st \in [Pid -> PrStates]
        /\ \A q \in Pid : st[q] = "CURR" <=> q = currpid
        /\ st[NULLPROC] \in {"CURR", "READY"}
    BY <1>1, NullInPid DEF IInv, Scheduled, Sched, PrStates
  <2> QED BY <1>1, <2>2, <2>3 DEF IInv, Moved, Alike, Scheduled, Sched
<1>4. Kept(st) BY <1>1 DEF Kept, Waiting
<1>5. Tables' BY <1>1 DEF IInv, Tables, tableVars, semVars, clockVars
<1>6. Contexts' BY <1>1, <1>2, <1>3, ContextsStay DEF IInv, Moved, Scheduled, Sched, Busy
<1> HIDE DEF st
<1> QED BY <1>2, <1>3, <1>4, <1>5, <1>6, CallKeeps DEF semVars, clockVars

(* suspend() of the caller gives up the processor, and keeps the           *)
(* invariant.                                                              *)
LEMMA SuspendSelfInv ==
    ASSUME IInv, SuspendSelf, UNCHANGED <<semVars, clockVars, prhasmsg>>
    PROVE  IInv'
<1> USE CallFacts
<1> DEFINE st == [prstate EXCEPT ![currpid] = "SUSP"]
<1>1. Calling("suspend") /\ Block("SUSP", qkey) /\ UNCHANGED <<tableVars, frame>>
  BY DEF SuspendSelf
<1>2. frame[currpid].at = "user" /\ currpid # NULLPROC BY <1>1
<1>3. "SUSP" \in PrStates \ {"CURR", "READY"} BY DEF PrStates
<1>4. Moved(st) /\ defer' = defer
  BY <1>1, <1>2, <1>3, BlockMoves DEF IInv
<1>5. Kept(st) BY DEF Kept, Waiting
<1>6. Tables' BY <1>1 DEF IInv, Tables, tableVars, semVars, clockVars
<1>7. Contexts' BY <1>1, <1>2, <1>4, ContextsStay DEF IInv, Moved, Scheduled, Sched, Busy
<1> HIDE DEF st
<1> QED BY <1>2, <1>4, <1>5, <1>6, <1>7, CallKeeps DEF semVars, clockVars

(* A step that leaves the scheduler alone is a move from the states to     *)
(* themselves.                                                             *)
LEMMA StillMoved ==
    ASSUME IInv, UNCHANGED <<prstate, readylist, currpid, qkey, preempt>>
    PROVE  Moved(prstate) /\ Kept(prstate)
BY DEF IInv, Moved, Alike, Scheduled, Sched, Kept

(* chprio() keeps the invariant: what is on the ready list does not depend *)
(* on priorities.                                                          *)
LEMMA ChprioInv ==
    ASSUME IInv, NEW p \in Pid, NEW prio \in NewPrios, Chprio(p, prio),
           UNCHANGED <<semVars, clockVars, prhasmsg>>
    PROVE  IInv'
<1> USE CallFacts
<1>1. /\ Calling("chprio") /\ prprio' = [prprio EXCEPT ![p] = prio]
      /\ UNCHANGED <<schedVars, frame, prparent, prcount, nextpid, halted>>
  BY DEF Chprio
<1>2. frame[currpid].at = "user" BY <1>1
<1>3. Moved(prstate) /\ Kept(prstate) BY <1>1, StillMoved DEF schedVars
<1>4. prprio' \in [Pid -> Int] BY <1>1, SchedAssumption DEF IInv, Tables
<1>5. Tables' BY <1>1, <1>4 DEF IInv, Tables, semVars, clockVars
<1>6. Contexts' BY <1>1, <1>2, ContextsStay DEF IInv, schedVars, Busy
<1> QED BY <1>2, <1>3, <1>5, <1>6, CallKeeps DEF semVars, clockVars

(* yield() keeps the invariant. *)
LEMMA YieldInv ==
    ASSUME IInv, Yield, UNCHANGED <<semVars, clockVars, prhasmsg>>
    PROVE  IInv'
<1> USE CallFacts
<1>1. Calling("yield") /\ Resched(prstate, readylist, qkey, preempt) /\ UNCHANGED <<tableVars, frame>>
  BY DEF Yield
<1>2. frame[currpid].at = "user" BY <1>1
<1>3. Moved(prstate) /\ defer' = defer BY <1>1, <1>2, StayMoves DEF IInv
<1>4. Kept(prstate) BY DEF Kept
<1>5. Tables' BY <1>1 DEF IInv, Tables, tableVars, semVars, clockVars
<1>6. Contexts' BY <1>1, <1>2, <1>3, ContextsStay DEF IInv, Moved, Scheduled, Sched, Busy
<1> QED BY <1>2, <1>3, <1>4, <1>5, <1>6, CallKeeps DEF semVars, clockVars

----------------------------------------------------------------------------
(***************************************************************************)
(* create(), sleeping, messages and the clock.                             *)
(***************************************************************************)
LEMMA CreateInv ==
    ASSUME IInv, NEW p \in Pid, NEW prio \in Prios, NEW stack \in BOOLEAN,
           CreateProcess(p, prio, stack)
    PROVE  IInv'
<1> USE CallFacts
<1>1. /\ Calling("create") /\ prstate[p] = "FREE" /\ nextpid' = (p + 1) % NPROC
      /\ IF stack
         THEN /\ prcount' = prcount + 1
              /\ prstate' = [prstate EXCEPT ![p] = "SUSP"]
              /\ prprio' = [prprio EXCEPT ![p] = prio]
              /\ prparent' = [prparent EXCEPT ![p] = currpid]
              /\ frame' = [frame EXCEPT ![p] = User]
         ELSE UNCHANGED <<prcount, prstate, prprio, prparent, frame>>
      /\ UNCHANGED <<qkey, readylist, currpid, preempt, defer, halted>>
      /\ prhasmsg' = IF stack THEN [prhasmsg EXCEPT ![p] = FALSE] ELSE prhasmsg
      /\ UNCHANGED <<semVars, clockVars>>
  BY DEF CreateProcess, Create, Newpid
<1>2. frame[currpid].at = "user" /\ p # currpid BY <1>1
<1>3. prio \in Int BY SchedAssumption
<1>4. (p + 1) % NPROC \in Pid BY SchedAssumption DEF Pid
<1>5. Tables'
  BY <1>1, <1>3, <1>4 DEF IInv, Tables, semVars, clockVars
<1>6. CASE stack
  <2> DEFINE st == [prstate EXCEPT ![p] = "SUSP"]
  <2>1. prstate' = st /\ frame' = [frame EXCEPT ![p] = User] BY <1>1, <1>6
  <2>2. ReadySet(st) = ReadySet(prstate) BY <1>1 DEF ReadySet
  <2>3. /\ st \in [Pid -> PrStates]
        /\ \A q \in Pid : st[q] = "CURR" <=> q = currpid
        /\ st[NULLPROC] \in {"CURR", "READY"}
    BY <1>1, NullInPid DEF IInv, Scheduled, Sched, PrStates
  <2>4. Moved(st)
    BY <1>1, <2>1, <2>2, <2>3 DEF IInv, Moved, Alike, Scheduled, Sched
  <2>5. Kept(st) BY <1>1 DEF Kept, Waiting
  <2>6. Contexts'
    <3>1. \A q \in Pid : frame'[q] = IF q = p THEN User ELSE frame[q] BY <2>1
    <3>2. frame' \in [Pid -> FrameType] BY <2>1
    <3>3. frame'[currpid] = frame[currpid] BY <1>2, <3>1
    <3>4. User.at = "user" /\ "user" \notin Busy /\ "user" \notin OnSem /\ "user" # "kill"
      BY DEF Busy, OnSem
    <3> QED BY <1>1, <3>1, <3>2, <3>3, <3>4 DEF IInv, Contexts, Frames, FrameType
  <2> HIDE DEF st
  <2> QED BY <1>1, <1>2, <1>5, <2>4, <2>5, <2>6, CallKeeps DEF semVars, clockVars
<1>7. CASE ~stack
  <2>1. Moved(prstate) /\ Kept(prstate) BY <1>1, <1>7, StillMoved
  <2>2. Contexts' BY <1>1, <1>2, <1>7, ContextsStay DEF IInv, Busy
  <2> QED BY <1>1, <1>2, <1>5, <2>1, <2>2, CallKeeps DEF semVars, clockVars
<1> QED BY <1>6, <1>7

(* The current process is put on the sleep queue in state s. *)
LEMMA SleepForSafe ==
    ASSUME IInv, NEW delay \in Nat, NEW s \in {"SLEEP", "RECTIM"},
           frame[currpid] = User, currpid # NULLPROC, SleepFor(delay, s)
    PROVE  /\ Scheduled' /\ Sleepers' /\ defer' = defer
           /\ \A sems, t : WaitSet(prstate', sems, t) = WaitSet(prstate, sems, t)
           /\ remaining' \in [Pid -> Nat]
<1> USE CallFacts
<1> DEFINE keys == InsertdKeys(sleepq, qkey, currpid, Int32(delay))
           st == [prstate EXCEPT ![currpid] = s]
<1>1. /\ sleepq' = Insertd(sleepq, qkey, currpid, Int32(delay))
      /\ remaining' = [remaining EXCEPT ![currpid] = delay]
      /\ Block(s, keys)
  BY DEF SleepFor
<1>2. DOMAIN keys = Pid BY DEF InsertdKeys
<1>3. s \in PrStates \ {"CURR", "READY"} BY DEF PrStates
<1> HIDE DEF keys
<1>4. Moved(st) /\ defer' = defer
  BY <1>1, <1>2, <1>3, BlockMoves DEF IInv
<1>5. currpid \notin SleepSet(prstate) /\ SleepSet(st) = SleepSet(prstate) \cup {currpid}
  BY DEF SleepSet
<1>6. Lists(sleepq', SleepSet(prstate) \cup {currpid})
  BY <1>1, <1>5, InsertdLists DEF IInv, Sleepers
<1>7. \A sems, t : WaitSet(st, sems, t) = WaitSet(prstate, sems, t)
  BY DEF WaitSet
<1>8. remaining' \in [Pid -> Nat] BY <1>1 DEF IInv, Tables
<1> HIDE DEF st
<1> QED BY <1>4, <1>5, <1>6, <1>7, <1>8 DEF Moved, Sleepers

(* Steps that leave the semaphores alone. *)
LEMMA NoSemKeeps ==
    ASSUME IInv, Tables', Scheduled', Sleepers', Contexts',
           \A sems, t : WaitSet(prstate', sems, t) = WaitSet(prstate, sems, t),
           UNCHANGED <<squeue, prsem, scount, sstate>>,
           frame[currpid].at \notin {"semreset", "semdelete"}
    PROVE  IInv'
<1>1. Waiters' BY DEF IInv, Waiters
<1>2. SemCounts' /\ FreeSems' BY CountsStay DEF IInv
<1> QED BY <1>1, <1>2 DEF IInv

(* sleepms() puts the caller on the sleep queue as it leaves the           *)
(* processor.                                                              *)
LEMMA SleepmsInv ==
    ASSUME IInv, NEW delay \in Delays, Sleepms(delay), UNCHANGED <<semVars, prhasmsg>>
    PROVE  IInv'
<1> USE CallFacts
<1>1. Calling("sleepms") /\ SleepFor(delay, "SLEEP") /\ UNCHANGED <<tableVars, frame>>
  BY DEF Sleepms
<1>2. frame[currpid].at = "user" /\ frame[currpid] = User /\ currpid # NULLPROC BY <1>1
<1>3. delay \in Nat BY ClockAssumption
<1>4. /\ Scheduled' /\ Sleepers' /\ defer' = defer
      /\ \A sems, t : WaitSet(prstate', sems, t) = WaitSet(prstate, sems, t)
      /\ remaining' \in [Pid -> Nat]
  BY <1>1, <1>2, <1>3, SleepForSafe
<1>5. Tables' BY <1>1, <1>4 DEF IInv, Tables, tableVars, semVars
<1>6. Contexts' BY <1>1, <1>2, <1>4, ContextsStay DEF IInv, Scheduled, Sched
<1> QED BY <1>2, <1>4, <1>5, <1>6, NoSemKeeps DEF semVars

(* recvtime() sleeps with an empty mailbox and goes straight on with a     *)
(* full one.                                                               *)
LEMMA RecvtimeInv ==
    ASSUME IInv, NEW maxwait \in MaxWaits, Recvtime(maxwait), UNCHANGED semVars
    PROVE  IInv'
<1> USE CallFacts
<1> DEFINE g == Frame("recvtime", 0, 0)
<1>1. /\ Calling("recvtime") /\ frame' = [frame EXCEPT ![currpid] = g]
      /\ IF prhasmsg[currpid] THEN UNCHANGED <<schedVars, clockVars>>
                              ELSE SleepFor(maxwait, "RECTIM")
      /\ UNCHANGED <<tableVars, prhasmsg>>
  BY DEF Recvtime
<1>2. frame[currpid].at = "user" /\ frame[currpid] = User /\ currpid # NULLPROC BY <1>1
<1>3. maxwait \in Nat BY ClockAssumption, MsgAssumption
<1>4. /\ Scheduled' /\ Sleepers' /\ defer' = defer
      /\ \A sems, t : WaitSet(prstate', sems, t) = WaitSet(prstate, sems, t)
      /\ remaining' \in [Pid -> Nat]
  <2>1. CASE prhasmsg[currpid]
    <3>1. UNCHANGED <<schedVars, clockVars>> BY <1>1, <2>1
    <3> QED BY <3>1 DEF IInv, Scheduled, Sched, Sleepers, Tables, schedVars, clockVars
  <2>2. CASE ~prhasmsg[currpid] BY <1>1, <1>2, <1>3, <2>2, SleepForSafe
  <2> QED BY <2>1, <2>2
<1>5. Tables' BY <1>1, <1>4 DEF IInv, Tables, tableVars, semVars
<1>6. g \in FrameType /\ g.at = "recvtime" /\ g.at \notin Busy /\ g.at \notin OnSem
  BY DEF Frame, FrameType, Points, Busy, OnSem
<1> HIDE DEF g
<1>7. Contexts' BY <1>1, <1>2, <1>4, <1>6, ContextsStep DEF IInv, Scheduled, Sched
<1> QED BY <1>2, <1>4, <1>5, <1>7, NoSemKeeps DEF semVars

(* The steps at which the current process goes on to the point g, moving   *)
(* nobody to or from a semaphore or the sleep queue. *)
LEMMA PointKeeps ==
    ASSUME IInv, NEW st, Moved(st), Kept(st), Tables', NEW g \in FrameType,
           frame' = [frame EXCEPT ![currpid] = g],
           g.at \notin Busy, g.at = "kill" => g.arg \in Pid \ {NULLPROC},
           frame[currpid].at \notin {"intr", "semreset", "semdelete"}, defer' = defer,
           UNCHANGED <<sleepq, squeue, prsem, scount, sstate>>
    PROVE  IInv'
<1>1. g.at \notin OnSem /\ g.at # "intr" BY DEF Busy, OnSem
<1>2. Contexts'
  BY <1>1, CallFacts, ContextsStep DEF IInv, Moved, Scheduled, Sched
<1> QED BY <1>2, CallKeeps

(* receive() blocks with an empty mailbox; a process in PR_RECV is on no   *)
(* queue.                                                                  *)
LEMMA ReceiveInv ==
    ASSUME IInv, Receive, UNCHANGED semVars
    PROVE  IInv'
<1> USE CallFacts
<1> DEFINE g == Frame("receive", 0, 0)
           st == IF prhasmsg[currpid] THEN prstate ELSE [prstate EXCEPT ![currpid] = "RECV"]
<1>1. /\ Calling("receive") /\ frame' = [frame EXCEPT ![currpid] = g]
      /\ IF prhasmsg[currpid] THEN UNCHANGED schedVars ELSE Block("RECV", qkey)
      /\ UNCHANGED <<tableVars, clockVars, prhasmsg>>
  BY DEF Receive
<1>2. frame[currpid].at = "user" /\ currpid # NULLPROC BY <1>1
<1>3. Moved(st) /\ Kept(st) /\ defer' = defer
  <2>1. CASE prhasmsg[currpid]
    BY <1>1, <2>1, StillMoved DEF schedVars
  <2>2. CASE ~prhasmsg[currpid]
    <3>1. "RECV" \in PrStates \ {"CURR", "READY"} BY DEF PrStates
    <3> QED BY <1>1, <1>2, <2>2, <3>1, BlockMoves DEF IInv, Kept, Waiting
  <2> QED BY <2>1, <2>2
<1>4. Tables' BY <1>1 DEF IInv, Tables, tableVars, semVars, clockVars
<1>5. g \in FrameType /\ g.at = "receive" /\ g.at \notin Busy
  BY DEF Frame, FrameType, Points, Busy
<1> HIDE DEF g, st
<1> QED BY <1>1, <1>2, <1>3, <1>4, <1>5, PointKeeps DEF semVars, clockVars

(* The ends of receive() and recvtime(), after the resched(). *)
LEMMA TakeInv ==
    ASSUME IInv, ReceiveTake \/ RecvtimeTake, UNCHANGED semVars
    PROVE  IInv'
<1> USE CallFacts
<1>1. /\ frame[currpid].at \in {"receive", "recvtime"}
      /\ prhasmsg' = [prhasmsg EXCEPT ![currpid] = FALSE]
      /\ frame' = [frame EXCEPT ![currpid] = User]
      /\ UNCHANGED <<schedVars, tableVars, clockVars>>
  BY DEF ReceiveTake, RecvtimeTake, At, Return
<1>2. Moved(prstate) /\ Kept(prstate) BY <1>1, StillMoved DEF schedVars
<1>3. Tables' BY <1>1 DEF IInv, Tables, tableVars, semVars, clockVars
<1>4. User.at # "kill" OBVIOUS
<1> QED BY <1>1, <1>2, <1>3, <1>4, PointKeeps DEF semVars, clockVars, schedVars

(* recvclr() empties a mailbox and moves nobody. *)
LEMMA RecvclrInv ==
    ASSUME IInv, Recvclr, UNCHANGED semVars
    PROVE  IInv'
<1> USE CallFacts
<1>1. /\ Calling("recvclr") /\ prhasmsg' = [prhasmsg EXCEPT ![currpid] = FALSE]
      /\ UNCHANGED <<schedVars, tableVars, clockVars, frame>>
  BY DEF Recvclr
<1>2. frame[currpid].at = "user" BY <1>1
<1>3. Moved(prstate) /\ Kept(prstate) BY <1>1, StillMoved DEF schedVars
<1>4. Tables' BY <1>1 DEF IInv, Tables, tableVars, semVars, clockVars
<1>5. Contexts' BY <1>1, <1>2, ContextsStay DEF IInv, schedVars, Busy
<1> QED BY <1>1, <1>2, <1>3, <1>4, <1>5, CallKeeps DEF semVars, clockVars

(* A process in recvtime() that is made ready before its time is off the   *)
(* sleep queue. *)
LEMMA WokenSafe ==
    ASSUME IInv, NEW p \in Pid, prstate[p] = "RECTIM",
           Unsleep(p), ReadyResched(p, UnsleepKeys(sleepq, qkey, p)),
           frame[currpid].at # "intr"
    PROVE  /\ Scheduled' /\ Sleepers' /\ defer' = defer
           /\ \A sems, t : WaitSet(prstate', sems, t) = WaitSet(prstate, sems, t)
           /\ remaining' \in [Pid -> Nat]
           /\ Moved(ReadyState(p))
<1> USE CallFacts
<1> DEFINE st == ReadyState(p)
           keys == UnsleepKeys(sleepq, qkey, p)
<1>1. \A q \in Pid : st[q] = IF q = p THEN "READY" ELSE prstate[q] BY DEF ReadyState
<1>2. DOMAIN keys = Pid BY DEF UnsleepKeys
<1> HIDE DEF keys
<1>3. Moved(st) /\ defer' = defer BY <1>2, ReadyReschedMoves DEF IInv, keys
<1>4. p \in SleepSet(prstate) /\ SleepSet(st) = SleepSet(prstate) \ {p}
  BY <1>1 DEF SleepSet
<1>5. Lists(sleepq', SleepSet(st))
  <2>1. Lists(sleepq, SleepSet(prstate)) BY DEF IInv, Sleepers
  <2>2. Lists(Getitem(sleepq, p), SleepSet(prstate) \ {p}) BY <1>4, <2>1, GetitemLists
  <2> QED BY <1>4, <2>2 DEF Unsleep
<1>6. \A sems, t : WaitSet(st, sems, t) = WaitSet(prstate, sems, t)
  BY <1>1 DEF WaitSet
<1>7. remaining' \in [Pid -> Nat] BY DEF IInv, Tables, Unsleep
<1> QED BY <1>3, <1>5, <1>6, <1>7 DEF Moved, Sleepers

(* What send() does to the recipient keeps the queues right: a process in  *)
(* recvtime() leaves the sleep queue as it becomes ready. *)
LEMMA DeliverSafe ==
    ASSUME IInv, NEW p \in Pid, frame[currpid].at # "intr", Deliver(p)
    PROVE  /\ Scheduled' /\ Sleepers' /\ defer' = defer
           /\ \A sems, t : WaitSet(prstate', sems, t) = WaitSet(prstate, sems, t)
           /\ remaining' \in [Pid -> Nat] /\ prhasmsg' \in [Pid -> BOOLEAN]
<1> USE CallFacts
<1> DEFINE st == ReadyState(p)
<1>1. prhasmsg' \in [Pid -> BOOLEAN] BY DEF Deliver, IInv, Tables
<1>2. \A q \in Pid : st[q] = IF q = p THEN "READY" ELSE prstate[q] BY DEF ReadyState
<1>3. CASE prstate[p] = "RECV"
  <2>1. ReadyResched(p, qkey) /\ UNCHANGED clockVars BY <1>3 DEF Deliver
  <2>2. Moved(st) /\ defer' = defer BY <1>3, <2>1, ReadyReschedMoves DEF IInv
  <2>3. Kept(st) BY <1>2, <1>3 DEF Kept, Waiting
  <2>4. /\ SleepSet(prstate') = SleepSet(prstate)
        /\ \A sems, t : WaitSet(prstate', sems, t) = WaitSet(prstate, sems, t)
    BY <2>2, <2>3, KeptSets DEF Moved
  <2>5. Sleepers' BY <2>1, <2>4 DEF IInv, Sleepers, clockVars
  <2>6. remaining' \in [Pid -> Nat] BY <2>1 DEF IInv, Tables, clockVars
  <2> QED BY <1>1, <2>2, <2>4, <2>5, <2>6 DEF Moved
<1>4. CASE prstate[p] = "RECTIM"
  <2>1. Unsleep(p) /\ ReadyResched(p, UnsleepKeys(sleepq, qkey, p)) BY <1>4 DEF Deliver
  <2> QED BY <1>1, <1>4, <2>1, WokenSafe
<1>5. CASE prstate[p] \notin {"RECV", "RECTIM"}
  <2>1. UNCHANGED <<schedVars, clockVars>> BY <1>5 DEF Deliver
  <2> QED BY <1>1, <2>1 DEF IInv, Scheduled, Sched, Sleepers, Tables, schedVars, clockVars
<1> QED BY <1>3, <1>4, <1>5

(* send() keeps the invariant, be the recipient blocked, asleep with a     *)
(* time limit, or neither.                                                 *)
LEMMA SendInv ==
    ASSUME IInv, NEW p \in Pid, Send(p), UNCHANGED semVars
    PROVE  IInv'
<1> USE CallFacts
<1>1. Calling("send") /\ Deliver(p) /\ UNCHANGED <<tableVars, frame>>
  BY DEF Send
<1>2. frame[currpid].at = "user" BY <1>1
<1>3. /\ Scheduled' /\ Sleepers' /\ defer' = defer
      /\ \A sems, t : WaitSet(prstate', sems, t) = WaitSet(prstate, sems, t)
      /\ remaining' \in [Pid -> Nat] /\ prhasmsg' \in [Pid -> BOOLEAN]
  BY <1>1, <1>2, DeliverSafe
<1>4. Tables' BY <1>1, <1>3 DEF IInv, Tables, tableVars, semVars
<1>5. Contexts' BY <1>1, <1>2, <1>3, ContextsStay DEF IInv, Scheduled, Sched, Busy
<1> QED BY <1>2, <1>3, <1>4, <1>5, NoSemKeeps DEF semVars

(* The tick itself: one key and the auxiliary delays change. *)
LEMMA ClkhandlerInv ==
    ASSUME IInv, Clkhandler, UNCHANGED <<semVars, prhasmsg>>
    PROVE  IInv'
<1> USE CallFacts
<1>1. PICK point \in {"wakeup", "clk"} :
        frame' = [frame EXCEPT ![currpid] = Frame(point, 0, 0)]
  BY DEF Clkhandler
<1> DEFINE g == Frame(point, 0, 0)
<1>2. /\ frame[currpid] = User
      /\ remaining' = [p \in Pid |-> IF remaining[p] > 0 THEN remaining[p] - 1 ELSE 0]
      /\ UNCHANGED <<prstate, readylist, currpid, preempt, defer, tableVars, sleepq>>
      /\ qkey' = IF sleepq = <<>> THEN qkey ELSE [qkey EXCEPT ![Head(sleepq)] = @ - 1]
  BY DEF Clkhandler
<1>3. Scheduled' BY <1>2 DEF IInv, Scheduled, Sched
<1>4. Sleepers' BY <1>2 DEF IInv, Sleepers
<1>5. remaining' \in [Pid -> Nat]
  <2>1. \A p \in Pid : remaining[p] \in Nat BY DEF IInv, Tables
  <2>2. \A p \in Pid : (IF remaining[p] > 0 THEN remaining[p] - 1 ELSE 0) \in Nat
    BY <2>1
  <2> QED BY <1>2, <2>2
<1>6. Tables' BY <1>2, <1>5 DEF IInv, Tables, tableVars, semVars
<1>7. g \in FrameType /\ g.at = point /\ g.at \notin OnSem /\ g.at # "kill" /\ g.at # "intr"
  BY DEF Frame, FrameType, Points, OnSem
<1> HIDE DEF g
<1>8. Contexts'
  BY <1>1, <1>2, <1>7, ContextsStep DEF IInv, g
<1>9. frame[currpid].at = "user" BY <1>2
<1> QED BY <1>2, <1>3, <1>4, <1>6, <1>8, <1>9, NoSemKeeps DEF semVars

(* An iteration of wakeup(): the head of the sleep queue becomes ready. *)
LEMMA WakeupLoopInv ==
    ASSUME IInv, WakeupLoop, UNCHANGED <<semVars, prhasmsg>>
    PROVE  IInv'
<1> USE CallFacts
<1> DEFINE p == Head(sleepq)
           st == ReadyState(p)
<1>1. /\ frame[currpid].at = "wakeup" /\ sleepq # <<>>
      /\ sleepq' = Tail(sleepq) /\ ReadyOnly(p, qkey)
      /\ UNCHANGED <<tableVars, frame, remaining>>
  BY DEF WakeupLoop, At
<1>2. Lists(sleepq, SleepSet(prstate)) BY DEF IInv, Sleepers
<1>3. p \in SleepSet(prstate) /\ Lists(Tail(sleepq), SleepSet(prstate) \ {p})
  BY <1>1, <1>2, TailLists
<1> HIDE DEF p
<1>4. p \in Pid /\ prstate[p] \notin {"CURR", "READY", "WAIT"} BY <1>3 DEF SleepSet
<1>5. Moved(st) /\ currpid' = currpid /\ defer' = defer
  BY <1>1, <1>4, ReadyOnlyMoves DEF IInv
<1>6. \A q \in Pid : st[q] = IF q = p THEN "READY" ELSE prstate[q] BY DEF ReadyState
<1>7. SleepSet(st) = SleepSet(prstate) \ {p}
  BY <1>3, <1>6 DEF SleepSet
<1>8. \A sems, t : WaitSet(st, sems, t) = WaitSet(prstate, sems, t)
  BY <1>4, <1>6 DEF WaitSet
<1> HIDE DEF st
<1>9. Scheduled' /\ Sleepers' BY <1>1, <1>3, <1>5, <1>7 DEF Moved, Sleepers
<1>10. Tables' BY <1>1 DEF IInv, Tables, tableVars, semVars
<1>11. Contexts' BY <1>1, <1>5 DEF IInv, Contexts
<1> QED BY <1>1, <1>5, <1>8, <1>9, <1>10, <1>11, NoSemKeeps DEF semVars, Moved

(* The resched() at the end of wakeup(), in the middle of the clock        *)
(* handler.                                                                *)
LEMMA WakeupDoneInv ==
    ASSUME IInv, WakeupDone, UNCHANGED <<semVars, prhasmsg>>
    PROVE  IInv'
<1> USE CallFacts
<1> DEFINE g == Frame("clk", 0, 0)
<1>1. /\ frame[currpid].at = "wakeup" /\ frame' = [frame EXCEPT ![currpid] = g]
      /\ Resched(prstate, readylist, qkey, preempt) /\ UNCHANGED <<tableVars, clockVars>>
  BY DEF WakeupDone, At
<1>2. Moved(prstate) /\ defer' = defer BY <1>1, StayMoves DEF IInv
<1>3. Kept(prstate) BY DEF Kept
<1>4. Tables' BY <1>1 DEF IInv, Tables, tableVars, semVars, clockVars
<1>5. g \in FrameType /\ g.at = "clk" /\ g.at \notin Busy
  BY DEF Frame, FrameType, Points, Busy
<1> HIDE DEF g
<1> QED BY <1>1, <1>2, <1>3, <1>4, <1>5, PointKeeps DEF semVars, clockVars

(* The end of the clock handler: the slice is renewed before it can reach  *)
(* 0.                                                                      *)
LEMMA ClkPreemptInv ==
    ASSUME IInv, ClkPreempt, UNCHANGED <<semVars, prhasmsg>>
    PROVE  IInv'
<1> USE CallFacts
<1>1. /\ frame[currpid].at = "clk" /\ frame' = [frame EXCEPT ![currpid] = User]
      /\ UNCHANGED <<tableVars, clockVars>>
  BY DEF ClkPreempt, At, Return
<1>2. Moved(prstate) /\ defer' = defer
  <2>1. CASE preempt - 1 <= 0
    <3>1. Resched(prstate, readylist, qkey, QUANTUM) BY <2>1 DEF ClkPreempt
    <3> QED BY <1>1, <3>1, StayMoves, NullInPid DEF IInv
  <2>2. CASE ~(preempt - 1 <= 0)
    <3>1. preempt' = preempt - 1 /\ UNCHANGED <<prstate, qkey, readylist, currpid, defer>>
      BY <2>2 DEF ClkPreempt
    <3>2. preempt - 1 \in 1 .. QUANTUM BY <2>2, SchedAssumption
    <3> QED BY <3>1, <3>2 DEF IInv, Moved, Alike, Scheduled, Sched
  <2> QED BY <2>1, <2>2
<1>3. Kept(prstate) BY DEF Kept
<1>4. Tables' BY <1>1 DEF IInv, Tables, tableVars, semVars, clockVars
<1>5. User.at # "kill" OBVIOUS
<1> QED BY <1>1, <1>2, <1>3, <1>4, <1>5, PointKeeps DEF semVars, clockVars

----------------------------------------------------------------------------
(***************************************************************************)
(* kill()                                                                  *)
(***************************************************************************)
LEMMA KillInv ==
    ASSUME IInv, NEW victim \in Pid, Kill(victim)
    PROVE  IInv'
<1> USE CallFacts
<1> DEFINE g == Frame("kill", victim, 0)
<1>1. /\ Calling("kill") /\ victim # NULLPROC /\ prcount' = prcount - 1
      /\ UNCHANGED <<prprio, prparent, nextpid, semVars>>
  BY DEF Kill
<1>2. frame[currpid].at = "user" BY <1>1
<1>3. CASE KillReports(victim)
  <2> DEFINE parent == prparent[victim]
  <2>1. /\ frame' = [frame EXCEPT ![currpid] = g] /\ halted' = halted
        /\ IF Sendable(parent) THEN Deliver(parent)
           ELSE UNCHANGED <<schedVars, clockVars, prhasmsg>>
    BY <1>3 DEF KillReports
  <2>2. parent \in Pid BY DEF IInv, Tables
  <2>3. /\ Scheduled' /\ Sleepers' /\ defer' = defer
        /\ \A sems, t : WaitSet(prstate', sems, t) = WaitSet(prstate, sems, t)
        /\ remaining' \in [Pid -> Nat] /\ prhasmsg' \in [Pid -> BOOLEAN]
    <3>1. CASE Sendable(parent) BY <1>2, <2>1, <2>2, <3>1, DeliverSafe
    <3>2. CASE ~Sendable(parent)
      <4>1. UNCHANGED <<schedVars, clockVars, prhasmsg>> BY <2>1, <3>2
      <4> QED BY <4>1 DEF IInv, Scheduled, Sched, Sleepers, Tables, schedVars, clockVars
    <3> QED BY <3>1, <3>2
  <2>4. Tables' BY <1>1, <2>1, <2>3 DEF IInv, Tables, semVars
  <2>5. g \in FrameType /\ g.at = "kill" /\ g.at \notin Busy /\ g.at \notin OnSem /\ g.arg = victim
    BY DEF Frame, FrameType, Points, Busy, OnSem, Pid
  <2> HIDE DEF g
  <2>6. Contexts'
    BY <1>1, <1>2, <2>1, <2>3, <2>5, ContextsStep DEF IInv, Scheduled, Sched
  <2> QED BY <1>1, <1>2, <2>3, <2>4, <2>6, NoSemKeeps DEF semVars
<1>4. CASE KillHalts
  <2>1. halted' = TRUE /\ UNCHANGED <<schedVars, frame, clockVars, prhasmsg>>
    BY <1>4 DEF KillHalts
  <2>2. Moved(prstate) /\ Kept(prstate) BY <2>1, StillMoved DEF schedVars
  <2>3. Tables' BY <1>1, <2>1 DEF IInv, Tables, semVars, clockVars
  <2>4. Contexts' BY <1>2, <2>1, ContextsStay DEF IInv, schedVars, Busy
  <2> QED BY <1>1, <1>2, <2>1, <2>2, <2>3, <2>4, CallKeeps DEF semVars, clockVars
<1> QED BY <1>3, <1>4 DEF Kill

(* The rest of a kill() of oneself, after the parent was told. *)
LEMMA KillSelfInv ==
    ASSUME IInv, KillSelf
    PROVE  IInv'
<1> USE CallFacts
<1> DEFINE st == [prstate EXCEPT ![currpid] = "FREE"]
<1>1. /\ frame[currpid].at = "kill" /\ frame[currpid].arg = currpid
      /\ Block("FREE", qkey) /\ frame' = [frame EXCEPT ![currpid] = User]
      /\ UNCHANGED <<tableVars, semVars, clockVars, prhasmsg>>
  BY DEF KillSelf, At, Return
<1>2. currpid # NULLPROC BY <1>1 DEF IInv, Contexts, Frames
<1>3. "FREE" \in PrStates \ {"CURR", "READY"} BY DEF PrStates
<1>4. Moved(st) /\ defer' = defer BY <1>1, <1>2, <1>3, BlockMoves DEF IInv
<1>5. Kept(st) BY DEF Kept, Waiting
<1>6. Tables' BY <1>1 DEF IInv, Tables, tableVars, semVars, clockVars
<1> HIDE DEF st
<1>7. User.at # "kill" OBVIOUS
<1> QED BY <1>1, <1>4, <1>5, <1>6, <1>7, PointKeeps DEF semVars, clockVars

(* The rest of a kill() of another process, which may have moved to        *)
(* another queue, or died, while the report to its parent gave the         *)
(* processor away.                                                         *)
LEMMA KillOtherInv ==
    ASSUME IInv, KillOther
    PROVE  IInv'
<1> USE CallFacts
<1> DEFINE v  == frame[currpid].arg
           st == [prstate EXCEPT ![v] = "FREE"]
<1>1. /\ frame[currpid].at = "kill" /\ v # currpid
      /\ frame' = [frame EXCEPT ![currpid] = User] /\ prstate' = st
      /\ UNCHANGED <<currpid, preempt, defer, tableVars, sstate, prsem, nextsem, prhasmsg>>
  BY DEF KillOther, At, Return
<1>2. v \in Pid /\ v # NULLPROC BY <1>1 DEF IInv, Contexts, Frames
<1>3. /\ st \in [Pid -> PrStates]
      /\ \A q \in Pid : st[q] = IF q = v THEN "FREE" ELSE prstate[q]
      /\ \A q \in Pid : st[q] = "CURR" <=> q = currpid
      /\ st[NULLPROC] \in {"CURR", "READY"}
  BY <1>1, <1>2, NullInPid DEF IInv, Scheduled, Sched, PrStates
<1>4. Contexts'
  <2>1. User.at # "kill" /\ User.at \notin OnSem /\ User.at # "intr" BY DEF OnSem
  <2> QED BY <1>1, <2>1, ContextsStep DEF IInv
<1>5. /\ Lists(readylist, ReadySet(prstate)) /\ Lists(sleepq, SleepSet(prstate))
      /\ DOMAIN squeue = Sem
      /\ \A s \in Sem : Lists(squeue[s], WaitSet(prstate, prsem, s))
      /\ scount \in [Sem -> Int] /\ prsem \in [Pid -> Sem] /\ remaining \in [Pid -> Nat]
  BY DEF IInv, Scheduled, Sched, Sleepers, Waiters, Tables
<1>6. \A s \in Sem : Len(squeue[s]) = IF scount[s] < 0 THEN 0 - scount[s] ELSE 0
  BY <1>1 DEF IInv, SemCounts, Resetting
<1>7. /\ prstate[v] # "READY" => ReadySet(st) = ReadySet(prstate)
      /\ prstate[v] = "READY" => v \in ReadySet(prstate) /\ ReadySet(st) = ReadySet(prstate) \ {v}
      /\ prstate[v] \notin {"SLEEP", "RECTIM"} => SleepSet(st) = SleepSet(prstate)
      /\ prstate[v] \in {"SLEEP", "RECTIM"} => v \in SleepSet(prstate) /\ SleepSet(st) = SleepSet(prstate) \ {v}
  BY <1>2, <1>3 DEF ReadySet, SleepSet
<1>8. \A s \in Sem :
        IF prstate[v] = "WAIT" /\ s = prsem[v]
        THEN v \in WaitSet(prstate, prsem, s) /\ WaitSet(st, prsem, s) = WaitSet(prstate, prsem, s) \ {v}
        ELSE WaitSet(st, prsem, s) = WaitSet(prstate, prsem, s)
  BY <1>2, <1>3 DEF WaitSet
<1> SUFFICES /\ Lists(readylist', ReadySet(st)) /\ DOMAIN qkey' = Pid
             /\ Lists(sleepq', SleepSet(st))
             /\ DOMAIN squeue' = Sem
             /\ \A s \in Sem : Lists(squeue'[s], WaitSet(st, prsem, s))
             /\ scount' \in [Sem -> Int] /\ remaining' \in [Pid -> Nat]
             /\ \A s \in Sem : Len(squeue'[s]) = IF scount'[s] < 0 THEN 0 - scount'[s] ELSE 0
             /\ \A s \in Sem : scount[s] <= scount'[s]
  <2> HIDE DEF st
  <2> SUFFICES Tables' /\ Scheduled' /\ Sleepers' /\ Waiters' /\ SemCounts' /\ FreeSems'
    BY <1>4 DEF IInv
  <2>1. Tables' BY <1>1 DEF IInv, Tables, tableVars
  <2>2. Scheduled' BY <1>1, <1>3 DEF IInv, Scheduled, Sched
  <2>3. Sleepers' /\ Waiters' BY <1>1 DEF Sleepers, Waiters
  <2>4. SemCounts' BY DEF SemCounts
  <2>5. \A s \in Sem : sstate[s] = "FREE" => scount[s] >= 0
    BY <1>1 DEF IInv, FreeSems, Deleting
  <2>6. FreeSems' BY <1>1, <1>5, <2>5 DEF FreeSems
  <2> QED BY <2>1, <2>2, <2>3, <2>4, <2>6
<1>9. CASE prstate[v] \in {"SLEEP", "RECTIM"}
  <2>1. /\ qkey' = UnsleepKeys(sleepq, qkey, v)
        /\ sleepq' = Getitem(sleepq, v) /\ remaining' = [remaining EXCEPT ![v] = 0]
        /\ UNCHANGED <<scount, squeue, readylist>>
    BY <1>9 DEF KillOther, Unsleep
  <2>2. DOMAIN qkey' = Pid BY <2>1 DEF UnsleepKeys
  <2>3. Lists(sleepq', SleepSet(st))
    <3>1. v \in SleepSet(prstate) /\ SleepSet(st) = SleepSet(prstate) \ {v} BY <1>7, <1>9
    <3> HIDE DEF v
    <3>2. Lists(Getitem(sleepq, v), SleepSet(prstate) \ {v}) BY <1>5, <3>1, GetitemLists
    <3> QED BY <2>1, <3>1, <3>2
  <2>4. \A s \in Sem : WaitSet(st, prsem, s) = WaitSet(prstate, prsem, s) BY <1>8, <1>9
  <2>5. ReadySet(st) = ReadySet(prstate) BY <1>7, <1>9
  <2>6. remaining' \in [Pid -> Nat] BY <1>5, <2>1
  <2>7. \A s \in Sem : scount[s] <= scount'[s] BY <1>5, <2>1
  <2> HIDE DEF v, st
  <2> QED BY <1>5, <1>6, <2>1, <2>2, <2>3, <2>4, <2>5, <2>6, <2>7
<1>10. CASE prstate[v] = "WAIT"
  <2> DEFINE t == prsem[v]
  <2>1. /\ scount' = [scount EXCEPT ![t] = @ + 1]
        /\ squeue' = [squeue EXCEPT ![t] = Getitem(@, v)]
        /\ UNCHANGED <<qkey, clockVars, readylist>>
    BY <1>10 DEF KillOther
  <2>2. t \in Sem BY <1>2, <1>5
  <2>3. v \in WaitSet(prstate, prsem, t) BY <1>8, <1>10, <2>2
  <2>4. ReadySet(st) = ReadySet(prstate) /\ SleepSet(st) = SleepSet(prstate) BY <1>7, <1>10
  <2>5. /\ Lists(squeue[t], WaitSet(prstate, prsem, t))
        /\ Lists(Getitem(squeue[t], v), WaitSet(prstate, prsem, t) \ {v})
        /\ Len(Getitem(squeue[t], v)) = Len(squeue[t]) - 1
    <3> DEFINE q == squeue[t]
               W == WaitSet(prstate, prsem, t)
    <3>1. Lists(q, W) BY <1>5, <2>2
    <3>2. v \in W BY <2>3
    <3> HIDE DEF v, t, q, W
    <3>3. Lists(Getitem(q, v), W \ {v}) /\ Len(Getitem(q, v)) = Len(q) - 1
      BY <3>1, <3>2, GetitemLists
    <3> QED BY <3>1, <3>3 DEF q, W
  <2>6. Len(squeue[t]) \in Nat BY <2>5, LenProperties DEF Lists
  <2>7. \A s \in Sem : s # t => squeue'[s] = squeue[s] /\ scount'[s] = scount[s]
    BY <1>5, <2>1, <2>2
  <2>8. squeue'[t] = Getitem(squeue[t], v) /\ scount'[t] = scount[t] + 1 /\ scount[t] \in Int
    BY <1>5, <2>1, <2>2
  <2>9. \A s \in Sem : Lists(squeue'[s], WaitSet(st, prsem, s))
    BY <1>5, <1>8, <1>10, <2>5, <2>7, <2>8
  <2>10. \A s \in Sem : Len(squeue'[s]) = IF scount'[s] < 0 THEN 0 - scount'[s] ELSE 0
    <3>1. Getitem(squeue[t], v) \in Seq(WaitSet(prstate, prsem, t) \ {v}) BY <2>5 DEF Lists
    <3>2. Len(squeue[t]) >= 1 BY <2>5, <2>6, <3>1, LenProperties
    <3>3. scount[t] < 0 /\ Len(squeue[t]) = 0 - scount[t] BY <1>6, <2>2, <3>2
    <3>4. Len(squeue'[t]) = IF scount'[t] < 0 THEN 0 - scount'[t] ELSE 0
      BY <2>5, <2>8, <3>3
    <3> QED BY <1>6, <2>7, <3>4
  <2>11. /\ scount' \in [Sem -> Int] /\ DOMAIN squeue' = Sem
         /\ \A s \in Sem : scount[s] <= scount'[s]
    BY <1>5, <2>1, <2>2, <2>7, <2>8
  <2> HIDE DEF v, st, t
  <2> QED BY <1>5, <2>1, <2>4, <2>9, <2>10, <2>11 DEF clockVars
<1>11. CASE prstate[v] = "READY"
  <2>1. readylist' = Getitem(readylist, v) /\ UNCHANGED <<qkey, clockVars, scount, squeue>>
    BY <1>11 DEF KillOther
  <2>2. Lists(readylist', ReadySet(st))
    <3>1. v \in ReadySet(prstate) /\ ReadySet(st) = ReadySet(prstate) \ {v} BY <1>7, <1>11
    <3> HIDE DEF v
    <3>2. Lists(Getitem(readylist, v), ReadySet(prstate) \ {v}) BY <1>5, <3>1, GetitemLists
    <3> QED BY <2>1, <3>1, <3>2
  <2>3. \A s \in Sem : WaitSet(st, prsem, s) = WaitSet(prstate, prsem, s) BY <1>8, <1>11
  <2>4. SleepSet(st) = SleepSet(prstate) BY <1>7, <1>11
  <2> HIDE DEF v, st
  <2> QED BY <1>5, <1>6, <2>1, <2>2, <2>3, <2>4 DEF clockVars
<1>12. CASE prstate[v] \notin {"SLEEP", "RECTIM", "WAIT", "READY"}
  <2>1. UNCHANGED <<qkey, clockVars, scount, squeue, readylist>>
    BY <1>12 DEF KillOther
  <2>2. \A s \in Sem : WaitSet(st, prsem, s) = WaitSet(prstate, prsem, s) BY <1>8, <1>12
  <2>3. SleepSet(st) = SleepSet(prstate) /\ ReadySet(st) = ReadySet(prstate) BY <1>7, <1>12
  <2> HIDE DEF v, st
  <2> QED BY <1>5, <1>6, <2>1, <2>2, <2>3 DEF clockVars
<1> QED BY <1>9, <1>10, <1>11, <1>12

----------------------------------------------------------------------------
(***************************************************************************)
(* Semaphores.                                                             *)
(***************************************************************************)

(* The first process on the queue of s is taken off it and made ready. *)
LEMMA HeadReleased ==
    ASSUME IInv, NEW s \in Sem, squeue[s] # <<>>
    PROVE  LET p  == Head(squeue[s])
               st == ReadyState(p)
           IN  /\ p \in Pid /\ prstate[p] = "WAIT"
               /\ Lists(Tail(squeue[s]), WaitSet(st, prsem, s))
               /\ Len(Tail(squeue[s])) = Len(squeue[s]) - 1
               /\ Len(squeue[s]) \in Nat \ {0}
               /\ \A t \in Sem : t # s => WaitSet(st, prsem, t) = WaitSet(prstate, prsem, t)
               /\ SleepSet(st) = SleepSet(prstate)
<1> DEFINE p  == Head(squeue[s])
           st == ReadyState(p)
           W  == WaitSet(prstate, prsem, s)
<1>1. Lists(squeue[s], W) BY DEF IInv, Waiters
<1> HIDE DEF W
<1>2. p \in W /\ Lists(Tail(squeue[s]), W \ {p}) /\ Len(Tail(squeue[s])) = Len(squeue[s]) - 1
  BY <1>1, TailLists
<1> HIDE DEF p
<1>3. p \in Pid /\ prstate[p] = "WAIT" /\ prsem[p] = s BY <1>2 DEF W, WaitSet
<1>4. \A q \in Pid : st[q] = IF q = p THEN "READY" ELSE prstate[q]
  BY CallFacts DEF ReadyState
<1>5. WaitSet(st, prsem, s) = W \ {p} BY <1>3, <1>4 DEF W, WaitSet
<1>6. \A t \in Sem : t # s => WaitSet(st, prsem, t) = WaitSet(prstate, prsem, t)
  BY <1>3, <1>4 DEF WaitSet
<1>7. SleepSet(st) = SleepSet(prstate) BY <1>3, <1>4 DEF SleepSet
<1>8. Len(squeue[s]) \in Nat \ {0} BY <1>1, EmptySeq DEF Lists
<1> QED BY <1>2, <1>3, <1>5, <1>6, <1>7, <1>8 DEF p

(* The states after `if (scount++ < 0) ready(dequeue(squeue))`. *)
Release_st(s) == IF scount[s] < 0 THEN ReadyState(Head(squeue[s])) ELSE prstate

(* A negative count means that there is a process to release. *)
LEMMA NegativeWaits ==
    ASSUME IInv, frame[currpid].at # "semreset", NEW s \in Sem
    PROVE  /\ scount[s] \in Int /\ Len(squeue[s]) \in Nat
           /\ Len(squeue[s]) = IF scount[s] < 0 THEN 0 - scount[s] ELSE 0
           /\ scount[s] < 0 => squeue[s] # <<>>
<1>1. Len(squeue[s]) = IF scount[s] < 0 THEN 0 - scount[s] ELSE 0
  BY DEF IInv, SemCounts, Resetting
<1>2. scount[s] \in Int BY DEF IInv, Tables
<1>3. squeue[s] \in Seq(WaitSet(prstate, prsem, s)) BY DEF IInv, Waiters, Lists
<1>4. Len(squeue[s]) \in Nat /\ (squeue[s] = <<>> => Len(squeue[s]) = 0)
  BY <1>3, LenProperties, EmptySeq
<1>5. scount[s] < 0 => Len(squeue[s]) # 0 BY <1>1, <1>2
<1> QED BY <1>1, <1>2, <1>4, <1>5

(* Releasing one waiter, or adding a token when there is none, keeps       *)
(* queues and count together, whether or not the processor moves on.       *)
LEMMA ReleaseKeeps ==
    ASSUME IInv, frame[currpid].at # "semreset", NEW s \in Sem,
           Moved(Release_st(s)), UNCHANGED <<prsem, sleepq>>,
           scount' = [scount EXCEPT ![s] = @ + 1],
           squeue' = IF scount[s] < 0 THEN [squeue EXCEPT ![s] = Tail(@)] ELSE squeue
    PROVE  Scheduled' /\ Sleepers' /\ Waiters' /\ SemCounts' /\ scount' \in [Sem -> Int]
<1> DEFINE st == Release_st(s)
<1>1. /\ DOMAIN squeue = Sem /\ scount \in [Sem -> Int]
      /\ \A t \in Sem : Lists(squeue[t], WaitSet(prstate, prsem, t))
      /\ Lists(sleepq, SleepSet(prstate))
  BY DEF IInv, Waiters, Tables, Sleepers
<1>2. \A t \in Sem : Len(squeue[t]) = IF scount[t] < 0 THEN 0 - scount[t] ELSE 0
  BY DEF IInv, SemCounts, Resetting
<1>3. /\ scount[s] \in Int /\ Len(squeue[s]) \in Nat
      /\ Len(squeue[s]) = IF scount[s] < 0 THEN 0 - scount[s] ELSE 0
      /\ scount[s] < 0 => squeue[s] # <<>>
  BY NegativeWaits
<1>4. /\ DOMAIN squeue' = Sem /\ scount' \in [Sem -> Int]
      /\ \A t \in Sem : t # s => squeue'[t] = squeue[t] /\ scount'[t] = scount[t]
      /\ scount'[s] = scount[s] + 1
      /\ squeue'[s] = IF scount[s] < 0 THEN Tail(squeue[s]) ELSE squeue[s]
  BY <1>1
<1>5. /\ \A t \in Sem : Lists(squeue'[t], WaitSet(st, prsem, t))
      /\ SleepSet(st) = SleepSet(prstate)
      /\ Len(squeue'[s]) = IF scount'[s] < 0 THEN 0 - scount'[s] ELSE 0
  <2>1. CASE scount[s] < 0
    <3>1. st = ReadyState(Head(squeue[s])) BY <2>1 DEF Release_st
    <3>2. /\ Lists(Tail(squeue[s]), WaitSet(st, prsem, s))
          /\ Len(Tail(squeue[s])) = Len(squeue[s]) - 1
          /\ \A t \in Sem : t # s => WaitSet(st, prsem, t) = WaitSet(prstate, prsem, t)
          /\ SleepSet(st) = SleepSet(prstate)
      BY <1>3, <2>1, <3>1, HeadReleased
    <3> HIDE DEF st
    <3>3. \A t \in Sem : Lists(squeue'[t], WaitSet(st, prsem, t))
      BY <1>1, <1>4, <2>1, <3>2
    <3>4. Len(squeue'[s]) = IF scount'[s] < 0 THEN 0 - scount'[s] ELSE 0
      BY <1>3, <1>4, <2>1, <3>2
    <3> QED BY <3>2, <3>3, <3>4
  <2>2. CASE ~(scount[s] < 0)
    <3>1. st = prstate BY <2>2 DEF Release_st
    <3> QED BY <1>1, <1>3, <1>4, <2>2, <3>1
  <2> QED BY <2>1, <2>2
<1> HIDE DEF st
<1>6. /\ Scheduled' /\ SleepSet(prstate') = SleepSet(st)
      /\ \A t \in Sem : WaitSet(prstate', prsem', t) = WaitSet(st, prsem, t)
  BY DEF Moved, st
<1>7. Sleepers' BY <1>1, <1>5, <1>6 DEF Sleepers
<1>8. Waiters' BY <1>4, <1>5, <1>6 DEF Waiters
<1>9. SemCounts' BY <1>2, <1>4, <1>5 DEF SemCounts
<1> QED BY <1>4, <1>6, <1>7, <1>8, <1>9

(* The body of signal(): a waiter is readied with rescheduling, deferred   *)
(* or not.                                                                 *)
LEMMA ReleaseReschedSafe ==
    ASSUME IInv, frame[currpid].at # "semreset", NEW s \in Sem,
           Release(s, RESCHED_YES), UNCHANGED <<prsem, sleepq>>
    PROVE  /\ Moved(Release_st(s))
           /\ Scheduled' /\ Sleepers' /\ Waiters' /\ SemCounts' /\ scount' \in [Sem -> Int]
           /\ frame[currpid].at = "intr" => currpid' = currpid
           /\ frame[currpid].at # "intr" => defer' = defer
           /\ defer' \in [ndefers : 0 .. 1, attempt : BOOLEAN]
           /\ defer'.ndefers = defer.ndefers
<1>1. CASE scount[s] < 0
  <2> DEFINE p == Head(squeue[s])
  <2>1. /\ scount' = [scount EXCEPT ![s] = @ + 1]
        /\ squeue' = [squeue EXCEPT ![s] = Tail(@)] /\ ReadyResched(p, qkey)
    BY <1>1 DEF Release, Ready, RESCHED_YES
  <2>2. p \in Pid /\ prstate[p] = "WAIT" BY <1>1, NegativeWaits, HeadReleased
  <2>3. Release_st(s) = ReadyState(p) BY <1>1 DEF Release_st
  <2> HIDE DEF p
  <2>4. /\ Moved(ReadyState(p))
        /\ frame[currpid].at = "intr" => currpid' = currpid
        /\ frame[currpid].at # "intr" => defer' = defer
        /\ defer' \in [ndefers : 0 .. 1, attempt : BOOLEAN]
        /\ defer'.ndefers = defer.ndefers
    BY <2>1, <2>2, CallFacts, ReadyReschedMoves DEF IInv
  <2> QED BY <1>1, <2>1, <2>3, <2>4, ReleaseKeeps
<1>2. CASE ~(scount[s] < 0)
  <2>1. /\ scount' = [scount EXCEPT ![s] = @ + 1] /\ UNCHANGED <<squeue, schedVars>>
    BY <1>2 DEF Release, Ready, RESCHED_YES
  <2>2. Release_st(s) = prstate BY <1>2 DEF Release_st
  <2>3. Moved(prstate) BY <2>1, StillMoved DEF schedVars
  <2> QED BY <1>2, <2>1, <2>2, <2>3, CallFacts, ReleaseKeeps DEF schedVars
<1> QED BY <1>1, <1>2

(* The body of the loops of signaln() and semdelete(): a waiter is readied *)
(* without rescheduling.                                                   *)
LEMMA ReleaseOnlySafe ==
    ASSUME IInv, frame[currpid].at # "semreset", NEW s \in Sem,
           Release(s, RESCHED_NO), UNCHANGED <<prsem, sleepq>>
    PROVE  /\ Moved(Release_st(s))
           /\ Scheduled' /\ Sleepers' /\ Waiters' /\ SemCounts' /\ scount' \in [Sem -> Int]
           /\ currpid' = currpid /\ defer' = defer
<1>1. CASE scount[s] < 0
  <2> DEFINE p == Head(squeue[s])
  <2>1. /\ scount' = [scount EXCEPT ![s] = @ + 1]
        /\ squeue' = [squeue EXCEPT ![s] = Tail(@)] /\ ReadyOnly(p, qkey)
    BY <1>1 DEF Release, Ready, RESCHED_NO
  <2>2. p \in Pid /\ prstate[p] = "WAIT" BY <1>1, NegativeWaits, HeadReleased
  <2>3. Release_st(s) = ReadyState(p) BY <1>1 DEF Release_st
  <2> HIDE DEF p
  <2>4. Moved(ReadyState(p)) /\ currpid' = currpid /\ defer' = defer
    BY <2>1, <2>2, CallFacts, ReadyOnlyMoves DEF IInv
  <2> QED BY <1>1, <2>1, <2>3, <2>4, ReleaseKeeps
<1>2. CASE ~(scount[s] < 0)
  <2>1. /\ scount' = [scount EXCEPT ![s] = @ + 1] /\ UNCHANGED <<squeue, schedVars>>
    BY <1>2 DEF Release, Ready, RESCHED_NO
  <2>2. Release_st(s) = prstate BY <1>2 DEF Release_st
  <2>3. Moved(prstate) BY <2>1, StillMoved DEF schedVars
  <2> QED BY <1>2, <2>1, <2>2, <2>3, ReleaseKeeps DEF schedVars
<1> QED BY <1>1, <1>2

(* Steps that release waiters, or count, on a semaphore; the table of free *)
(* entries is left as it is. *)
LEMMA SemSteps ==
    ASSUME IInv, Tables', Scheduled', Sleepers', Waiters', SemCounts', Contexts',
           frame[currpid].at # "semdelete", sstate' = sstate,
           \A s \in Sem : sstate[s] = "FREE" => scount[s] <= scount'[s]
    PROVE  IInv'
<1>1. \A s \in Sem : sstate[s] = "FREE" => scount[s] >= 0
  BY DEF IInv, FreeSems, Deleting
<1>2. scount \in [Sem -> Int] /\ scount' \in [Sem -> Int] BY DEF IInv, Tables
<1>3. FreeSems' BY <1>1, <1>2 DEF FreeSems
<1> QED BY <1>3 DEF IInv

(* A step that leaves the scheduler and the sleep queue alone. *)
LEMMA StillScheduled ==
    ASSUME IInv, UNCHANGED <<prstate, readylist, currpid, qkey, preempt, sleepq>>
    PROVE  Scheduled' /\ Sleepers'
BY DEF IInv, Scheduled, Sched, Sleepers

(* semcreate() takes a free slot, whose queue is empty, and gives it a     *)
(* count.                                                                  *)
LEMMA SemcreateInv ==
    ASSUME IInv, NEW s \in Sem, NEW count \in Counts, Semcreate(s, count),
           UNCHANGED <<clockVars, prhasmsg>>
    PROVE  IInv'
<1> USE CallFacts
<1>1. /\ Calling("semcreate") /\ sstate[s] = "FREE"
      /\ nextsem' = (s + 1) % NSEM
      /\ sstate' = [sstate EXCEPT ![s] = "USED"]
      /\ scount' = [scount EXCEPT ![s] = count]
      /\ UNCHANGED <<squeue, prsem, schedVars, tableVars, frame>>
  BY DEF Semcreate
<1>2. frame[currpid].at = "user" BY <1>1
<1>3. (s + 1) % NSEM \in Sem BY SemAssumption DEF Sem
<1>4. count \in Nat BY SemAssumption
<1>5. sstate \in [Sem -> {"FREE", "USED"}] /\ scount \in [Sem -> Int] BY DEF IInv, Tables
<1>6. sstate' \in [Sem -> {"FREE", "USED"}] /\ scount' \in [Sem -> Int] BY <1>1, <1>4, <1>5
<1>7. Tables' BY <1>1, <1>3, <1>6 DEF IInv, Tables, tableVars, clockVars
<1>8. Scheduled' /\ Sleepers' BY <1>1, StillScheduled DEF schedVars, clockVars
<1>9. Waiters' BY <1>1 DEF IInv, Waiters, schedVars
<1>10. Contexts' BY <1>1, <1>2, ContextsStay DEF IInv, schedVars, Busy
<1>11. scount[s] >= 0 BY <1>1, <1>2 DEF IInv, FreeSems, Deleting
<1>12. /\ Len(squeue[s]) = 0
       /\ \A t \in Sem : Len(squeue[t]) = IF scount[t] < 0 THEN 0 - scount[t] ELSE 0
  BY <1>2, <1>5, <1>11 DEF IInv, SemCounts, Resetting
<1>13. scount'[s] = count /\ \A t \in Sem : t # s => scount'[t] = scount[t] /\ sstate'[t] = sstate[t]
  BY <1>1, <1>5
<1>14. SemCounts' BY <1>1, <1>4, <1>12, <1>13 DEF SemCounts
<1>15. FreeSems' BY <1>1, <1>2, <1>5, <1>13 DEF IInv, FreeSems, Deleting, schedVars
<1> QED BY <1>7, <1>8, <1>9, <1>10, <1>14, <1>15 DEF IInv

(* wait() with a token does not block. *)
LEMMA WaitPassInv ==
    ASSUME IInv, NEW s \in Sem, WaitPass(s), UNCHANGED <<clockVars, prhasmsg>>
    PROVE  IInv'
<1> USE CallFacts
<1>1. /\ Calling("wait") /\ sstate[s] = "USED" /\ scount[s] > 0
      /\ scount' = [scount EXCEPT ![s] = @ - 1]
      /\ UNCHANGED <<sstate, squeue, prsem, nextsem, schedVars, tableVars, frame>>
  BY DEF WaitPass
<1>2. frame[currpid].at = "user" BY <1>1
<1>3. scount \in [Sem -> Int] /\ scount' \in [Sem -> Int] BY <1>1 DEF IInv, Tables
<1>4. Tables' BY <1>1, <1>3 DEF IInv, Tables, tableVars, clockVars
<1>5. Scheduled' /\ Sleepers' BY <1>1, StillScheduled DEF schedVars, clockVars
<1>6. Waiters' BY <1>1 DEF IInv, Waiters, schedVars
<1>7. Contexts' BY <1>1, <1>2, ContextsStay DEF IInv, schedVars, Busy
<1>8. \A t \in Sem : Len(squeue[t]) = IF scount[t] < 0 THEN 0 - scount[t] ELSE 0
  BY <1>2 DEF IInv, SemCounts, Resetting
<1>9. scount'[s] = scount[s] - 1 /\ scount[s] \in Int /\ \A t \in Sem : t # s => scount'[t] = scount[t]
  BY <1>1, <1>3
<1>10. SemCounts' BY <1>1, <1>8, <1>9 DEF SemCounts
<1>11. \A t \in Sem : sstate[t] = "FREE" => scount[t] <= scount'[t] BY <1>1, <1>3, <1>9
<1> QED BY <1>1, <1>2, <1>4, <1>5, <1>6, <1>7, <1>10, <1>11, SemSteps

(* wait() without one puts the caller at the end of the queue, and the     *)
(* count says so.                                                          *)
LEMMA WaitBlockInv ==
    ASSUME IInv, NEW s \in Sem, WaitBlock(s), UNCHANGED <<clockVars, prhasmsg>>
    PROVE  IInv'
<1> USE CallFacts
<1> DEFINE st == [prstate EXCEPT ![currpid] = "WAIT"]
<1>1. /\ Calling("wait") /\ sstate[s] = "USED" /\ scount[s] <= 0
      /\ scount' = [scount EXCEPT ![s] = @ - 1]
      /\ prsem' = [prsem EXCEPT ![currpid] = s]
      /\ squeue' = [squeue EXCEPT ![s] = Append(@, currpid)]
      /\ Block("WAIT", qkey)
      /\ UNCHANGED <<sstate, nextsem, tableVars, frame>>
  BY DEF WaitBlock
<1>2. frame[currpid].at = "user" /\ currpid # NULLPROC BY <1>1
<1>3. "WAIT" \in PrStates \ {"CURR", "READY"} BY DEF PrStates
<1>4. Moved(st) /\ defer' = defer BY <1>1, <1>2, <1>3, BlockMoves DEF IInv
<1>5. /\ scount \in [Sem -> Int] /\ prsem \in [Pid -> Sem] /\ DOMAIN squeue = Sem
      /\ \A t \in Sem : Lists(squeue[t], WaitSet(prstate, prsem, t))
  BY DEF IInv, Tables, Waiters
<1>6. scount' \in [Sem -> Int] /\ prsem' \in [Pid -> Sem] /\ DOMAIN squeue' = Sem BY <1>1, <1>5
<1>7. Tables' BY <1>1, <1>6 DEF IInv, Tables, tableVars, clockVars
<1>8. Contexts' BY <1>1, <1>2, <1>4, ContextsStay DEF IInv, Moved, Scheduled, Sched, Busy
<1>9. /\ currpid \notin WaitSet(prstate, prsem, s)
      /\ WaitSet(st, prsem', s) = WaitSet(prstate, prsem, s) \cup {currpid}
      /\ \A t \in Sem : t # s => WaitSet(st, prsem', t) = WaitSet(prstate, prsem, t)
      /\ SleepSet(st) = SleepSet(prstate)
  BY <1>1, <1>5 DEF WaitSet, SleepSet
<1> HIDE DEF st
<1>10. /\ Lists(Append(squeue[s], currpid), WaitSet(prstate, prsem, s) \cup {currpid})
       /\ Len(Append(squeue[s], currpid)) = Len(squeue[s]) + 1
  <2>1. Lists(squeue[s], WaitSet(prstate, prsem, s)) BY <1>5
  <2> QED BY <1>9, <2>1, AppendLists
<1>11. /\ squeue'[s] = Append(squeue[s], currpid) /\ scount'[s] = scount[s] - 1 /\ scount[s] \in Int
       /\ \A t \in Sem : t # s => squeue'[t] = squeue[t] /\ scount'[t] = scount[t]
  BY <1>1, <1>5
<1>12. /\ Scheduled' /\ SleepSet(prstate') = SleepSet(st)
       /\ \A t \in Sem : WaitSet(prstate', prsem', t) = WaitSet(st, prsem', t)
  BY <1>4 DEF Moved
<1>13. Sleepers' BY <1>9, <1>12 DEF IInv, Sleepers, clockVars
<1>14. Waiters' BY <1>5, <1>6, <1>9, <1>10, <1>11, <1>12 DEF Waiters
<1>15. SemCounts'
  <2>1. \A t \in Sem : Len(squeue[t]) = IF scount[t] < 0 THEN 0 - scount[t] ELSE 0
    BY <1>2 DEF IInv, SemCounts, Resetting
  <2>2. Len(squeue'[s]) = IF scount'[s] < 0 THEN 0 - scount'[s] ELSE 0
    BY <1>1, <1>10, <1>11, <2>1
  <2> QED BY <1>11, <2>1, <2>2 DEF SemCounts
<1>16. \A t \in Sem : sstate[t] = "FREE" => scount[t] <= scount'[t] BY <1>1, <1>5, <1>11
<1> QED BY <1>1, <1>2, <1>7, <1>8, <1>12, <1>13, <1>14, <1>15, <1>16, SemSteps

(* signal() keeps the invariant. *)
LEMMA SignalInv ==
    ASSUME IInv, NEW s \in Sem, Signal(s), UNCHANGED <<clockVars, prhasmsg>>
    PROVE  IInv'
<1> USE CallFacts
<1>1. /\ Calling("signal") /\ Release(s, RESCHED_YES)
      /\ UNCHANGED <<sstate, prsem, nextsem, tableVars, frame>>
  BY DEF Signal
<1>2. frame[currpid].at = "user" BY <1>1
<1>3. /\ Scheduled' /\ Sleepers' /\ Waiters' /\ SemCounts' /\ scount' \in [Sem -> Int]
      /\ defer' = defer
  BY <1>1, <1>2, ReleaseReschedSafe DEF clockVars
<1>4. Tables' BY <1>1, <1>3 DEF IInv, Tables, tableVars, clockVars
<1>5. Contexts' BY <1>1, <1>2, <1>3, ContextsStay DEF IInv, Scheduled, Sched, Busy
<1>6. \A t \in Sem : scount[t] <= scount'[t]
  <2>1. scount \in [Sem -> Int] BY DEF IInv, Tables
  <2>2. scount' = [scount EXCEPT ![s] = @ + 1] BY <1>1 DEF Release
  <2> QED BY <2>1, <2>2
<1> QED BY <1>1, <1>2, <1>3, <1>4, <1>5, <1>6, SemSteps

(* A released process is counted: what Release does to the counts. *)
LEMMA ReleaseCounts ==
    ASSUME IInv, NEW s \in Sem, scount' = [scount EXCEPT ![s] = @ + 1]
    PROVE  \A t \in Sem : scount[t] <= scount'[t]
<1>1. scount \in [Sem -> Int] BY DEF IInv, Tables
<1> QED BY <1>1

(* Entering a call that goes on with interrupts off, at the point g. *)
LEMMA EnterContexts ==
    ASSUME IInv, NEW point \in {"signaln", "semdelete", "semreset"}, NEW s \in Sem, NEW n \in Nat,
           frame' = [frame EXCEPT ![currpid] = Frame(point, s, n)],
           frame[currpid].at # "intr", currpid' = currpid, defer' = defer
    PROVE  /\ Contexts'
           /\ frame'[currpid] = Frame(point, s, n)
<1> USE CallFacts
<1> DEFINE g == Frame(point, s, n)
<1>1. g \in FrameType /\ g.at = point /\ g.arg = s /\ g.at \in OnSem /\ g.at # "kill" /\ g.at # "intr"
  BY DEF Frame, FrameType, Points, OnSem, Sem
<1>2. frame'[currpid] = g OBVIOUS
<1> HIDE DEF g
<1>3. Contexts' BY <1>1, ContextsStep DEF IInv, g
<1> QED BY <1>2, <1>3 DEF g

(* signaln() enters its loop with the semaphore it has checked. *)
LEMMA SignalnInv ==
    ASSUME IInv, NEW s \in Sem, NEW count \in Counts, Signaln(s, count),
           UNCHANGED <<clockVars, prhasmsg>>
    PROVE  IInv'
<1> USE CallFacts
<1>1. /\ Calling("signaln") /\ frame' = [frame EXCEPT ![currpid] = Frame("signaln", s, count)]
      /\ UNCHANGED <<semVars, schedVars, tableVars>>
  BY DEF Signaln
<1>2. frame[currpid].at = "user" /\ count \in Nat BY <1>1, SemAssumption
<1>3. Contexts' BY <1>1, <1>2, EnterContexts DEF schedVars
<1>4. Moved(prstate) /\ Kept(prstate) BY <1>1, StillMoved DEF schedVars
<1>5. Tables' BY <1>1 DEF IInv, Tables, tableVars, semVars, clockVars
<1> QED BY <1>1, <1>2, <1>3, <1>4, <1>5, CallKeeps DEF semVars, clockVars

(* An iteration of signaln(). *)
LEMMA SignalnLoopInv ==
    ASSUME IInv, SignalnLoop, UNCHANGED <<clockVars, prhasmsg>>
    PROVE  IInv'
<1> USE CallFacts
<1> DEFINE s == frame[currpid].arg
           n == frame[currpid].num
<1>1. /\ frame[currpid].at = "signaln" /\ n > 0 /\ Release(s, RESCHED_NO)
      /\ frame' = [frame EXCEPT ![currpid] = Frame("signaln", s, n - 1)]
      /\ UNCHANGED <<sstate, prsem, nextsem, tableVars>>
  BY DEF SignalnLoop, At
<1>2. s \in Sem /\ n - 1 \in Nat
  BY <1>1 DEF IInv, Contexts, Frames, OnSem, FrameType
<1> HIDE DEF s, n
<1>3. /\ Scheduled' /\ Sleepers' /\ Waiters' /\ SemCounts' /\ scount' \in [Sem -> Int]
      /\ currpid' = currpid /\ defer' = defer
  BY <1>1, <1>2, ReleaseOnlySafe DEF clockVars
<1>4. Tables' BY <1>1, <1>3 DEF IInv, Tables, tableVars, clockVars
<1>5. Contexts' BY <1>1, <1>2, <1>3, EnterContexts
<1>6. \A t \in Sem : scount[t] <= scount'[t] BY <1>1, <1>2, ReleaseCounts DEF Release
<1> QED BY <1>1, <1>3, <1>4, <1>5, <1>6, SemSteps

(* The resched() at the end of signaln(). *)
LEMMA SignalnDoneInv ==
    ASSUME IInv, SignalnDone, UNCHANGED <<clockVars, prhasmsg>>
    PROVE  IInv'
<1> USE CallFacts
<1>1. /\ frame[currpid].at = "signaln" /\ frame' = [frame EXCEPT ![currpid] = User]
      /\ Resched(prstate, readylist, qkey, preempt) /\ UNCHANGED <<semVars, tableVars>>
  BY DEF SignalnDone, At, Return
<1>2. Moved(prstate) /\ defer' = defer BY <1>1, StayMoves DEF IInv
<1>3. Kept(prstate) BY DEF Kept
<1>4. Tables' BY <1>1 DEF IInv, Tables, tableVars, semVars, clockVars
<1>5. User.at # "kill" OBVIOUS
<1> QED BY <1>1, <1>2, <1>3, <1>4, <1>5, PointKeeps DEF semVars, clockVars

(* semdelete() marks the slot free before it releases the waiters. *)
LEMMA SemdeleteInv ==
    ASSUME IInv, NEW s \in Sem, Semdelete(s), UNCHANGED <<clockVars, prhasmsg>>
    PROVE  IInv'
<1> USE CallFacts
<1>1. /\ Calling("semdelete") /\ sstate' = [sstate EXCEPT ![s] = "FREE"]
      /\ frame' = [frame EXCEPT ![currpid] = Frame("semdelete", s, 0)]
      /\ UNCHANGED <<scount, squeue, prsem, nextsem, schedVars, tableVars>>
  BY DEF Semdelete
<1>2. frame[currpid].at = "user" BY <1>1
<1>3. Contexts' /\ frame'[currpid] = Frame("semdelete", s, 0)
  BY <1>1, <1>2, EnterContexts DEF schedVars
<1>4. Scheduled' /\ Sleepers' BY <1>1, StillScheduled DEF schedVars, clockVars
<1>5. Waiters' BY <1>1 DEF IInv, Waiters, schedVars
<1>6. Tables' BY <1>1 DEF IInv, Tables, tableVars, clockVars
<1>7. SemCounts' BY <1>1, <1>2 DEF IInv, SemCounts, Resetting
<1>8. /\ frame'[currpid'].at = "semdelete" /\ frame'[currpid'].arg = s
      /\ \A t \in Sem : t # s => sstate'[t] = sstate[t]
  BY <1>1, <1>3 DEF Frame, schedVars, IInv, Tables
<1>9. FreeSems' BY <1>1, <1>2, <1>8 DEF IInv, FreeSems, Deleting
<1> QED BY <1>3, <1>4, <1>5, <1>6, <1>7, <1>9 DEF IInv

(* An iteration of semdelete(): the count goes up as the queue gets        *)
(* shorter.                                                                *)
LEMMA SemdeleteLoopInv ==
    ASSUME IInv, SemdeleteLoop, UNCHANGED <<clockVars, prhasmsg>>
    PROVE  IInv'
<1> USE CallFacts
<1> DEFINE s == frame[currpid].arg
<1>1. /\ frame[currpid].at = "semdelete" /\ Release(s, RESCHED_NO)
      /\ UNCHANGED <<sstate, prsem, nextsem, tableVars, frame>>
  BY DEF SemdeleteLoop, At
<1>2. s \in Sem BY <1>1 DEF IInv, Contexts, Frames, OnSem
<1> HIDE DEF s
<1>3. /\ Scheduled' /\ Sleepers' /\ Waiters' /\ SemCounts' /\ scount' \in [Sem -> Int]
      /\ currpid' = currpid /\ defer' = defer
  BY <1>1, <1>2, ReleaseOnlySafe DEF clockVars
<1>4. Tables' BY <1>1, <1>3 DEF IInv, Tables, tableVars, clockVars
<1>5. Contexts' BY <1>1, <1>3 DEF IInv, Contexts
<1>6. \A t \in Sem : scount[t] <= scount'[t] BY <1>1, <1>2, ReleaseCounts DEF Release
<1>7. FreeSems'
  <2>1. scount \in [Sem -> Int] BY DEF IInv, Tables
  <2> QED BY <1>1, <1>3, <1>6, <2>1 DEF IInv, FreeSems, Deleting
<1> QED BY <1>3, <1>4, <1>5, <1>7 DEF IInv

(* The last test of `while (scount++ < 0)` and the resched(): nobody waits *)
(* at a free slot.                                                         *)
LEMMA SemdeleteDoneInv ==
    ASSUME IInv, SemdeleteDone, UNCHANGED <<clockVars, prhasmsg>>
    PROVE  IInv'
<1> USE CallFacts
<1> DEFINE s == frame[currpid].arg
<1>1. /\ frame[currpid].at = "semdelete" /\ scount[s] >= 0
      /\ scount' = [scount EXCEPT ![s] = @ + 1]
      /\ frame' = [frame EXCEPT ![currpid] = User]
      /\ Resched(prstate, readylist, qkey, preempt)
      /\ UNCHANGED <<sstate, squeue, prsem, nextsem, tableVars>>
  BY DEF SemdeleteDone, At, Return
<1>2. s \in Sem BY <1>1 DEF IInv, Contexts, Frames, OnSem
<1>3. Moved(prstate) /\ defer' = defer BY <1>1, StayMoves DEF IInv
<1>4. scount \in [Sem -> Int] /\ scount' \in [Sem -> Int] BY <1>1, <1>2 DEF IInv, Tables
<1>5. Tables' BY <1>1, <1>4 DEF IInv, Tables, tableVars, clockVars
<1>6. User.at # "kill" /\ User.at \notin OnSem /\ User.at # "intr" BY DEF OnSem
<1>7. Contexts' BY <1>1, <1>3, <1>6, ContextsStep DEF IInv, Moved, Scheduled, Sched
<1>8. Sleepers' /\ Waiters' /\ Scheduled'
  BY <1>1, <1>3 DEF IInv, Moved, Sleepers, Waiters, clockVars
<1>9. FreeSems /\ \A t \in Sem : ~Resetting(t)
  BY <1>1 DEF IInv, Resetting
<1>10. \A t \in Sem : Deleting(t) => t = s BY DEF Deleting
<1> HIDE DEF s
<1>11. scount'[s] = scount[s] + 1 /\ \A t \in Sem : t # s => scount'[t] = scount[t]
  BY <1>1, <1>2, <1>4
<1>12. \A t \in Sem : Len(squeue[t]) = IF scount[t] < 0 THEN 0 - scount[t] ELSE 0
  BY <1>9 DEF IInv, SemCounts
<1>13. SemCounts' BY <1>1, <1>2, <1>4, <1>11, <1>12 DEF SemCounts
<1>14. FreeSems' BY <1>1, <1>2, <1>4, <1>9, <1>10, <1>11 DEF FreeSems
<1> QED BY <1>5, <1>7, <1>8, <1>13, <1>14 DEF IInv

(* semreset() enters its loop with the semaphore and the count it has      *)
(* checked.                                                                *)
LEMMA SemresetInv ==
    ASSUME IInv, NEW s \in Sem, NEW count \in Counts, Semreset(s, count),
           UNCHANGED <<clockVars, prhasmsg>>
    PROVE  IInv'
<1> USE CallFacts
<1>1. /\ Calling("semreset") /\ frame' = [frame EXCEPT ![currpid] = Frame("semreset", s, count)]
      /\ UNCHANGED <<semVars, schedVars, tableVars>>
  BY DEF Semreset
<1>2. frame[currpid].at = "user" /\ count \in Nat BY <1>1, SemAssumption
<1>3. Contexts' BY <1>1, <1>2, EnterContexts DEF schedVars
<1>4. Moved(prstate) /\ Kept(prstate) BY <1>1, StillMoved DEF schedVars
<1>5. Tables' BY <1>1 DEF IInv, Tables, tableVars, semVars, clockVars
<1> QED BY <1>1, <1>2, <1>3, <1>4, <1>5, CallKeeps DEF semVars, clockVars

(* An iteration of semreset(), which releases a waiter and leaves the      *)
(* count as it is.                                                         *)
LEMMA SemresetLoopInv ==
    ASSUME IInv, SemresetLoop, UNCHANGED <<clockVars, prhasmsg>>
    PROVE  IInv'
<1> USE CallFacts
<1> DEFINE s  == frame[currpid].arg
           p  == Head(squeue[s])
           st == ReadyState(p)
<1>1. /\ frame[currpid].at = "semreset" /\ squeue[s] # <<>>
      /\ squeue' = [squeue EXCEPT ![s] = Tail(@)] /\ ReadyOnly(p, qkey)
      /\ UNCHANGED <<sstate, scount, prsem, nextsem, tableVars, frame>>
  BY DEF SemresetLoop, At
<1>2. s \in Sem BY <1>1 DEF IInv, Contexts, Frames, OnSem
<1>3. \A t \in Sem : Resetting(t) <=> t = s BY <1>1 DEF Resetting
<1> HIDE DEF s
<1>4. /\ p \in Pid /\ prstate[p] = "WAIT"
      /\ Lists(Tail(squeue[s]), WaitSet(st, prsem, s))
      /\ \A t \in Sem : t # s => WaitSet(st, prsem, t) = WaitSet(prstate, prsem, t)
      /\ SleepSet(st) = SleepSet(prstate)
  BY <1>1, <1>2, HeadReleased
<1> HIDE DEF p
<1>5. Moved(st) /\ currpid' = currpid /\ defer' = defer
  BY <1>1, <1>4, ReadyOnlyMoves DEF IInv
<1> HIDE DEF st
<1>6. Tables' BY <1>1 DEF IInv, Tables, tableVars, clockVars
<1>7. Contexts' BY <1>1, <1>5 DEF IInv, Contexts
<1>8. Scheduled' /\ Sleepers' BY <1>4, <1>5 DEF IInv, Moved, Sleepers, clockVars
<1>9. /\ DOMAIN squeue' = Sem /\ squeue'[s] = Tail(squeue[s])
      /\ \A t \in Sem : t # s => squeue'[t] = squeue[t]
  BY <1>1, <1>2 DEF IInv, Waiters
<1>10. Waiters'
  <2>1. \A t \in Sem : Lists(squeue[t], WaitSet(prstate, prsem, t)) BY DEF IInv, Waiters
  <2> QED BY <1>1, <1>4, <1>5, <1>9, <2>1 DEF Moved, Waiters
<1>11. \A t \in Sem : Resetting(t)' <=> t = s BY <1>1, <1>3, <1>5 DEF Resetting
<1>12. SemCounts' BY <1>1, <1>3, <1>9, <1>11 DEF IInv, SemCounts
<1>13. FreeSems' BY <1>1, <1>5 DEF IInv, FreeSems, Deleting
<1> QED BY <1>6, <1>7, <1>8, <1>10, <1>12, <1>13 DEF IInv

(* The end of semreset(): the queue is empty when the count is set. *)
LEMMA SemresetDoneInv ==
    ASSUME IInv, SemresetDone, UNCHANGED <<clockVars, prhasmsg>>
    PROVE  IInv'
<1> USE CallFacts
<1> DEFINE s == frame[currpid].arg
           n == frame[currpid].num
<1>1. /\ frame[currpid].at = "semreset" /\ squeue[s] = <<>>
      /\ scount' = [scount EXCEPT ![s] = n]
      /\ frame' = [frame EXCEPT ![currpid] = User]
      /\ Resched(prstate, readylist, qkey, preempt)
      /\ UNCHANGED <<sstate, squeue, prsem, nextsem, tableVars>>
  BY DEF SemresetDone, At, Return
<1>2. s \in Sem /\ n \in Nat BY <1>1 DEF IInv, Contexts, Frames, OnSem, FrameType
<1>3. Moved(prstate) /\ defer' = defer BY <1>1, StayMoves DEF IInv
<1>4. scount \in [Sem -> Int] /\ scount' \in [Sem -> Int] BY <1>1, <1>2 DEF IInv, Tables
<1>5. Tables' BY <1>1, <1>4 DEF IInv, Tables, tableVars, clockVars
<1>6. User.at # "kill" /\ User.at \notin OnSem /\ User.at # "intr" BY DEF OnSem
<1>7. Contexts' BY <1>1, <1>3, <1>6, ContextsStep DEF IInv, Moved, Scheduled, Sched
<1>8. Sleepers' /\ Waiters' /\ Scheduled'
  BY <1>1, <1>3 DEF IInv, Moved, Sleepers, Waiters, clockVars
<1>9. /\ \A t \in Sem : Resetting(t) => t = s
      /\ \A t \in Sem : ~Deleting(t)
  BY <1>1 DEF Resetting, Deleting
<1> HIDE DEF s, n
<1>10. scount'[s] = n /\ \A t \in Sem : t # s => scount'[t] = scount[t]
  BY <1>1, <1>2, <1>4
<1>11. Len(squeue[s]) = 0 BY <1>1
<1>12. SemCounts' BY <1>1, <1>2, <1>9, <1>10, <1>11 DEF IInv, SemCounts
<1>13. FreeSems' BY <1>1, <1>2, <1>9, <1>10 DEF IInv, FreeSems
<1> QED BY <1>5, <1>7, <1>8, <1>12, <1>13 DEF IInv

----------------------------------------------------------------------------
(***************************************************************************)
(* Device interrupts: resched() is deferred from DEFER_START to DEFER_STOP. *)
(***************************************************************************)

(* DEFER_START: the interrupted process stays current while ndefers is 1.  *)
LEMMA DeviceInterruptInv ==
    ASSUME IInv, NEW s \in Sem, NEW count \in Counts, DeviceInterrupt(s, count),
           UNCHANGED <<clockVars, prhasmsg>>
    PROVE  IInv'
<1> USE CallFacts
<1> DEFINE g == Frame("intr", s, count)
<1>1. /\ frame[currpid] = User /\ frame' = [frame EXCEPT ![currpid] = g]
      /\ defer' = [ndefers |-> defer.ndefers + 1, attempt |-> defer.ndefers > 0 /\ defer.attempt]
      /\ UNCHANGED <<semVars, prstate, qkey, readylist, currpid, preempt, tableVars>>
  BY DEF DeviceInterrupt
<1>2. frame[currpid].at = "user" /\ defer.ndefers = 0 /\ count \in Nat BY <1>1, SemAssumption
<1>3. /\ g \in FrameType /\ g.at = "intr" /\ g.arg = s /\ g.at # "kill"
  BY <1>2 DEF Frame, FrameType, Points, Sem
<1>4. defer.ndefers + 1 = 1 /\ ~(defer.ndefers > 0) BY <1>2
<1>5. defer' \in [ndefers : 0 .. 1, attempt : BOOLEAN] /\ defer'.ndefers = 1
  <2>1. 1 \in 0 .. 1 OBVIOUS
  <2>2. (defer.ndefers > 0 /\ defer.attempt) \in BOOLEAN OBVIOUS
  <2> HIDE DEF g
  <2> QED BY <1>1, <1>4, <2>1, <2>2, Zenon
<1> HIDE DEF g
<1>6. Contexts' BY <1>1, <1>3, <1>5, ContextsStep DEF IInv
<1>7. Scheduled' /\ Sleepers' BY <1>1, StillScheduled DEF clockVars
<1>8. Tables' BY <1>1 DEF IInv, Tables, tableVars, semVars, clockVars
<1>9. \A sems, t : WaitSet(prstate', sems, t) = WaitSet(prstate, sems, t) BY <1>1
<1> QED BY <1>1, <1>2, <1>6, <1>7, <1>8, <1>9, NoSemKeeps DEF semVars

(* A signal inside the interrupt readies a process and switches to nobody. *)
LEMMA IntrSignalInv ==
    ASSUME IInv, IntrSignal, UNCHANGED <<clockVars, prhasmsg>>
    PROVE  IInv'
<1> USE CallFacts
<1> DEFINE s == frame[currpid].arg
           n == frame[currpid].num
           g == Frame("intr", s, n - 1)
<1>1. /\ frame[currpid].at = "intr" /\ n > 0 /\ frame' = [frame EXCEPT ![currpid] = g]
      /\ IF sstate[s] = "USED" THEN Release(s, RESCHED_YES)
                               ELSE UNCHANGED <<scount, squeue, schedVars>>
      /\ UNCHANGED <<sstate, prsem, nextsem, tableVars>>
  BY DEF IntrSignal, At
<1>2. s \in Sem /\ n - 1 \in Nat
  BY <1>1 DEF IInv, Contexts, Frames, OnSem, FrameType
<1>3. defer.ndefers = 1 BY <1>1
<1>4. g \in FrameType /\ g.at = "intr" /\ g.arg = s /\ g.at # "kill"
  BY <1>2 DEF Frame, FrameType, Points, Sem
<1> HIDE DEF s, n, g
<1>5. /\ Scheduled' /\ Sleepers' /\ Waiters' /\ SemCounts' /\ scount' \in [Sem -> Int]
      /\ currpid' = currpid /\ defer' \in [ndefers : 0 .. 1, attempt : BOOLEAN]
      /\ defer'.ndefers = 1
      /\ \A t \in Sem : sstate[t] = "FREE" => scount[t] <= scount'[t]
  <2>1. CASE sstate[s] = "USED"
    <3>1. Release(s, RESCHED_YES) BY <1>1, <2>1
    <3>2. \A t \in Sem : scount[t] <= scount'[t] BY <1>2, <3>1, ReleaseCounts DEF Release
    <3> QED BY <1>1, <1>2, <1>3, <3>1, <3>2, ReleaseReschedSafe DEF clockVars
  <2>2. CASE sstate[s] # "USED"
    <3>1. UNCHANGED <<scount, squeue, schedVars>> BY <1>1, <2>2
    <3>2. Scheduled' /\ Sleepers' BY <3>1, StillScheduled DEF schedVars, clockVars
    <3>3. Waiters' BY <1>1, <3>1 DEF IInv, Waiters, schedVars
    <3>4. \A t \in Sem : Len(squeue[t]) = IF scount[t] < 0 THEN 0 - scount[t] ELSE 0
      BY <1>1 DEF IInv, SemCounts, Resetting
    <3>5. SemCounts' BY <3>1, <3>4 DEF SemCounts
    <3>6. scount' \in [Sem -> Int] /\ \A t \in Sem : scount[t] <= scount'[t]
      BY <3>1 DEF IInv, Tables
    <3> QED BY <1>3, <3>1, <3>2, <3>3, <3>5, <3>6 DEF schedVars
  <2> QED BY <2>1, <2>2
<1>6. Tables' BY <1>1, <1>5 DEF IInv, Tables, tableVars, clockVars
<1>7. Contexts' BY <1>1, <1>2, <1>4, <1>5, ContextsStep DEF IInv
<1> QED BY <1>1, <1>5, <1>6, <1>7, SemSteps

(* DEFER_STOP: the resched() that was put off is made up for. *)
LEMMA IntrDoneInv ==
    ASSUME IInv, IntrDone, UNCHANGED <<clockVars, prhasmsg>>
    PROVE  IInv'
<1> USE CallFacts
<1>1. /\ frame[currpid].at = "intr" /\ frame' = [frame EXCEPT ![currpid] = User]
      /\ defer' = [defer EXCEPT !.ndefers = @ - 1]
      /\ IF defer.ndefers = 1 /\ defer.attempt
         THEN Switch(prstate, readylist, qkey, preempt)
         ELSE UNCHANGED <<prstate, qkey, readylist, currpid, preempt>>
      /\ UNCHANGED <<semVars, tableVars>>
  BY DEF IntrDone, At, Return
<1>2. defer' \in [ndefers : 0 .. 1, attempt : BOOLEAN] /\ defer'.ndefers = 0
  BY <1>1
<1>3. Moved(prstate)
  <2>1. CASE defer.ndefers = 1 /\ defer.attempt
    <3>1. CanMove(prstate, readylist, qkey, preempt)
      BY DEF IInv, Scheduled, Sched, CanMove
    <3> QED BY <1>1, <2>1, <3>1, SwitchMoves
  <2>2. CASE ~(defer.ndefers = 1 /\ defer.attempt)
    BY <1>1, <2>2, StillMoved
  <2> QED BY <2>1, <2>2
<1>4. User.at # "kill" /\ User.at \notin OnSem /\ User.at # "intr" BY DEF OnSem
<1>5. Contexts' BY <1>1, <1>2, <1>3, <1>4, ContextsStep DEF IInv, Moved, Scheduled, Sched
<1>6. Kept(prstate) BY DEF Kept
<1>7. Tables' BY <1>1 DEF IInv, Tables, tableVars, semVars, clockVars
<1> QED BY <1>1, <1>3, <1>5, <1>6, <1>7, CallKeeps DEF semVars, clockVars

----------------------------------------------------------------------------
(***************************************************************************)
(* The invariant holds at boot, and every step keeps it.                   *)
(***************************************************************************)
LEMMA InitInv == Init => IInv
<1> SUFFICES ASSUME Init PROVE IInv
  OBVIOUS
<1>1. PICK prio \in Prios :
        /\ prstate = [p \in Pid |-> CASE p = 0 -> "READY" [] p = 1 -> "CURR" [] OTHER -> "FREE"]
        /\ prprio = [p \in Pid |-> IF p = 1 THEN prio ELSE 0]
        /\ prparent = [p \in Pid |-> NULLPROC]
        /\ frame = [p \in Pid |-> User]
        /\ qkey = [p \in Pid |-> 0]
        /\ readylist = <<NULLPROC>>
        /\ currpid = 1
        /\ preempt = QUANTUM
        /\ defer = [ndefers |-> 0, attempt |-> FALSE]
        /\ prcount = 2
        /\ nextpid = 2 % NPROC
        /\ halted = FALSE
  BY DEF Init, SchedInit
<1>2. /\ sstate = [s \in Sem |-> "FREE"] /\ scount = [s \in Sem |-> 0]
      /\ squeue = [s \in Sem |-> <<>>] /\ prsem = [p \in Pid |-> 0] /\ nextsem = 0
      /\ sleepq = <<>> /\ remaining = [p \in Pid |-> 0] /\ prhasmsg = [p \in Pid |-> FALSE]
  BY DEF Init, SemInit, ClockInit, MsgInit
<1>3. /\ 0 \in Pid /\ 1 \in Pid /\ 2 % NPROC \in Pid /\ 0 \in Sem
      /\ QUANTUM \in 1 .. QUANTUM /\ Prios \subseteq Int
  BY SchedAssumption, SemAssumption DEF Pid, Sem
<1>4. Tables BY <1>1, <1>2, <1>3 DEF Tables, NULLPROC
<1>5. \A p \in Pid : prstate[p] = IF p = 0 THEN "READY" ELSE IF p = 1 THEN "CURR" ELSE "FREE"
  BY <1>1
<1>6. ReadySet(prstate) = {0} /\ SleepSet(prstate) = {}
      /\ \A s : WaitSet(prstate, prsem, s) = {}
  BY <1>3, <1>5 DEF ReadySet, SleepSet, WaitSet
<1>7. Lists(<<0>>, {0}) /\ Lists(<<>>, {})
  BY DEF Lists, NoDup
<1>8. Scheduled
  BY <1>1, <1>3, <1>5, <1>6, <1>7 DEF Scheduled, Sched, NULLPROC, PrStates
<1>9. Sleepers /\ Waiters BY <1>2, <1>6, <1>7 DEF Sleepers, Waiters
<1>10. User \in FrameType /\ User.at = "user" /\ "user" \notin Busy /\ "user" \notin OnSem
  BY DEF User, Frame, FrameType, Points, Busy, OnSem
<1>11. Contexts BY <1>1, <1>3, <1>10 DEF Contexts, Frames, FrameType
<1>12. SemCounts /\ FreeSems BY <1>2 DEF SemCounts, FreeSems
<1> QED BY <1>4, <1>8, <1>9, <1>11, <1>12 DEF IInv

(* A step that changes nothing. *)
LEMMA StutterInv == IInv /\ UNCHANGED vars => IInv'
BY DEF vars, schedVars, tableVars, semVars, clockVars, IInv, Tables, Scheduled, Sched, Sleepers,
       Waiters, Contexts, Frames, SemCounts, Resetting, FreeSems, Deleting

(* One step for each kind of call. *)
LEMMA NextInv == IInv /\ [Next]_vars => IInv'
<1> SUFFICES ASSUME IInv, [Next]_vars PROVE IInv'
  OBVIOUS
<1>1. CASE SchedCall /\ UNCHANGED <<semVars, clockVars, prhasmsg>>
  BY <1>1, ResumeInv, SuspendReadyInv, SuspendSelfInv, ChprioInv, YieldInv,
     SchedAssumption DEF SchedCall
<1>2. CASE SemCall /\ UNCHANGED <<clockVars, prhasmsg>>
  BY <1>2, SemcreateInv, WaitPassInv, WaitBlockInv, SignalInv, SignalnInv, SignalnLoopInv,
     SignalnDoneInv, SemdeleteInv, SemdeleteLoopInv, SemdeleteDoneInv, SemresetInv,
     SemresetLoopInv, SemresetDoneInv, DeviceInterruptInv, IntrSignalInv, IntrDoneInv
  DEF SemCall
<1>3. CASE ClockStep /\ UNCHANGED <<semVars, prhasmsg>>
  BY <1>3, SleepmsInv, ClkhandlerInv, WakeupLoopInv, WakeupDoneInv, ClkPreemptInv DEF ClockStep
<1>4. CASE MsgCall /\ UNCHANGED semVars
  BY <1>4, SendInv, ReceiveInv, TakeInv, RecvtimeInv, RecvclrInv DEF MsgCall
<1>5. CASE \E p \in Pid, prio \in Prios, stack \in BOOLEAN : CreateProcess(p, prio, stack)
  BY <1>5, CreateInv
<1>6. CASE \E p \in Pid : Kill(p)
  BY <1>6, KillInv
<1>7. CASE KillSelf \/ KillOther
  BY <1>7, KillSelfInv, KillOtherInv
<1>8. CASE Halt \/ UNCHANGED vars
  BY <1>8, StutterInv DEF Halt
<1> QED BY <1>1, <1>2, <1>3, <1>4, <1>5, <1>6, <1>7, <1>8 DEF Next
----------------------------------------------------------------------------
(***************************************************************************)
(* What the invariant gives.                                               *)
(***************************************************************************)

(* A list of a set holds each of its members once, and nobody else. *)
LEMMA ListsOnQueue ==
    ASSUME NEW P, NEW q, Lists(q, P), NEW p, NEW should \in BOOLEAN, should <=> p \in P
    PROVE  OnQueue(q, p, should)
<1>1. /\ q \in Seq(P) /\ \A x \in P : \E i \in DOMAIN q : q[i] = x
      /\ \A i, j \in DOMAIN q : q[i] = q[j] => i = j
  BY DEF Lists, NoDup
<1>2. ToSet(q) = {q[i] : i \in DOMAIN q} BY DEF ToSet
<1>3. \A i \in DOMAIN q : q[i] \in P BY <1>1, ElementOfSeq
<1>4. should <=> p \in ToSet(q) BY <1>1, <1>2, <1>3
<1>5. \A i, j \in DOMAIN q : q[i] = p /\ q[j] = p => i = j BY <1>1
<1> QED BY <1>4, <1>5 DEF OnQueue

(* A sequence over a set of processes is a sequence of processes. *)
LEMMA ListsArePids ==
    ASSUME NEW P \in SUBSET Pid, NEW q, Lists(q, P)
    PROVE  q \in Seq(Pid)
<1>1. q \in Seq(P) BY DEF Lists
<1>2. Len(q) \in Nat /\ q = [i \in 1 .. Len(q) |-> q[i]] /\ \A i \in 1 .. Len(q) : q[i] \in P
  BY <1>1, LenProperties, ElementOfSeq
<1> QED BY <1>2, IsASeq

(* The invariant gives every variable its type: a queue of processes       *)
(* without repetition is a sequence of processes.                          *)
LEMMA IInvTypeOK == IInv => TypeOK
<1> SUFFICES ASSUME IInv PROVE TypeOK
  OBVIOUS
<1>1. /\ ReadySet(prstate) \in SUBSET Pid /\ SleepSet(prstate) \in SUBSET Pid
      /\ \A s \in Sem : WaitSet(prstate, prsem, s) \in SUBSET Pid
  BY DEF ReadySet, SleepSet, WaitSet
<1>2. readylist \in Seq(Pid) /\ sleepq \in Seq(Pid)
  BY <1>1, ListsArePids DEF IInv, Scheduled, Sched, Sleepers
<1>3. \A s \in Sem : squeue[s] \in Seq(Pid)
  BY <1>1, ListsArePids DEF IInv, Waiters
<1>4. DOMAIN squeue = Sem BY DEF IInv, Waiters
<1> QED BY <1>2, <1>3, <1>4 DEF TypeOK, IInv, Tables, Scheduled, Sched, Contexts, Frames

(* The invariant puts each process on the queue of its state, once. *)
LEMMA IInvQueues == IInv => QueuesMatchStates
<1> SUFFICES ASSUME IInv, NEW p \in Pid
             PROVE  /\ prstate[p] = "CURR" <=> p = currpid
                    /\ OnQueue(readylist, p, prstate[p] = "READY")
                    /\ OnQueue(sleepq, p, prstate[p] \in {"SLEEP", "RECTIM"})
                    /\ \A s \in Sem : OnQueue(squeue[s], p, prstate[p] = "WAIT" /\ prsem[p] = s)
  BY DEF QueuesMatchStates
<1>1. prstate[p] = "CURR" <=> p = currpid BY DEF IInv, Scheduled, Sched
<1>2. /\ prstate[p] = "READY" <=> p \in ReadySet(prstate)
      /\ prstate[p] \in {"SLEEP", "RECTIM"} <=> p \in SleepSet(prstate)
      /\ \A s : (prstate[p] = "WAIT" /\ prsem[p] = s) <=> p \in WaitSet(prstate, prsem, s)
  BY DEF ReadySet, SleepSet, WaitSet
<1>3. OnQueue(readylist, p, prstate[p] = "READY")
  BY <1>2, ListsOnQueue DEF IInv, Scheduled, Sched
<1>4. OnQueue(sleepq, p, prstate[p] \in {"SLEEP", "RECTIM"})
  <2>1. Lists(sleepq, SleepSet(prstate)) BY DEF IInv, Sleepers
  <2>2. (prstate[p] \in {"SLEEP", "RECTIM"}) \in BOOLEAN OBVIOUS
  <2> QED BY <1>2, <2>1, <2>2, ListsOnQueue, Zenon
<1>5. ASSUME NEW s \in Sem
      PROVE  OnQueue(squeue[s], p, prstate[p] = "WAIT" /\ prsem[p] = s)
  BY <1>2, ListsOnQueue DEF IInv, Waiters
<1> QED BY <1>1, <1>3, <1>4, <1>5

(***************************************************************************)
(* The theorems.                                                           *)
(***************************************************************************)

(* The inductive invariant holds in every reachable state of the kernel. *)
THEOREM KernelInvariant == Spec => []IInv
BY InitInv, NextInv, PTL DEF Spec

(* Type correctness: in particular the time slice is never used up between *)
(* ticks, and resched() is never deferred more than once.                  *)
THEOREM KernelTypes == Spec => []TypeOK
BY KernelInvariant, IInvTypeOK, PTL

(* Whatever calls are made in whatever order, each process is exactly once *)
(* on the queue its prstate names, and on no other queue.                  *)
THEOREM QueuesAreRight == Spec => []QueuesMatchStates
BY KernelInvariant, IInvQueues, PTL

(* A negative semaphore count is the number of processes in its queue. *)
THEOREM CountsAreRight == Spec => []SemCounts
<1>1. IInv => SemCounts BY DEF IInv
<1> QED BY <1>1, KernelInvariant, PTL

----------------------------------------------------------------------------
(***************************************************************************)
(* The calls that are no messages and neither make nor end a process: one  *)
(* process at most becomes ready, is suspended, or blocks, and nobody is   *)
(* put inside receive(), kill() or lab 3's sendb() and receiveb().         *)
(***************************************************************************)
Apart == {"receive", "kill", "sendb", "receiveb"}

OneMoves ==
    \E p \in Pid, s \in PrStates :
        /\ Moved([prstate EXCEPT ![p] = s])
        /\ \/ s = prstate[p]
           \/ s = "READY" /\ prstate[p] \in {"SUSP", "WAIT", "SLEEP", "RECTIM"}
           \/ s = "SUSP" /\ prstate[p] = "READY"
           \/ s \in {"SUSP", "WAIT", "SLEEP"} /\ p = currpid /\ frame[p] = User

FramePlain ==
    \E g \in FrameType :
        /\ frame' = [frame EXCEPT ![currpid] = g]
        /\ g = frame[currpid] \/ {g.at, frame[currpid].at} \cap Apart = {}

PlainStep == OneMoves /\ FramePlain /\ UNCHANGED <<prhasmsg, prcount>>

(* A step that moves nobody, or one process. *)
LEMMA StillOne ==
    ASSUME IInv, Moved(prstate)
    PROVE  OneMoves
<1>1. [prstate EXCEPT ![currpid] = prstate[currpid]] = prstate BY CallFacts
<1>2. currpid \in Pid /\ prstate[currpid] \in PrStates BY CallFacts
<1> QED BY <1>1, <1>2 DEF OneMoves

LEMMA ReadiedOne ==
    ASSUME IInv, NEW p \in Pid, Moved(ReadyState(p)),
           prstate[p] \in {"SUSP", "WAIT", "SLEEP", "RECTIM"}
    PROVE  OneMoves
<1>1. "READY" \in PrStates BY DEF PrStates
<1> QED BY <1>1 DEF OneMoves, ReadyState

LEMMA BlocksOne ==
    ASSUME IInv, NEW s \in {"SUSP", "WAIT", "SLEEP"}, frame[currpid] = User,
           Moved([prstate EXCEPT ![currpid] = s])
    PROVE  OneMoves
<1>1. s \in PrStates BY DEF PrStates
<1> QED BY <1>1, CallFacts DEF OneMoves

LEMMA SameFrame ==
    ASSUME IInv, frame' = frame
    PROVE  FramePlain
<1>1. frame' = [frame EXCEPT ![currpid] = frame[currpid]] /\ frame[currpid] \in FrameType
  BY CallFacts
<1> QED BY <1>1 DEF FramePlain

LEMMA NewFrame ==
    ASSUME IInv, NEW g \in FrameType, frame' = [frame EXCEPT ![currpid] = g],
           g.at \notin Apart, frame[currpid].at \notin Apart
    PROVE  FramePlain
BY DEF FramePlain

LEMMA ReleasedOne ==
    ASSUME IInv, NEW s \in Sem, frame[currpid].at # "semreset", Moved(Release_st(s))
    PROVE  OneMoves
<1>1. CASE scount[s] < 0
  <2>1. Head(squeue[s]) \in Pid /\ prstate[Head(squeue[s])] = "WAIT"
    BY <1>1, NegativeWaits, HeadReleased
  <2> QED BY <1>1, <2>1, ReadiedOne DEF Release_st
<1>2. CASE ~(scount[s] < 0) BY <1>2, StillOne DEF Release_st
<1> QED BY <1>1, <1>2

(* suspend(), resume(), chprio() and yield(). *)
LEMMA SchedPlain ==
    ASSUME IInv, SchedCall, UNCHANGED <<semVars, clockVars, prhasmsg>>
    PROVE  PlainStep
<1> USE CallFacts
<1>1. ASSUME NEW p \in Pid, Resume(p) PROVE PlainStep
  <2>1. Calling("resume") /\ prstate[p] = "SUSP" /\ ReadyResched(p, qkey)
        /\ UNCHANGED <<tableVars, frame>>
    BY <1>1 DEF Resume
  <2>2. Moved(ReadyState(p)) BY <2>1, ReadyReschedMoves DEF IInv
  <2> QED BY <2>1, <2>2, ReadiedOne, SameFrame DEF PlainStep, tableVars
<1>2. ASSUME NEW p \in Pid, SuspendReady(p) PROVE PlainStep
  <2>1. /\ Calling("suspend") /\ prstate[p] = "READY"
        /\ prstate' = [prstate EXCEPT ![p] = "SUSP"] /\ UNCHANGED <<tableVars, frame>>
    BY <1>2 DEF SuspendReady
  <2>2. Scheduled' BY <1>2, SuspendReadyInv DEF IInv
  <2>3. Moved([prstate EXCEPT ![p] = "SUSP"]) BY <2>1, <2>2 DEF Moved, Alike
  <2>4. "SUSP" \in PrStates BY DEF PrStates
  <2>5. OneMoves BY <2>1, <2>3, <2>4 DEF OneMoves
  <2> QED BY <2>1, <2>5, SameFrame DEF PlainStep, tableVars
<1>3. ASSUME SuspendSelf PROVE PlainStep
  <2>1. Calling("suspend") /\ Block("SUSP", qkey) /\ UNCHANGED <<tableVars, frame>>
    BY <1>3 DEF SuspendSelf
  <2>2. "SUSP" \in PrStates \ {"CURR", "READY"} BY DEF PrStates
  <2>3. Moved([prstate EXCEPT ![currpid] = "SUSP"])
    BY <2>1, <2>2, BlockMoves DEF IInv
  <2> QED BY <2>1, <2>3, BlocksOne, SameFrame DEF PlainStep, tableVars
<1>4. ASSUME NEW p \in Pid, NEW prio, Chprio(p, prio) PROVE PlainStep
  BY <1>4, StillMoved, StillOne, SameFrame DEF Chprio, PlainStep, schedVars
<1>5. ASSUME Yield PROVE PlainStep
  <2>1. Resched(prstate, readylist, qkey, preempt) /\ UNCHANGED <<tableVars, frame>>
    BY <1>5 DEF Yield
  <2> QED BY <2>1, StayMoves, StillOne, SameFrame DEF IInv, PlainStep, tableVars
<1> QED BY <1>1, <1>2, <1>3, <1>4, <1>5, SchedAssumption DEF SchedCall

(* The frames of the semaphore calls are no frames of such calls. *)
LEMMA PlainFrames ==
    ASSUME NEW point \in {"user", "signaln", "semdelete", "semreset", "intr", "wakeup", "clk"},
           NEW x \in Nat, NEW n \in Nat
    PROVE  Frame(point, x, n) \in FrameType /\ Frame(point, x, n).at \notin Apart
BY DEF Frame, FrameType, Points, Apart

(* Semaphores and device interrupts. *)
LEMMA SemPlain ==
    ASSUME IInv, SemCall, UNCHANGED <<clockVars, prhasmsg>>
    PROVE  PlainStep
<1> USE CallFacts
<1> DEFINE a == frame[currpid].arg
           n == frame[currpid].num
<1>1. Sem \subseteq Nat /\ Counts \subseteq Nat BY SemAssumption DEF Sem
<1>2. a \in Nat /\ n \in Nat BY DEF FrameType
<1>3. frame[currpid].at \in OnSem => a \in Sem BY DEF IInv, Contexts, Frames
<1>4. User.at \notin Apart /\ User \in FrameType BY DEF Apart
<1>5. ASSUME schedVars' = schedVars PROVE OneMoves
  BY <1>5, StillMoved, StillOne DEF schedVars
<1>6. ASSUME NEW slice \in 1 .. QUANTUM, Resched(prstate, readylist, qkey, slice) PROVE OneMoves
  BY <1>6, StayMoves, StillOne DEF IInv
<1>7. ASSUME NEW s \in Sem, NEW count \in Counts, Semcreate(s, count) PROVE PlainStep
  BY <1>5, <1>7, SameFrame DEF Semcreate, PlainStep, tableVars
<1>8. ASSUME NEW s \in Sem, WaitPass(s) PROVE PlainStep
  BY <1>5, <1>8, SameFrame DEF WaitPass, PlainStep, tableVars
<1>9. ASSUME NEW s \in Sem, WaitBlock(s) PROVE PlainStep
  <2>1. Calling("wait") /\ Block("WAIT", qkey) /\ UNCHANGED <<tableVars, frame>>
    BY <1>9 DEF WaitBlock
  <2>2. "WAIT" \in PrStates \ {"CURR", "READY"} BY DEF PrStates
  <2>3. Moved([prstate EXCEPT ![currpid] = "WAIT"])
    BY <2>1, <2>2, BlockMoves DEF IInv
  <2> QED BY <2>1, <2>3, BlocksOne, SameFrame DEF PlainStep, tableVars
<1>10. ASSUME NEW s \in Sem, Signal(s) PROVE PlainStep
  <2>1. Calling("signal") /\ Release(s, RESCHED_YES) /\ UNCHANGED <<prsem, tableVars, frame>>
    BY <1>10 DEF Signal
  <2>2. Moved(Release_st(s)) BY <2>1, ReleaseReschedSafe DEF clockVars
  <2> QED BY <2>1, <2>2, ReleasedOne, SameFrame DEF PlainStep, tableVars
<1>11. ASSUME NEW s \in Sem, NEW count \in Counts \cup {0},
              Signaln(s, count) \/ Semreset(s, count) \/ Semdelete(s) \/ DeviceInterrupt(s, count)
       PROVE  PlainStep
  <2>1. \E point \in {"signaln", "semdelete", "semreset", "intr"}, k \in Counts \cup {0} :
            /\ frame' = [frame EXCEPT ![currpid] = Frame(point, s, k)]
            /\ frame[currpid] = User /\ UNCHANGED tableVars
    BY <1>11 DEF Signaln, Semreset, Semdelete, DeviceInterrupt
  <2>2. UNCHANGED <<prstate, qkey, readylist, currpid, preempt>>
    BY <1>11 DEF Signaln, Semreset, Semdelete, DeviceInterrupt, schedVars
  <2>3. OneMoves BY <2>2, StillMoved, StillOne
  <2>4. PICK point \in {"signaln", "semdelete", "semreset", "intr"}, k \in Counts \cup {0} :
            frame' = [frame EXCEPT ![currpid] = Frame(point, s, k)]
    BY <2>1
  <2>5. s \in Nat /\ k \in Nat BY <1>1
  <2>6. FramePlain BY <1>4, <2>1, <2>4, <2>5, PlainFrames, NewFrame
  <2> QED BY <2>1, <2>3, <2>6 DEF PlainStep, tableVars
<1>12. ASSUME SignalnLoop PROVE PlainStep
  <2>1. /\ frame[currpid].at = "signaln" /\ n > 0 /\ Release(a, RESCHED_NO)
        /\ frame' = [frame EXCEPT ![currpid] = Frame("signaln", a, n - 1)]
        /\ UNCHANGED <<prsem, tableVars>>
    BY <1>12 DEF SignalnLoop, At
  <2>2. a \in Sem /\ n - 1 \in Nat BY <1>2, <1>3, <2>1 DEF OnSem
  <2> HIDE DEF a, n
  <2>3. Moved(Release_st(a)) BY <2>1, <2>2, ReleaseOnlySafe DEF clockVars
  <2>4. FramePlain BY <1>2, <2>1, <2>2, PlainFrames, NewFrame DEF Apart
  <2> QED BY <2>1, <2>2, <2>3, <2>4, ReleasedOne DEF PlainStep, tableVars
<1>13. ASSUME SemdeleteLoop PROVE PlainStep
  <2>1. /\ frame[currpid].at = "semdelete" /\ Release(a, RESCHED_NO)
        /\ UNCHANGED <<prsem, tableVars, frame>>
    BY <1>13 DEF SemdeleteLoop, At
  <2>2. a \in Sem BY <1>3, <2>1 DEF OnSem
  <2> HIDE DEF a, n
  <2>3. Moved(Release_st(a)) BY <2>1, <2>2, ReleaseOnlySafe DEF clockVars
  <2> QED BY <2>1, <2>2, <2>3, ReleasedOne, SameFrame DEF PlainStep, tableVars
<1>14. ASSUME SemresetLoop PROVE PlainStep
  <2>1. /\ frame[currpid].at = "semreset" /\ squeue[a] # <<>>
        /\ ReadyOnly(Head(squeue[a]), qkey)
        /\ UNCHANGED <<tableVars, frame>>
    BY <1>14 DEF SemresetLoop, At
  <2>2. a \in Sem BY <1>3, <2>1 DEF OnSem
  <2> HIDE DEF a, n
  <2>3. Head(squeue[a]) \in Pid /\ prstate[Head(squeue[a])] = "WAIT"
    BY <2>1, <2>2, HeadReleased
  <2>4. Moved(ReadyState(Head(squeue[a]))) BY <2>1, <2>3, ReadyOnlyMoves DEF IInv
  <2> QED BY <2>1, <2>3, <2>4, ReadiedOne, SameFrame DEF PlainStep, tableVars
<1>15. ASSUME SignalnDone \/ SemdeleteDone \/ SemresetDone PROVE PlainStep
  <2>1. /\ frame[currpid].at \in {"signaln", "semdelete", "semreset"}
        /\ frame' = [frame EXCEPT ![currpid] = User]
        /\ Resched(prstate, readylist, qkey, preempt) /\ UNCHANGED tableVars
    BY <1>15 DEF SignalnDone, SemdeleteDone, SemresetDone, At, Return
  <2>2. FramePlain BY <1>4, <2>1, NewFrame DEF Apart
  <2>3. OneMoves BY <1>6, <2>1
  <2> QED BY <2>1, <2>2, <2>3 DEF PlainStep, tableVars
<1>16. ASSUME IntrSignal PROVE PlainStep
  <2>1. /\ frame[currpid].at = "intr" /\ n > 0
        /\ frame' = [frame EXCEPT ![currpid] = Frame("intr", a, n - 1)]
        /\ IF sstate[a] = "USED" THEN Release(a, RESCHED_YES)
                                 ELSE UNCHANGED <<scount, squeue, schedVars>>
        /\ UNCHANGED <<prsem, tableVars>>
    BY <1>16 DEF IntrSignal, At
  <2>2. a \in Sem /\ n - 1 \in Nat BY <1>2, <1>3, <2>1 DEF OnSem
  <2> HIDE DEF a, n
  <2>3. OneMoves
    <3>1. CASE sstate[a] = "USED"
      <4>1. Moved(Release_st(a)) BY <2>1, <2>2, <3>1, ReleaseReschedSafe DEF clockVars
      <4> QED BY <2>1, <2>2, <4>1, ReleasedOne
    <3>2. CASE sstate[a] # "USED" BY <1>5, <2>1, <3>2
    <3> QED BY <3>1, <3>2
  <2>4. FramePlain BY <1>2, <2>1, <2>2, PlainFrames, NewFrame DEF Apart
  <2> QED BY <2>1, <2>3, <2>4 DEF PlainStep, tableVars
<1>17. ASSUME IntrDone PROVE PlainStep
  <2>1. /\ frame[currpid].at = "intr" /\ frame' = [frame EXCEPT ![currpid] = User]
        /\ IF defer.ndefers = 1 /\ defer.attempt
           THEN Switch(prstate, readylist, qkey, preempt)
           ELSE UNCHANGED <<prstate, qkey, readylist, currpid, preempt>>
        /\ UNCHANGED tableVars
    BY <1>17 DEF IntrDone, At, Return
  <2>2. Moved(prstate)
    <3>1. CanMove(prstate, readylist, qkey, preempt)
      BY DEF IInv, Scheduled, Sched, CanMove
    <3> QED BY <2>1, <3>1, SwitchMoves, StillMoved
  <2>3. FramePlain BY <1>4, <2>1, NewFrame DEF Apart
  <2> QED BY <2>1, <2>2, <2>3, StillOne DEF PlainStep, tableVars
<1> QED
  BY <1>7, <1>8, <1>9, <1>10, <1>11, <1>12, <1>13, <1>14, <1>15, <1>16, <1>17 DEF SemCall

(* The clock and sleepms(). *)
LEMMA ClockPlain ==
    ASSUME IInv, ClockStep, UNCHANGED <<semVars, prhasmsg>>
    PROVE  PlainStep
<1> USE CallFacts
<1>1. User.at \notin Apart BY DEF Apart
<1>2. ASSUME NEW delay \in Delays, Sleepms(delay) PROVE PlainStep
  <2> DEFINE keys == InsertdKeys(sleepq, qkey, currpid, Int32(delay))
  <2>1. /\ Calling("sleepms") /\ Block("SLEEP", keys) /\ UNCHANGED <<tableVars, frame>>
    BY <1>2 DEF Sleepms, SleepFor
  <2>2. DOMAIN keys = Pid BY DEF InsertdKeys
  <2>3. "SLEEP" \in PrStates \ {"CURR", "READY"} BY DEF PrStates
  <2> HIDE DEF keys
  <2>4. Moved([prstate EXCEPT ![currpid] = "SLEEP"])
    BY <2>1, <2>2, <2>3, BlockMoves DEF IInv
  <2> QED BY <2>1, <2>4, BlocksOne, SameFrame DEF PlainStep, tableVars
<1>3. ASSUME Clkhandler PROVE PlainStep
  <2>1. /\ \E point \in {"wakeup", "clk"} :
              frame' = [frame EXCEPT ![currpid] = Frame(point, 0, 0)]
        /\ frame[currpid] = User /\ UNCHANGED <<prstate, tableVars>>
    BY <1>3 DEF Clkhandler
  <2>2. Scheduled' BY <1>3, ClkhandlerInv DEF IInv
  <2>3. Moved(prstate) BY <2>1, <2>2 DEF Moved, Alike
  <2>4. FramePlain BY <1>1, <2>1, PlainFrames, NewFrame
  <2> QED BY <2>1, <2>3, <2>4, StillOne DEF PlainStep, tableVars
<1>4. ASSUME WakeupLoop PROVE PlainStep
  <2> DEFINE p == Head(sleepq)
  <2>1. /\ sleepq # <<>> /\ ReadyOnly(p, qkey) /\ UNCHANGED <<tableVars, frame>>
    BY <1>4 DEF WakeupLoop
  <2>2. Lists(sleepq, SleepSet(prstate)) BY DEF IInv, Sleepers
  <2>3. p \in SleepSet(prstate) BY <2>1, <2>2, TailLists
  <2> HIDE DEF p
  <2>4. p \in Pid /\ prstate[p] \in {"SLEEP", "RECTIM"} BY <2>3 DEF SleepSet
  <2>5. Moved(ReadyState(p)) BY <2>1, <2>4, ReadyOnlyMoves DEF IInv
  <2> QED BY <2>1, <2>4, <2>5, ReadiedOne, SameFrame DEF PlainStep, tableVars
<1>5. ASSUME WakeupDone \/ ClkPreempt PROVE PlainStep
  <2>1. /\ frame[currpid].at \in {"wakeup", "clk"} /\ UNCHANGED tableVars
        /\ frame' = [frame EXCEPT ![currpid] = Frame("clk", 0, 0)] \/ frame' = [frame EXCEPT ![currpid] = User]
    BY <1>5 DEF WakeupDone, ClkPreempt, At, Return
  <2>2. FramePlain BY <1>1, <2>1, PlainFrames, NewFrame DEF Apart
  <2>3. Moved(prstate)
    <3>1. Scheduled' BY <1>5, WakeupDoneInv, ClkPreemptInv DEF IInv
    <3>2. CASE \E slice \in 1 .. QUANTUM : Resched(prstate, readylist, qkey, slice)
      BY <3>2, StayMoves DEF IInv
    <3>3. CASE UNCHANGED prstate BY <3>1, <3>3 DEF Moved, Alike
    <3> QED BY <1>5, <3>2, <3>3, NullInPid DEF WakeupDone, ClkPreempt
  <2> QED BY <2>1, <2>2, <2>3, StillOne DEF PlainStep, tableVars
<1> QED BY <1>2, <1>3, <1>4, <1>5 DEF ClockStep

----------------------------------------------------------------------------
(***************************************************************************)
(* Mailboxes.                                                              *)
(***************************************************************************)

(* A process inside receive() is blocked there, or has been woken with a   *)
(* message; it is never anywhere else.                                     *)
InReceive ==
    \A p \in Pid : frame[p].at = "receive" =>
        prstate[p] \in {"CURR", "READY", "SUSP", "RECV", "FREE"}

MailInv == MailboxWakes /\ InReceive

LEMMA MailPlain ==
    ASSUME IInv, MailInv, PlainStep
    PROVE  MailInv'
<1> USE CallFacts
<1>1. PICK p \in Pid, s \in PrStates :
        /\ Moved([prstate EXCEPT ![p] = s])
        /\ \/ s = prstate[p]
           \/ s = "READY" /\ prstate[p] \in {"SUSP", "WAIT", "SLEEP", "RECTIM"}
           \/ s = "SUSP" /\ prstate[p] = "READY"
           \/ s \in {"SUSP", "WAIT", "SLEEP"} /\ p = currpid /\ frame[p] = User
  BY DEF PlainStep, OneMoves
<1>2. /\ prstate' \in [Pid -> PrStates] /\ prhasmsg' = prhasmsg
      /\ \A q \in Pid : Alike(IF q = p THEN s ELSE prstate[q], prstate'[q])
  BY <1>1 DEF Moved, Scheduled, Sched, PlainStep
<1>3. \A q \in Pid : frame'[q].at = "receive" <=> frame[q].at = "receive"
  BY DEF PlainStep, FramePlain, Apart
<1>4. \A q \in Pid : frame'[q].at = "receive" /\ frame[q] = User => FALSE
  BY <1>3
<1>5. ASSUME NEW q \in Pid
      PROVE  /\ prstate'[q] \in {"RECV", "RECTIM"} => ~prhasmsg[q]
             /\ frame'[q].at = "receive" /\ prstate'[q] \in {"CURR", "READY", "SUSP"} => prhasmsg[q]
             /\ frame'[q].at = "receive" => prstate'[q] \in {"CURR", "READY", "SUSP", "RECV", "FREE"}
  <2>1. /\ prstate[q] \in {"RECV", "RECTIM"} => ~prhasmsg[q]
        /\ frame[q].at = "receive" /\ prstate[q] \in {"CURR", "READY", "SUSP"} => prhasmsg[q]
        /\ frame[q].at = "receive" => prstate[q] \in {"CURR", "READY", "SUSP", "RECV", "FREE"}
    BY DEF MailInv, MailboxWakes, InReceive
  <2>2. CASE q # p
    <3>1. Alike(prstate[q], prstate'[q]) BY <1>2, <2>2
    <3> QED BY <1>3, <2>1, <3>1 DEF Alike, Runnable
  <2>3. CASE q = p
    <3>1. Alike(s, prstate'[q]) BY <1>2, <2>3
    <3> QED BY <1>1, <1>3, <1>4, <2>1, <2>3, <3>1 DEF Alike, Runnable
  <2> QED BY <2>2, <2>3
<1> QED BY <1>2, <1>5 DEF MailInv, MailboxWakes, InReceive

(* What becomes of the states when send() finds p: it is ready if it was   *)
(* waiting for a message. *)
Told(p) == IF prstate[p] \in {"RECV", "RECTIM"} THEN ReadyState(p) ELSE prstate

LEMMA DeliverTold ==
    ASSUME IInv, NEW p \in Pid, frame[currpid].at # "intr", Deliver(p)
    PROVE  Moved(Told(p)) /\ prhasmsg' = [prhasmsg EXCEPT ![p] = TRUE]
<1> USE CallFacts
<1>1. prhasmsg' = [prhasmsg EXCEPT ![p] = TRUE] BY DEF Deliver
<1>2. CASE prstate[p] = "RECV"
  <2>1. ReadyResched(p, qkey) BY <1>2 DEF Deliver
  <2> QED BY <1>1, <1>2, <2>1, ReadyReschedMoves DEF IInv, Told
<1>3. CASE prstate[p] = "RECTIM"
  <2> DEFINE keys == UnsleepKeys(sleepq, qkey, p)
  <2>1. ReadyResched(p, keys) BY <1>3 DEF Deliver
  <2>2. DOMAIN keys = Pid BY DEF UnsleepKeys
  <2> HIDE DEF keys
  <2> QED BY <1>1, <1>3, <2>1, <2>2, ReadyReschedMoves DEF IInv, Told
<1>4. CASE prstate[p] \notin {"RECV", "RECTIM"}
  <2>1. UNCHANGED schedVars BY <1>4 DEF Deliver
  <2> QED BY <1>1, <1>4, <2>1, StillMoved DEF Told, schedVars
<1> QED BY <1>2, <1>3, <1>4

(* A message wakes its recipient, and finds its mailbox empty. *)
LEMMA MailDelivered ==
    ASSUME IInv, MailInv, NEW p \in Pid, frame[currpid] = User, Deliver(p),
           NEW g \in FrameType, g.at # "receive",
           frame' = [frame EXCEPT ![currpid] = g]
    PROVE  MailInv'
<1> USE CallFacts
<1>1. Moved(Told(p)) /\ prhasmsg' = [prhasmsg EXCEPT ![p] = TRUE] BY DeliverTold
<1>2. \A q \in Pid : Alike(Told(p)[q], prstate'[q]) /\ prstate'[q] \in PrStates
  BY <1>1 DEF Moved, Scheduled, Sched
<1>3. /\ \A q \in Pid : q # p => Told(p)[q] = prstate[q]
      /\ Told(p)[p] = IF prstate[p] \in {"RECV", "RECTIM"} THEN "READY" ELSE prstate[p]
  BY DEF Told, ReadyState
<1>4. /\ prhasmsg' \in [Pid -> BOOLEAN] /\ prhasmsg'[p]
      /\ \A q \in Pid : q # p => prhasmsg'[q] = prhasmsg[q]
  BY <1>1 DEF IInv, Tables
<1>5. \A q \in Pid : frame'[q].at = "receive" => frame[q].at = "receive" OBVIOUS
<1>6. ASSUME NEW q \in Pid
      PROVE  /\ prstate'[q] \in {"RECV", "RECTIM"} => ~prhasmsg'[q]
             /\ frame'[q].at = "receive" /\ prstate'[q] \in {"CURR", "READY", "SUSP"} => prhasmsg'[q]
             /\ frame'[q].at = "receive" => prstate'[q] \in {"CURR", "READY", "SUSP", "RECV", "FREE"}
  <2>1. /\ prstate[q] \in {"RECV", "RECTIM"} => ~prhasmsg[q]
        /\ frame[q].at = "receive" /\ prstate[q] \in {"CURR", "READY", "SUSP"} => prhasmsg[q]
        /\ frame[q].at = "receive" => prstate[q] \in {"CURR", "READY", "SUSP", "RECV", "FREE"}
    BY DEF MailInv, MailboxWakes, InReceive
  <2>2. CASE q # p
    <3>1. Alike(prstate[q], prstate'[q]) BY <1>2, <1>3, <2>2
    <3> QED BY <1>4, <1>5, <2>1, <2>2, <3>1 DEF Alike, Runnable
  <2>3. CASE q = p
    <3>1. Alike(IF prstate[p] \in {"RECV", "RECTIM"} THEN "READY" ELSE prstate[p], prstate'[q])
      BY <1>2, <1>3, <2>3
    <3> QED BY <1>4, <1>5, <2>1, <2>3, <3>1 DEF Alike, Runnable
  <2> QED BY <2>2, <2>3
<1> QED BY <1>6 DEF MailInv, MailboxWakes, InReceive

(* Steps of the current process: it blocks, goes on or ends, and touches   *)
(* no mailbox but its own. *)
LEMMA MailOwn ==
    ASSUME IInv, MailInv, NEW s \in PrStates, Moved([prstate EXCEPT ![currpid] = s]),
           NEW g \in FrameType, frame' = [frame EXCEPT ![currpid] = g],
           \A q \in Pid : q # currpid => prhasmsg'[q] = prhasmsg[q],
           s \in {"RECV", "RECTIM"} => ~prhasmsg'[currpid],
           g.at = "receive" => s \in {"CURR", "RECV"},
           g.at = "receive" /\ s = "CURR" => prhasmsg'[currpid]
    PROVE  MailInv'
<1> USE CallFacts
<1>1. \A q \in Pid : /\ Alike(IF q = currpid THEN s ELSE prstate[q], prstate'[q])
                     /\ prstate'[q] \in PrStates
  BY DEF Moved, Scheduled, Sched
<1>2. \A q \in Pid : frame'[q] = IF q = currpid THEN g ELSE frame[q] OBVIOUS
<1>3. ASSUME NEW q \in Pid
      PROVE  /\ prstate'[q] \in {"RECV", "RECTIM"} => ~prhasmsg'[q]
             /\ frame'[q].at = "receive" /\ prstate'[q] \in {"CURR", "READY", "SUSP"} => prhasmsg'[q]
             /\ frame'[q].at = "receive" => prstate'[q] \in {"CURR", "READY", "SUSP", "RECV", "FREE"}
  <2>1. /\ prstate[q] \in {"RECV", "RECTIM"} => ~prhasmsg[q]
        /\ frame[q].at = "receive" /\ prstate[q] \in {"CURR", "READY", "SUSP"} => prhasmsg[q]
        /\ frame[q].at = "receive" => prstate[q] \in {"CURR", "READY", "SUSP", "RECV", "FREE"}
    BY DEF MailInv, MailboxWakes, InReceive
  <2>2. CASE q # currpid
    <3>1. Alike(prstate[q], prstate'[q]) BY <1>1, <2>2
    <3> QED BY <1>2, <2>1, <2>2, <3>1 DEF Alike, Runnable
  <2>3. CASE q = currpid
    <3>1. Alike(s, prstate'[q]) BY <1>1, <2>3
    <3> QED BY <1>2, <2>1, <2>3, <3>1 DEF Alike, Runnable
  <2> QED BY <2>2, <2>3
<1> QED BY <1>3 DEF MailInv, MailboxWakes, InReceive

LEMMA MailHere ==
    ASSUME IInv, MailInv, Moved(prstate),
           NEW g \in FrameType, frame' = [frame EXCEPT ![currpid] = g],
           \A q \in Pid : q # currpid => prhasmsg'[q] = prhasmsg[q],
           g.at = "receive" => prhasmsg'[currpid]
    PROVE  MailInv'
<1> USE CallFacts
<1> DEFINE s == "CURR"
<1>1. [prstate EXCEPT ![currpid] = s] = prstate OBVIOUS
<1>2. s \in PrStates /\ s \notin {"RECV", "RECTIM"} /\ s \in {"CURR", "RECV"} BY DEF PrStates
<1>3. Moved([prstate EXCEPT ![currpid] = s]) BY <1>1
<1> HIDE DEF s
<1> QED BY <1>2, <1>3, MailOwn

LEMMA MailNext == IInv /\ MailInv /\ [Next]_vars => MailInv'
<1> SUFFICES ASSUME IInv, MailInv, [Next]_vars PROVE MailInv'
  OBVIOUS
<1> USE CallFacts
<1>1. /\ [prstate EXCEPT ![currpid] = "CURR"] = prstate
      /\ {"CURR", "RECV", "RECTIM", "FREE", "SUSP"} \subseteq PrStates
      /\ prhasmsg \in [Pid -> BOOLEAN] /\ [prhasmsg EXCEPT ![currpid] = prhasmsg[currpid]] = prhasmsg
      /\ [frame EXCEPT ![currpid] = frame[currpid]] = frame
  BY DEF PrStates, IInv, Tables
<1>2. CASE SchedCall /\ UNCHANGED <<semVars, clockVars, prhasmsg>> BY <1>2, SchedPlain, MailPlain
<1>3. CASE SemCall /\ UNCHANGED <<clockVars, prhasmsg>> BY <1>3, SemPlain, MailPlain
<1>4. CASE ClockStep /\ UNCHANGED <<semVars, prhasmsg>> BY <1>4, ClockPlain, MailPlain
<1>5. ASSUME NEW p \in Pid, Send(p) PROVE MailInv'
  <2>1. frame[currpid] = User /\ Deliver(p) /\ frame' = frame BY <1>5 DEF Send
  <2> QED BY <1>1, <2>1, MailDelivered
<1>6. ASSUME Receive PROVE MailInv'
  <2>1. /\ Calling("receive") /\ frame' = [frame EXCEPT ![currpid] = Frame("receive", 0, 0)]
        /\ IF prhasmsg[currpid] THEN UNCHANGED schedVars ELSE Block("RECV", qkey)
        /\ prhasmsg' = prhasmsg
    BY <1>6 DEF Receive
  <2>2. Frame("receive", 0, 0) \in FrameType /\ Frame("receive", 0, 0).at = "receive"
    BY DEF Frame, FrameType, Points
  <2> DEFINE g == Frame("receive", 0, 0)
  <2> HIDE DEF g
  <2>3. CASE prhasmsg[currpid]
    <3>1. Moved(prstate) BY <2>1, <2>3, StillMoved DEF schedVars
    <3> QED BY <2>1, <2>2, <2>3, <3>1, MailHere
  <2>4. CASE ~prhasmsg[currpid]
    <3>1. "RECV" \in PrStates \ {"CURR", "READY"} BY DEF PrStates
    <3>2. Moved([prstate EXCEPT ![currpid] = "RECV"])
      BY <2>1, <2>4, <3>1, BlockMoves DEF IInv
    <3> QED BY <1>1, <2>1, <2>2, <2>4, <3>1, <3>2, MailOwn
  <2> QED BY <2>3, <2>4
<1>7. ASSUME NEW maxwait \in MaxWaits, Recvtime(maxwait) PROVE MailInv'
  <2> DEFINE keys == InsertdKeys(sleepq, qkey, currpid, Int32(maxwait))
  <2>1. /\ Calling("recvtime") /\ frame' = [frame EXCEPT ![currpid] = Frame("recvtime", 0, 0)]
        /\ IF prhasmsg[currpid] THEN UNCHANGED schedVars ELSE Block("RECTIM", keys)
        /\ prhasmsg' = prhasmsg
    BY <1>7 DEF Recvtime, SleepFor
  <2>2. Frame("recvtime", 0, 0) \in FrameType /\ Frame("recvtime", 0, 0).at = "recvtime"
    BY DEF Frame, FrameType, Points
  <2>3. DOMAIN keys = Pid BY DEF InsertdKeys
  <2> HIDE DEF keys
  <2>4. CASE prhasmsg[currpid]
    <3>1. Moved(prstate) BY <2>1, <2>4, StillMoved DEF schedVars
    <3> QED BY <2>1, <2>2, <2>4, <3>1, MailHere
  <2>5. CASE ~prhasmsg[currpid]
    <3>1. "RECTIM" \in PrStates \ {"CURR", "READY"} BY DEF PrStates
    <3>2. Moved([prstate EXCEPT ![currpid] = "RECTIM"])
      BY <2>1, <2>3, <2>5, <3>1, BlockMoves DEF IInv
    <3> QED BY <1>1, <2>1, <2>2, <2>5, <3>1, <3>2, MailOwn
  <2> QED BY <2>4, <2>5
<1>8. ASSUME ReceiveTake \/ RecvtimeTake \/ Recvclr PROVE MailInv'
  <2>1. /\ prhasmsg' = [prhasmsg EXCEPT ![currpid] = FALSE] /\ UNCHANGED schedVars
        /\ frame' = [frame EXCEPT ![currpid] = User]
    BY <1>1, <1>8 DEF ReceiveTake, RecvtimeTake, Recvclr, Return, Calling
  <2>2. Moved(prstate) BY <2>1, StillMoved DEF schedVars
  <2>3. \A q \in Pid : q # currpid => prhasmsg'[q] = prhasmsg[q] BY <2>1
  <2>4. User \in FrameType /\ User.at # "receive" OBVIOUS
  <2> QED BY <2>1, <2>2, <2>3, <2>4, MailHere
<1>9. ASSUME NEW p \in Pid, NEW prio \in Prios, NEW stack \in BOOLEAN, CreateProcess(p, prio, stack)
      PROVE  MailInv'
  <2>1. IF stack THEN /\ prstate' = [prstate EXCEPT ![p] = "SUSP"]
                      /\ frame' = [frame EXCEPT ![p] = User]
                      /\ prhasmsg' = [prhasmsg EXCEPT ![p] = FALSE]
                 ELSE UNCHANGED <<prstate, frame, prhasmsg>>
    BY <1>9 DEF CreateProcess, Create
  <2> QED BY <1>1, <2>1 DEF MailInv, MailboxWakes, InReceive
<1>10. ASSUME NEW victim \in Pid, Kill(victim) PROVE MailInv'
  <2>1. frame[currpid] = User BY <1>10 DEF Kill, Calling
  <2>2. CASE KillHalts BY <2>2 DEF KillHalts, schedVars, MailInv, MailboxWakes, InReceive
  <2>3. CASE KillReports(victim)
    <3> DEFINE g == Frame("kill", victim, 0)
               parent == prparent[victim]
    <3>1. /\ frame' = [frame EXCEPT ![currpid] = g]
          /\ IF Sendable(parent) THEN Deliver(parent) ELSE UNCHANGED <<schedVars, clockVars, prhasmsg>>
      BY <2>3 DEF KillReports
    <3>2. g \in FrameType /\ g.at = "kill" BY DEF Frame, FrameType, Points, Pid
    <3>3. parent \in Pid BY DEF IInv, Tables
    <3> HIDE DEF g, parent
    <3>4. CASE Sendable(parent) BY <2>1, <3>1, <3>2, <3>3, <3>4, MailDelivered
    <3>5. CASE ~Sendable(parent)
      <4>1. Moved(prstate) /\ prhasmsg' = prhasmsg BY <3>1, <3>5, StillMoved DEF schedVars
      <4> QED BY <3>1, <3>2, <4>1, MailHere
    <3> QED BY <3>4, <3>5
  <2> QED BY <1>10, <2>2, <2>3 DEF Kill
<1>11. CASE KillSelf
  <2>1. /\ frame[currpid].at = "kill" /\ Block("FREE", qkey)
        /\ frame' = [frame EXCEPT ![currpid] = User] /\ prhasmsg' = prhasmsg
        /\ frame[currpid].arg = currpid
    BY <1>11 DEF KillSelf, At, Return
  <2>2. currpid # NULLPROC BY <2>1 DEF IInv, Contexts, Frames
  <2>3. "FREE" \in PrStates \ {"CURR", "READY"} BY DEF PrStates
  <2> DEFINE s == "FREE"
  <2>4. Moved([prstate EXCEPT ![currpid] = s]) BY <2>1, <2>2, <2>3, BlockMoves DEF IInv
  <2>5. s \in PrStates /\ s \notin {"RECV", "RECTIM"} /\ User \in FrameType /\ User.at # "receive"
    BY <2>3
  <2> HIDE DEF s
  <2> QED BY <2>1, <2>4, <2>5, MailOwn
<1>12. CASE KillOther
  <2>1. /\ prstate' = [prstate EXCEPT ![frame[currpid].arg] = "FREE"]
        /\ frame' = [frame EXCEPT ![currpid] = User] /\ prhasmsg' = prhasmsg
    BY <1>12 DEF KillOther, Return
  <2> QED BY <1>1, <2>1 DEF MailInv, MailboxWakes, InReceive
<1>13. CASE Halt \/ UNCHANGED vars
  BY <1>13 DEF Halt, vars, schedVars, MailInv, MailboxWakes, InReceive
<1> QED
  BY <1>2, <1>3, <1>4, <1>5, <1>6, <1>7, <1>8, <1>9, <1>10, <1>11, <1>12, <1>13 DEF Next, MsgCall

LEMMA MailInit == Init => MailInv
<1> SUFFICES ASSUME Init PROVE MailInv
  OBVIOUS
<1>1. /\ \A p \in Pid : prstate[p] \in {"READY", "CURR", "FREE"}
      /\ \A p \in Pid : frame[p] = User
  BY DEF Init, SchedInit
<1>2. User.at # "receive" BY DEF User, Frame
<1> QED BY <1>1, <1>2 DEF MailInv, MailboxWakes, InReceive

(* A process that goes on from receive() finds a message, whoever ran      *)
(* since it was woken, and no process stays blocked with a message in its  *)
(* mailbox.                                                                *)
THEOREM MailboxesWake == Spec => []MailboxWakes
<1>1. MailInv => MailboxWakes BY DEF MailInv
<1> QED BY <1>1, KernelInvariant, MailInit, MailNext, PTL DEF Spec

----------------------------------------------------------------------------
(***************************************************************************)
(* The count of processes.                                                 *)
(***************************************************************************)

(* Those inside kill(), whose victim is off the count and still in the     *)
(* table. *)
Killers == {p \in Live : frame[p].at = "kill"}

ExitInv == prcount + Cardinality(Killers) <= Cardinality(Live)

LEMMA PidsFinite ==
    /\ IsFiniteSet(Pid)
    /\ \A S : S \subseteq Pid => IsFiniteSet(S) /\ Cardinality(S) \in Nat
    /\ \A S, p : S \subseteq Pid /\ p \in Pid =>
           /\ Cardinality(S \cup {p}) = Cardinality(S) + (IF p \in S THEN 0 ELSE 1)
           /\ Cardinality(S \ {p}) = Cardinality(S) - (IF p \in S THEN 1 ELSE 0)
<1>1. IsFiniteSet(Pid) BY SchedAssumption, FS_Interval DEF Pid
<1>2. \A S : S \subseteq Pid => IsFiniteSet(S) /\ Cardinality(S) \in Nat
  BY <1>1, FS_Subset, FS_CardinalityType
<1>3. ASSUME NEW S, NEW p, S \subseteq Pid, p \in Pid
      PROVE  /\ Cardinality(S \cup {p}) = Cardinality(S) + (IF p \in S THEN 0 ELSE 1)
             /\ Cardinality(S \ {p}) = Cardinality(S) - (IF p \in S THEN 1 ELSE 0)
  BY <1>2, <1>3, FS_AddElement, FS_RemoveElement
<1> QED BY <1>1, <1>2, <1>3

LEMMA RemovesOne ==
    ASSUME NEW S, S \subseteq Pid, NEW p \in Pid
    PROVE  /\ Cardinality(S \ {p}) \in Cardinality(S) - 1 .. Cardinality(S)
           /\ Cardinality(S) \in Nat
<1>1. Cardinality(S) \in Nat BY PidsFinite
<1>2. Cardinality(S \ {p}) = Cardinality(S) - (IF p \in S THEN 1 ELSE 0)
  BY PidsFinite
<1>3. CASE p \in S BY <1>1, <1>2, <1>3
<1>4. CASE p \notin S BY <1>1, <1>2, <1>4
<1> QED BY <1>3, <1>4

(* A step that makes and ends no process, and takes nobody into kill() or  *)
(* out of it.                                                              *)
LEMMA ExitStay ==
    ASSUME ExitInv, Live' = Live, Killers' = Killers, prcount' = prcount
    PROVE  ExitInv'
BY DEF ExitInv

LEMMA LiveStays ==
    ASSUME IInv, NEW st, Moved(st), \A p \in Pid : st[p] = "FREE" <=> prstate[p] = "FREE"
    PROVE  Live' = Live
BY DEF Live, Moved, Alike, Runnable

LEMMA ExitPlain ==
    ASSUME IInv, ExitInv, PlainStep
    PROVE  ExitInv'
<1> USE CallFacts
<1>1. PICK p \in Pid, s \in PrStates :
        /\ Moved([prstate EXCEPT ![p] = s])
        /\ \/ s = prstate[p]
           \/ s = "READY" /\ prstate[p] \in {"SUSP", "WAIT", "SLEEP", "RECTIM"}
           \/ s = "SUSP" /\ prstate[p] = "READY"
           \/ s \in {"SUSP", "WAIT", "SLEEP"} /\ p = currpid /\ frame[p] = User
  BY DEF PlainStep, OneMoves
<1>2. \A q \in Pid : [prstate EXCEPT ![p] = s][q] = "FREE" <=> prstate[q] = "FREE"
  BY <1>1
<1>3. Live' = Live BY <1>1, <1>2, LiveStays
<1>4. \A q \in Pid : frame'[q].at = "kill" <=> frame[q].at = "kill"
  BY DEF PlainStep, FramePlain, Apart
<1>5. Killers' = Killers BY <1>3, <1>4 DEF Killers, Live
<1> QED BY <1>3, <1>5, ExitStay DEF PlainStep

(* send() makes no process and ends none. *)
LEMMA ToldLives ==
    ASSUME IInv, NEW p \in Pid, frame[currpid].at # "intr", Deliver(p)
    PROVE  Live' = Live
<1>1. Moved(Told(p)) BY DeliverTold
<1>2. \A q \in Pid : Told(p)[q] = "FREE" <=> prstate[q] = "FREE"
  BY CallFacts DEF Told, ReadyState
<1> QED BY <1>1, <1>2, LiveStays

LEMMA ExitNext == IInv /\ ExitInv /\ [Next]_vars => ExitInv'
<1> SUFFICES ASSUME IInv, ExitInv, [Next]_vars PROVE ExitInv'
  OBVIOUS
<1> USE CallFacts
<1>1. /\ Live \subseteq Pid /\ Killers \subseteq Pid /\ Cardinality(Live) \in Nat
      /\ Cardinality(Killers) \in Nat /\ prcount \in Int /\ currpid \in Live
      /\ prcount + Cardinality(Killers) <= Cardinality(Live)
  BY PidsFinite DEF Live, Killers, IInv, Tables, ExitInv
<1>2. CASE SchedCall /\ UNCHANGED <<semVars, clockVars, prhasmsg>> BY <1>2, SchedPlain, ExitPlain
<1>3. CASE SemCall /\ UNCHANGED <<clockVars, prhasmsg>> BY <1>3, SemPlain, ExitPlain
<1>4. CASE ClockStep /\ UNCHANGED <<semVars, prhasmsg>> BY <1>4, ClockPlain, ExitPlain
<1>5. ASSUME NEW g \in FrameType, frame' = [frame EXCEPT ![currpid] = g],
             g.at # "kill", frame[currpid].at # "kill", Live' = Live, prcount' = prcount
      PROVE  ExitInv'
  <2>1. \A q \in Pid : frame'[q].at = "kill" <=> frame[q].at = "kill" BY <1>5
  <2>2. Killers' = Killers BY <1>5, <2>1 DEF Killers, Live
  <2> QED BY <1>5, <2>2, ExitStay
<1>6. CASE MsgCall /\ UNCHANGED semVars
  <2>1. prcount' = prcount
    BY <1>6 DEF MsgCall, Send, Receive, ReceiveTake, Recvtime, RecvtimeTake, Recvclr, tableVars
  <2>2. PICK g \in FrameType : frame' = [frame EXCEPT ![currpid] = g]
             /\ g.at # "kill" /\ frame[currpid].at # "kill"
    <3>1. /\ Frame("receive", 0, 0) \in FrameType /\ Frame("receive", 0, 0).at # "kill"
          /\ Frame("recvtime", 0, 0) \in FrameType /\ Frame("recvtime", 0, 0).at # "kill"
          /\ [frame EXCEPT ![currpid] = frame[currpid]] = frame
      BY DEF Frame, FrameType, Points
    <3>2. CASE frame' = frame
      <4>1. frame[currpid].at # "kill" BY <1>6, <3>2 DEF MsgCall, Send, Receive, ReceiveTake, Recvtime, RecvtimeTake, Recvclr, At
      <4> QED BY <3>1, <3>2, <4>1
    <3>3. CASE frame' # frame
      BY <1>6, <3>1, <3>3 DEF MsgCall, Send, Receive, ReceiveTake, Recvtime, RecvtimeTake, Recvclr, At, Return
    <3> QED BY <3>2, <3>3
  <2>3. Live' = Live
    <3>1. ASSUME NEW p \in Pid, Send(p) PROVE Live' = Live BY <3>1, ToldLives DEF Send
    <3>2. CASE Receive
      <4>1. /\ currpid # NULLPROC /\ frame[currpid] = User
            /\ schedVars' = schedVars \/ Block("RECV", qkey)
        BY <3>2 DEF Receive, Calling
      <4>2. /\ "RECV" \in PrStates \ {"CURR", "READY"}
            /\ frame[currpid].at # "intr" /\ DOMAIN qkey = Pid
        BY <4>1 DEF PrStates, User, Frame, IInv, Scheduled, Sched
      <4>3. CASE Block("RECV", qkey)
        <5> DEFINE st == [prstate EXCEPT ![currpid] = "RECV"]
        <5>1. Moved(st) BY <4>1, <4>2, <4>3, BlockMoves DEF IInv
        <5>2. \A p \in Pid : st[p] = "FREE" <=> prstate[p] = "FREE" OBVIOUS
        <5>3. \A p \in Pid : st[p] = "FREE" <=> prstate'[p] = "FREE"
          BY <5>1 DEF Moved, Alike, Runnable
        <5>4. \A p \in Pid : prstate[p] = "FREE" <=> prstate'[p] = "FREE" BY <5>2, <5>3
        <5> QED BY ONLY <5>4 DEF Live
      <4>4. CASE schedVars' = schedVars BY <4>4 DEF schedVars, Live
      <4> QED BY <4>1, <4>3, <4>4
    <3>3. CASE \E maxwait \in MaxWaits : Recvtime(maxwait)
      <4> PICK maxwait \in MaxWaits : Recvtime(maxwait) BY <3>3
      <4> DEFINE keys == InsertdKeys(sleepq, qkey, currpid, Int32(maxwait))
      <4>1. /\ currpid # NULLPROC /\ frame[currpid] = User
            /\ schedVars' = schedVars \/ Block("RECTIM", keys)
        BY DEF Recvtime, SleepFor, Calling
      <4>2. /\ "RECTIM" \in PrStates \ {"CURR", "READY"}
            /\ frame[currpid].at # "intr" /\ DOMAIN keys = Pid
        BY <4>1 DEF PrStates, User, Frame, IInv, Scheduled, Sched, InsertdKeys
      <4> HIDE DEF keys
      <4>3. CASE Block("RECTIM", keys)
        <5> DEFINE st == [prstate EXCEPT ![currpid] = "RECTIM"]
        <5>1. Moved(st) BY <4>1, <4>2, <4>3, BlockMoves DEF IInv
        <5>2. \A p \in Pid : st[p] = "FREE" <=> prstate[p] = "FREE" OBVIOUS
        <5>3. \A p \in Pid : st[p] = "FREE" <=> prstate'[p] = "FREE"
          BY <5>1 DEF Moved, Alike, Runnable
        <5>4. \A p \in Pid : prstate[p] = "FREE" <=> prstate'[p] = "FREE" BY <5>2, <5>3
        <5> QED BY ONLY <5>4 DEF Live
      <4>4. CASE schedVars' = schedVars BY <4>4 DEF schedVars, Live
      <4> QED BY <4>1, <4>3, <4>4
    <3>4. CASE ReceiveTake \/ RecvtimeTake \/ Recvclr
      BY <3>4 DEF ReceiveTake, RecvtimeTake, Recvclr, schedVars, Live
    <3> QED BY <1>6, <3>1, <3>2, <3>3, <3>4 DEF MsgCall
  <2> QED BY <1>5, <2>1, <2>2, <2>3
<1>7. ASSUME NEW p \in Pid, NEW prio \in Prios, NEW stack \in BOOLEAN, CreateProcess(p, prio, stack)
      PROVE  ExitInv'
  <2>1. /\ prstate[p] = "FREE"
        /\ IF stack THEN /\ prstate' = [prstate EXCEPT ![p] = "SUSP"]
                         /\ frame' = [frame EXCEPT ![p] = User]
                         /\ prcount' = prcount + 1
                    ELSE UNCHANGED <<prstate, frame, prcount>>
    BY <1>7 DEF CreateProcess, Create, Newpid
  <2>2. CASE stack
    <3>1. Live' = Live \cup {p} /\ p \notin Live BY <2>1, <2>2 DEF Live
    <3>2. Killers' = Killers BY <2>1, <2>2 DEF Killers, Live
    <3>3. Cardinality(Live') = Cardinality(Live) + 1 BY <1>1, <3>1, PidsFinite
    <3> QED BY <1>1, <2>1, <2>2, <3>2, <3>3 DEF ExitInv
  <2>3. CASE ~stack BY <2>1, <2>3, ExitStay DEF Live, Killers
  <2> QED BY <2>2, <2>3
<1>8. ASSUME NEW victim \in Pid, Kill(victim) PROVE ExitInv'
  <2>1. frame[currpid] = User /\ prcount' = prcount - 1 BY <1>8 DEF Kill, Calling
  <2>2. CASE KillHalts
    <3>1. Live' = Live /\ Killers' = Killers BY <2>2 DEF KillHalts, schedVars, Live, Killers
    <3> QED BY <1>1, <2>1, <3>1 DEF ExitInv
  <2>3. CASE KillReports(victim)
    <3>1. /\ frame' = [frame EXCEPT ![currpid] = Frame("kill", victim, 0)]
          /\ Deliver(prparent[victim]) \/ schedVars' = schedVars
      BY <2>3 DEF KillReports
    <3>2. prparent[victim] \in Pid BY DEF IInv, Tables
    <3>3. Live' = Live
      <4>1. CASE schedVars' = schedVars BY <4>1 DEF schedVars, Live
      <4>2. CASE Deliver(prparent[victim]) BY <2>1, <3>2, <4>2, ToldLives
      <4> QED BY <3>1, <4>1, <4>2
    <3>4. Killers' = Killers \cup {currpid} /\ currpid \notin Killers
      <4>1. \A q \in Pid : frame'[q].at = "kill" <=> (q = currpid \/ frame[q].at = "kill")
        BY <3>1 DEF Frame
      <4> QED BY <1>1, <2>1, <3>3, <4>1 DEF Killers, Live
    <3>5. Cardinality(Killers') = Cardinality(Killers) + 1 BY <1>1, <3>4, PidsFinite
    <3> QED BY <1>1, <2>1, <3>3, <3>5 DEF ExitInv
  <2> QED BY <1>8, <2>2, <2>3 DEF Kill
<1>9. CASE KillSelf
  <2>1. /\ frame[currpid].at = "kill" /\ Block("FREE", qkey)
        /\ frame' = [frame EXCEPT ![currpid] = User] /\ prcount' = prcount
        /\ frame[currpid].arg = currpid
    BY <1>9 DEF KillSelf, At, Return, tableVars
  <2>2. currpid # NULLPROC BY <2>1 DEF IInv, Contexts, Frames
  <2>3. "FREE" \in PrStates \ {"CURR", "READY"} BY DEF PrStates
  <2>4. Moved([prstate EXCEPT ![currpid] = "FREE"]) BY <2>1, <2>2, <2>3, BlockMoves DEF IInv
  <2>5. Live' = Live \ {currpid} BY <2>4 DEF Live, Moved, Alike, Runnable
  <2>6. Killers' = Killers \ {currpid} /\ currpid \in Killers
    BY <1>1, <2>1, <2>5 DEF Killers, Live
  <2>7. /\ Cardinality(Live') = Cardinality(Live) - 1
        /\ Cardinality(Killers') = Cardinality(Killers) - 1
    BY <1>1, <2>5, <2>6, PidsFinite
  <2> QED BY <1>1, <2>1, <2>7 DEF ExitInv
<1>10. CASE KillOther
  <2> DEFINE v == frame[currpid].arg
  <2>1. /\ frame[currpid].at = "kill" /\ prstate' = [prstate EXCEPT ![v] = "FREE"]
        /\ v # currpid /\ frame' = [frame EXCEPT ![currpid] = User] /\ prcount' = prcount
    BY <1>10 DEF KillOther, At, Return, tableVars
  <2>2. v \in Pid BY <2>1 DEF IInv, Contexts, Frames
  <2>3. Live' = Live \ {v} BY <2>1, <2>2 DEF Live
  <2>4. Killers' = (Killers \ {currpid}) \ {v} /\ currpid \in Killers
    BY <1>1, <2>1, <2>2, <2>3 DEF Killers, Live
  <2> HIDE DEF v
  <2>5. Cardinality(Live') >= Cardinality(Live) - 1
    BY <1>1, <2>2, <2>3, RemovesOne
  <2>6. Cardinality(Killers \ {currpid}) = Cardinality(Killers) - 1 /\ Killers \ {currpid} \subseteq Pid
    BY <1>1, <2>4, PidsFinite
  <2>7. Cardinality(Killers') <= Cardinality(Killers) - 1
    <3> DEFINE K == Killers \ {currpid}
    <3>1. K \subseteq Pid /\ Cardinality(K) = Cardinality(Killers) - 1 /\ Killers' = K \ {v}
      BY <2>4, <2>6
    <3> HIDE DEF K
    <3> QED BY <1>1, <2>2, <3>1, RemovesOne
  <2>8. Cardinality(Killers') \in Nat /\ Cardinality(Live') \in Nat
    BY <1>1, <2>3, <2>4, PidsFinite
  <2> QED BY <1>1, <2>1, <2>5, <2>7, <2>8 DEF ExitInv
<1>11. CASE Halt \/ UNCHANGED vars
  BY <1>11, ExitStay DEF Halt, vars, schedVars, tableVars, Live, Killers
<1> QED BY <1>2, <1>3, <1>4, <1>6, <1>7, <1>8, <1>9, <1>10, <1>11 DEF Next

LEMMA ExitInit == Init => ExitInv
<1> SUFFICES ASSUME Init PROVE ExitInv
  OBVIOUS
<1>1. /\ \A p \in Pid : prstate[p] = IF p = 0 THEN "READY" ELSE IF p = 1 THEN "CURR" ELSE "FREE"
      /\ \A p \in Pid : frame[p] = User
      /\ prcount = 2
  BY DEF Init, SchedInit
<1>2. 0 \in Pid /\ 1 \in Pid BY SchedAssumption DEF Pid
<1>3. Live = {0, 1} /\ Killers = {} BY <1>1, <1>2 DEF Live, Killers, User, Frame
<1>4. Cardinality(Killers) = 0 BY <1>3, FS_EmptySet
<1>5. Cardinality(Live) = 2
  <2>1. {0} \subseteq Pid /\ Live = {0} \cup {1} /\ 1 \notin {0} BY <1>2, <1>3
  <2>2. Cardinality(Live) = Cardinality({0}) + 1 BY <1>2, <2>1, PidsFinite
  <2> QED BY <2>2, FS_Singleton
<1> QED BY <1>1, <1>4, <1>5 DEF ExitInv

(* The count of processes is never more than the processes there are, so   *)
(* that the exit of the last one is seen: neither kill() of a process that *)
(* somebody is killing, nor of one that is inside kill() itself, nor the   *)
(* reuse of a table entry whose kill() has not finished can make it so.    *)
THEOREM LastExitIsSeen == Spec => []LastExitHalts
<1>1. IInv /\ ExitInv => LastExitHalts
  <2> SUFFICES ASSUME IInv, ExitInv PROVE LastExitHalts
    OBVIOUS
  <2>1. Cardinality(Live) \in Nat /\ Cardinality(Killers) \in Nat /\ prcount \in Int
    BY PidsFinite DEF Live, Killers, IInv, Tables
  <2> QED BY <2>1 DEF ExitInv, LastExitHalts
<1> QED BY <1>1, KernelInvariant, ExitInit, ExitNext, PTL DEF Spec

----------------------------------------------------------------------------
(***************************************************************************)
(* The promise of module Semaphore.  Interrupts are off while a semaphore  *)
(* is reset, so whether it is shows in the frames alone.                   *)
(***************************************************************************)
ResetIn(f) == \E p \in Pid : f[p].at = "semreset" /\ f[p].arg = ASem

ModeOf(ss, f) ==
    IF ss[ASem] # "USED" THEN "none" ELSE IF ResetIn(f) THEN "reset" ELSE "live"

LEMMA ModeNow == IInv => AbsMode = ModeOf(sstate, frame)
BY ContractAssumption
   DEF IInv, Tables, Scheduled, Sched, Contexts, Frames, Busy, AbsMode, Resetting, ModeOf, ResetIn

LEMMA ModeNext == IInv' => AbsMode' = ModeOf(sstate', frame')
BY ContractAssumption
   DEF IInv, Tables, Scheduled, Sched, Contexts, Frames, Busy, AbsMode, Resetting, ModeOf, ResetIn

(* The count and the queue of a semaphore that nobody is resetting.        *)
LEMMA CountNow ==
    ASSUME IInv, frame[currpid].at # "semreset"
    PROVE  /\ sstate[ASem] \in {"FREE", "USED"} /\ scount[ASem] \in Int
           /\ squeue[ASem] \in Seq(Pid) /\ Len(squeue[ASem]) \in Nat
           /\ AbsMode = IF sstate[ASem] = "USED" THEN "live" ELSE "none"
           /\ Len(squeue[ASem]) = IF scount[ASem] < 0 THEN 0 - scount[ASem] ELSE 0
           /\ sstate[ASem] = "FREE" /\ ~Deleting(ASem) =>
                 squeue[ASem] = <<>> /\ scount[ASem] >= 0
<1> USE ContractAssumption
<1>1. sstate[ASem] \in {"FREE", "USED"} /\ scount[ASem] \in Int
  BY DEF IInv, Tables
<1>2. squeue[ASem] \in Seq(Pid)
  BY ListsArePids DEF IInv, Waiters, WaitSet
<1>3. AbsMode = IF sstate[ASem] = "USED" THEN "live" ELSE "none"
  BY <1>1 DEF AbsMode, Resetting
<1>4. Len(squeue[ASem]) = IF scount[ASem] < 0 THEN 0 - scount[ASem] ELSE 0
  BY NegativeWaits
<1>5. ASSUME sstate[ASem] = "FREE", ~Deleting(ASem) PROVE squeue[ASem] = <<>> /\ scount[ASem] >= 0
  <2>1. scount[ASem] >= 0 BY <1>5 DEF IInv, FreeSems
  <2>2. Len(squeue[ASem]) = 0 BY <1>1, <1>4, <2>1
  <2> QED BY <1>2, <2>1, <2>2, EmptySeq
<1> QED BY <1>1, <1>2, <1>3, <1>4, <1>5, LenProperties

(* A step that leaves the semaphore and all resets alone.                  *)
ResetsStay ==
    \A p \in Pid : \/ frame'[p] = frame[p]
                   \/ frame'[p].at # "semreset" /\ frame[p].at # "semreset"

LEMMA ModeStays ==
    ASSUME IInv, IInv', sstate'[ASem] = sstate[ASem], ResetsStay
    PROVE  AbsMode' = AbsMode
<1>1. ResetIn(frame') <=> ResetIn(frame) BY DEF ResetIn, ResetsStay
<1> QED BY <1>1, ModeNow, ModeNext DEF ModeOf

LEMMA AbsStutters ==
    ASSUME IInv, IInv', sstate'[ASem] = sstate[ASem], scount'[ASem] = scount[ASem],
           squeue'[ASem] = squeue[ASem], ResetsStay
    PROVE  UNCHANGED Contract!absVars
<1>1. AbsMode' = AbsMode BY ModeStays
<1>2. AbsTokens' = AbsTokens BY DEF AbsTokens
<1> QED BY <1>1, <1>2 DEF Contract!absVars

(* The current process goes to a point that has nothing to do with a reset. *)
LEMMA OwnFrameStays ==
    ASSUME IInv, frame[currpid].at # "semreset", NEW g \in FrameType, g.at # "semreset",
           frame' = [frame EXCEPT ![currpid] = g]
    PROVE  ResetsStay
BY CallFacts DEF ResetsStay

(* Everything outside module XinuSem, but kill(). *)
LEMMA OthersStutter ==
    ASSUME IInv, IInv', UNCHANGED semVars,
           \/ SchedCall \/ ClockStep \/ MsgCall
           \/ \E p \in Pid, prio \in Prios, stack \in BOOLEAN : CreateProcess(p, prio, stack)
           \/ \E p \in Pid : Kill(p)
           \/ KillSelf \/ Halt
    PROVE  UNCHANGED Contract!absVars
<1> USE CallFacts
<1>1. UNCHANGED <<sstate, scount, squeue>> BY DEF semVars
<1>2. ResetsStay
  <2>1. CASE SchedCall
    BY <2>1 DEF ResetsStay, SchedCall, Resume, SuspendReady, SuspendSelf, Chprio, Yield
  <2>2. CASE ClockStep
    <3>1. /\ frame' = frame \/ \E g \in FrameType : g.at # "semreset" /\ frame' = [frame EXCEPT ![currpid] = g]
          /\ frame' = frame \/ frame[currpid].at # "semreset"
      BY <2>2 DEF ClockStep, Sleepms, Clkhandler, WakeupLoop, WakeupDone, ClkPreempt,
                  Return, At, User, Frame, FrameType, Points
    <3> QED BY <3>1 DEF ResetsStay
  <2>3. CASE MsgCall
    <3>1. /\ frame' = frame \/ \E g \in FrameType : g.at # "semreset" /\ frame' = [frame EXCEPT ![currpid] = g]
          /\ frame' = frame \/ frame[currpid].at # "semreset"
      BY <2>3 DEF MsgCall, Send, Receive, ReceiveTake, Recvtime, RecvtimeTake, Recvclr,
                  Return, At, User, Frame, FrameType, Points
    <3> QED BY <3>1 DEF ResetsStay
  <2>4. ASSUME NEW p \in Pid, NEW prio \in Prios, NEW stack \in BOOLEAN,
               CreateProcess(p, prio, stack)
        PROVE  ResetsStay
    <3>1. /\ prstate[p] = "FREE"
          /\ frame' = frame \/ frame' = [frame EXCEPT ![p] = User]
      BY <2>4 DEF CreateProcess, Create, Newpid
    <3>2. frame[p].at # "semreset" BY <3>1 DEF IInv, Contexts, Frames, Busy
    <3> QED BY <3>1, <3>2 DEF ResetsStay
  <2>5. ASSUME NEW p \in Pid, Kill(p) PROVE ResetsStay
    <3>1. /\ frame[currpid].at = "user"
          /\ frame' = frame \/ frame' = [frame EXCEPT ![currpid] = Frame("kill", p, 0)]
      BY <2>5 DEF Kill, KillReports, KillHalts, Calling
    <3>2. Frame("kill", p, 0).at # "semreset" BY DEF Frame
    <3> QED BY <3>1, <3>2 DEF ResetsStay
  <2>6. CASE KillSelf
    BY <2>6 DEF ResetsStay, KillSelf, At, Return
  <2>7. CASE Halt BY <2>7 DEF ResetsStay, Halt, vars
  <2> QED BY <2>1, <2>2, <2>3, <2>4, <2>5, <2>6, <2>7
<1> QED BY <1>1, <1>2, AbsStutters

(* One of the killed process's semaphores loses a waiter. *)
LEMMA KillAbstract ==
    ASSUME IInv, IInv', KillOther
    PROVE  [Contract!AbsNext]_(Contract!absVars)
<1> USE CallFacts, ContractAssumption
<1> DEFINE v == frame[currpid].arg
           s == prsem[v]
<1>1. /\ frame[currpid].at = "kill" /\ frame' = [frame EXCEPT ![currpid] = User]
      /\ sstate' = sstate
      /\ IF prstate[v] = "WAIT" THEN /\ scount' = [scount EXCEPT ![s] = scount[s] + 1]
                                     /\ squeue' = [squeue EXCEPT ![s] = Getitem(squeue[s], v)]
                                ELSE scount' = scount /\ squeue' = squeue
  BY DEF KillOther, At, Return
<1>2. ResetsStay BY <1>1 DEF ResetsStay
<1>3. AbsMode' = AbsMode BY <1>1, <1>2, ModeStays
<1>4. CASE prstate[v] # "WAIT" \/ s # ASem
  <2>1. scount'[ASem] = scount[ASem] /\ squeue'[ASem] = squeue[ASem]
    BY <1>1, <1>4 DEF IInv, Tables, Waiters
  <2> QED BY <1>1, <1>2, <2>1, AbsStutters
<1>5. CASE prstate[v] = "WAIT" /\ s = ASem
  <2>1. v \in Pid /\ v \in WaitSet(prstate, prsem, ASem)
    BY <1>1, <1>5 DEF WaitSet, IInv, Contexts, Frames
  <2>2. Lists(squeue[ASem], WaitSet(prstate, prsem, ASem)) BY DEF IInv, Waiters
  <2>3. PICK i \in DOMAIN squeue[ASem] : squeue[ASem][i] = v
    BY <2>1, <2>2 DEF Lists
  <2>4. (CHOOSE j \in DOMAIN squeue[ASem] : squeue[ASem][j] = v) \in DOMAIN squeue[ASem]
    BY <2>3
  <2>5. /\ scount'[ASem] = scount[ASem] + 1
        /\ squeue'[ASem] = Getitem(squeue[ASem], v)
    BY <1>1, <1>5 DEF IInv, Tables, Waiters
  <2>6. \E j \in DOMAIN squeue[ASem] : squeue'[ASem] = RemoveAt(squeue[ASem], j)
    BY <2>4, <2>5 DEF Getitem
  <2>7. squeue[ASem] # <<>> BY <2>3
  <2>8. ~Deleting(ASem) BY <1>1 DEF Deleting
  <2>9. AbsMode = "live" /\ scount[ASem] < 0 /\ scount[ASem] \in Int
    BY <1>1, <2>7, <2>8, CountNow
  <2>10. AbsTokens' = AbsTokens BY <2>5, <2>9 DEF AbsTokens
  <2>11. Contract!Abandon
    BY <1>3, <2>6, <2>9, <2>10 DEF Contract!Abandon, Contract!RemoveAt, RemoveAt
  <2> QED BY <2>11 DEF Contract!AbsNext
<1> QED BY <1>4, <1>5

(* `if (scount++ < 0) ready(dequeue(squeue))` on a semaphore that nobody   *)
(* resets: a signal, or a release by semdelete().                          *)
LEMMA ReleaseAbstract ==
    ASSUME IInv, IInv', NEW s \in Sem, NEW resch \in BOOLEAN, Release(s, resch),
           sstate' = sstate, frame[currpid].at # "semreset", ResetsStay
    PROVE  [Contract!AbsNext]_(Contract!absVars)
<1> USE CallFacts, ContractAssumption
<1>1. AbsMode' = AbsMode BY ModeStays
<1>2. /\ scount' = [scount EXCEPT ![s] = scount[s] + 1]
      /\ IF scount[s] < 0 THEN squeue' = [squeue EXCEPT ![s] = Tail(squeue[s])]
                          ELSE squeue' = squeue
  BY DEF Release
<1>3. CASE s # ASem
  BY <1>2, <1>3, AbsStutters DEF IInv, Tables, Waiters
<1>4. CASE s = ASem
  <2>1. /\ scount'[ASem] = scount[ASem] + 1 /\ sstate'[ASem] = sstate[ASem]
        /\ squeue'[ASem] = IF scount[ASem] < 0 THEN Tail(squeue[ASem]) ELSE squeue[ASem]
    BY <1>2, <1>4 DEF IInv, Tables, Waiters
  <2>2. /\ sstate[ASem] \in {"FREE", "USED"} /\ scount[ASem] \in Int
        /\ AbsMode = IF sstate[ASem] = "USED" THEN "live" ELSE "none"
        /\ scount[ASem] < 0 <=> squeue[ASem] # <<>>
    <3>1. squeue[ASem] = <<>> => Len(squeue[ASem]) = 0 BY EmptySeq, CountNow
    <3>2. Len(squeue[ASem]) = 0 => squeue[ASem] = <<>> BY EmptySeq, CountNow
    <3> QED BY <3>1, <3>2, CountNow
  <2>3. CASE sstate[ASem] = "USED"
    <3>1. IF scount[ASem] < 0
          THEN AbsTokens = 0 /\ AbsTokens' = 0
          ELSE AbsTokens = scount[ASem] /\ AbsTokens' = scount[ASem] + 1
      BY <2>1, <2>2, <2>3 DEF AbsTokens
    <3>2. Contract!Give BY <1>1, <2>1, <2>2, <2>3, <3>1 DEF Contract!Give
    <3> QED BY <3>2 DEF Contract!AbsNext
  <2>4. CASE sstate[ASem] = "FREE"
    <3>1. AbsTokens = 0 /\ AbsTokens' = 0 /\ AbsMode = "none" BY <2>1, <2>2, <2>4 DEF AbsTokens
    <3>2. CASE scount[ASem] < 0
      <4>1. Contract!LetGo BY <1>1, <2>1, <2>2, <3>1, <3>2 DEF Contract!LetGo
      <4> QED BY <4>1 DEF Contract!AbsNext
    <3>3. CASE scount[ASem] >= 0
      BY <1>1, <2>1, <2>2, <3>1, <3>3 DEF Contract!absVars
    <3> QED BY <2>2, <3>2, <3>3
  <2> QED BY <2>2, <2>3, <2>4
<1> QED BY <1>3, <1>4

LEMMA SemAbstract ==
    ASSUME IInv, IInv', SemCall
    PROVE  [Contract!AbsNext]_(Contract!absVars)
<1> USE CallFacts, ContractAssumption
<1>1. ASSUME NEW s \in Sem, NEW count \in Counts, Semcreate(s, count)
      PROVE  [Contract!AbsNext]_(Contract!absVars)
  <2>1. /\ frame' = frame /\ squeue' = squeue /\ sstate[s] = "FREE"
        /\ sstate' = [sstate EXCEPT ![s] = "USED"]
        /\ scount' = [scount EXCEPT ![s] = count]
        /\ frame[currpid].at = "user"
    BY <1>1 DEF Semcreate
  <2>2. ResetsStay BY <2>1 DEF ResetsStay
  <2>3. CASE s # ASem
    BY <2>1, <2>2, <2>3, AbsStutters DEF IInv, Tables
  <2>4. CASE s = ASem
    <3>1. /\ sstate'[ASem] = "USED" /\ scount'[ASem] = count /\ sstate[ASem] = "FREE"
          /\ count \in Nat
      BY <2>1, <2>4, SemAssumption DEF IInv, Tables
    <3>2. ~Deleting(ASem) BY <2>1 DEF Deleting
    <3>3. AbsMode = "none" /\ squeue[ASem] = <<>> BY <2>1, <3>1, <3>2, CountNow
    <3>4. ~ResetIn(frame') BY <2>1 DEF ResetIn, IInv, Contexts, Frames, Busy
    <3>5. AbsMode' = "live" BY <3>1, <3>4, ModeNext DEF ModeOf
    <3>6. AbsTokens' \in Nat BY <3>1 DEF AbsTokens
    <3>7. Contract!Make BY <2>1, <3>3, <3>5, <3>6 DEF Contract!Make
    <3> QED BY <3>7 DEF Contract!AbsNext
  <2> QED BY <2>3, <2>4
<1>2. ASSUME NEW s \in Sem, WaitPass(s)
      PROVE  [Contract!AbsNext]_(Contract!absVars)
  <2>1. /\ frame' = frame /\ squeue' = squeue /\ sstate[s] = "USED" /\ sstate' = sstate
        /\ scount[s] > 0 /\ scount' = [scount EXCEPT ![s] = scount[s] - 1]
        /\ frame[currpid].at = "user"
    BY <1>2 DEF WaitPass
  <2>2. ResetsStay BY <2>1 DEF ResetsStay
  <2>3. CASE s # ASem
    BY <2>1, <2>2, <2>3, AbsStutters DEF IInv, Tables
  <2>4. CASE s = ASem
    <3>1. AbsMode' = AbsMode /\ AbsMode = "live" /\ scount[ASem] \in Int
      BY <2>1, <2>2, <2>4, ModeStays, CountNow
    <3>2. AbsTokens = scount[ASem] /\ AbsTokens' = scount[ASem] - 1 /\ scount[ASem] > 0
      BY <2>1, <2>4, <3>1 DEF AbsTokens, IInv, Tables
    <3>3. Contract!Take BY <2>1, <3>1, <3>2 DEF Contract!Take
    <3> QED BY <3>3 DEF Contract!AbsNext
  <2> QED BY <2>3, <2>4
<1>3. ASSUME NEW s \in Sem, WaitBlock(s)
      PROVE  [Contract!AbsNext]_(Contract!absVars)
  <2>1. /\ frame' = frame /\ sstate[s] = "USED" /\ sstate' = sstate
        /\ squeue' = [squeue EXCEPT ![s] = Append(squeue[s], currpid)]
        /\ scount[s] <= 0 /\ scount' = [scount EXCEPT ![s] = scount[s] - 1]
        /\ frame[currpid].at = "user"
    BY <1>3 DEF WaitBlock
  <2>2. ResetsStay BY <2>1 DEF ResetsStay
  <2>3. CASE s # ASem
    BY <2>1, <2>2, <2>3, AbsStutters DEF IInv, Tables, Waiters
  <2>4. CASE s = ASem
    <3>1. /\ AbsMode' = AbsMode /\ AbsMode = "live" /\ scount[ASem] \in Int
          /\ squeue[ASem] \in Seq(Pid)
      BY <2>1, <2>2, <2>4, ModeStays, CountNow
    <3>2. /\ scount'[ASem] = scount[ASem] - 1 /\ squeue'[ASem] = Append(squeue[ASem], currpid)
          /\ scount[ASem] <= 0
      BY <2>1, <2>4 DEF IInv, Tables, Waiters
    <3>3. AbsTokens = 0 /\ AbsTokens' = 0 BY <3>1, <3>2 DEF AbsTokens
    <3> DEFINE q == squeue[ASem]
    <3>4. q \in Seq(Pid) BY <3>1
    <3> HIDE DEF q
    <3>5. /\ Len(Append(q, currpid)) = Len(q) + 1 /\ Len(q) \in Nat
          /\ SubSeq(q, 1, Len(q)) = SubSeq(Append(q, currpid), 1, Len(q))
      <4>1. /\ Append(q, currpid) \in Seq(Pid) /\ Len(q) \in Nat
            /\ Len(Append(q, currpid)) = Len(q) + 1
            /\ \A i \in 1 .. Len(q) : Append(q, currpid)[i] = q[i]
        BY <3>4, AppendProperties, LenProperties
      <4> QED BY <3>4, <4>1
    <3>6. Len(squeue'[ASem]) = Len(q) + 1 /\ Contract!IsPrefix(q, squeue'[ASem])
      BY <3>2, <3>5 DEF q, Contract!IsPrefix
    <3>7. Contract!Enqueue BY <2>1, <3>1, <3>3, <3>6 DEF q, Contract!Enqueue
    <3> QED BY <3>7 DEF Contract!AbsNext
  <2> QED BY <2>3, <2>4
<1>4. ASSUME NEW s \in Sem, Signal(s)
      PROVE  [Contract!AbsNext]_(Contract!absVars)
  <2>1. Release(s, RESCHED_YES) /\ sstate' = sstate /\ frame' = frame /\ frame[currpid].at = "user"
    BY <1>4 DEF Signal
  <2> QED BY <2>1, ReleaseAbstract DEF ResetsStay, RESCHED_YES
<1>5. CASE \/ SignalnDone
           \/ \E s \in Sem, count \in Counts : Signaln(s, count)
           \/ \E s \in Sem, count \in Counts : DeviceInterrupt(s, count)
           \/ IntrDone
  <2>1. /\ frame[currpid].at # "semreset"
        /\ \E g \in FrameType : g.at # "semreset" /\ frame' = [frame EXCEPT ![currpid] = g]
    BY <1>5, SemAssumption
       DEF SignalnDone, Signaln, DeviceInterrupt, IntrDone, At, Return, Frame, FrameType, Points, Sem
  <2>2. UNCHANGED semVars
    BY <1>5 DEF SignalnDone, Signaln, DeviceInterrupt, IntrDone
  <2> QED BY <2>1, <2>2, OwnFrameStays, AbsStutters DEF semVars
<1>6. CASE SignalnLoop
  <2> DEFINE s == frame[currpid].arg
  <2>1. /\ Release(s, RESCHED_NO) /\ sstate' = sstate /\ frame[currpid].at = "signaln"
        /\ frame' = [frame EXCEPT ![currpid] = Frame("signaln", s, frame[currpid].num - 1)]
    BY <1>6 DEF SignalnLoop, At
  <2>2. s \in Sem /\ ResetsStay BY <2>1 DEF IInv, Contexts, Frames, OnSem, ResetsStay, Frame
  <2> QED BY <2>1, <2>2, ReleaseAbstract DEF RESCHED_NO
<1>7. CASE SemdeleteLoop
  <2> DEFINE s == frame[currpid].arg
  <2>1. /\ Release(s, RESCHED_NO) /\ sstate' = sstate /\ frame[currpid].at = "semdelete"
        /\ frame' = frame
    BY <1>7 DEF SemdeleteLoop, At
  <2>2. s \in Sem /\ ResetsStay BY <2>1 DEF IInv, Contexts, Frames, OnSem, ResetsStay
  <2> QED BY <2>1, <2>2, ReleaseAbstract DEF RESCHED_NO
<1>8. CASE IntrSignal
  <2> DEFINE s == frame[currpid].arg
  <2>1. /\ sstate' = sstate /\ frame[currpid].at = "intr"
        /\ frame' = [frame EXCEPT ![currpid] = Frame("intr", s, frame[currpid].num - 1)]
        /\ Release(s, RESCHED_YES) \/ UNCHANGED <<scount, squeue>>
    BY <1>8 DEF IntrSignal, At
  <2>2. s \in Sem /\ ResetsStay BY <2>1 DEF IInv, Contexts, Frames, OnSem, ResetsStay, Frame
  <2>3. CASE Release(s, RESCHED_YES)
    BY <2>1, <2>2, <2>3, ReleaseAbstract DEF RESCHED_YES
  <2>4. CASE UNCHANGED <<scount, squeue>> BY <2>1, <2>2, <2>4, AbsStutters
  <2> QED BY <2>1, <2>3, <2>4
<1>9. ASSUME NEW s \in Sem, Semdelete(s)
      PROVE  [Contract!AbsNext]_(Contract!absVars)
  <2>1. /\ sstate[s] = "USED" /\ sstate' = [sstate EXCEPT ![s] = "FREE"]
        /\ frame' = [frame EXCEPT ![currpid] = Frame("semdelete", s, 0)]
        /\ UNCHANGED <<scount, squeue>> /\ frame[currpid].at = "user"
    BY <1>9 DEF Semdelete
  <2>2. ResetsStay BY <2>1 DEF ResetsStay, Frame
  <2>3. CASE s # ASem BY <2>1, <2>2, <2>3, AbsStutters DEF IInv, Tables
  <2>4. CASE s = ASem
    <3>1. sstate'[ASem] = "FREE" /\ sstate[ASem] = "USED" BY <2>1, <2>4 DEF IInv, Tables
    <3>2. AbsMode = "live" BY <2>1, <3>1, CountNow
    <3>3. AbsMode' = "none" BY <3>1, ModeNext DEF ModeOf
    <3>4. AbsTokens' = 0 BY <3>1 DEF AbsTokens
    <3>5. Contract!Delete BY <2>1, <3>2, <3>3, <3>4 DEF Contract!Delete
    <3> QED BY <3>5 DEF Contract!AbsNext
  <2> QED BY <2>3, <2>4
<1>10. CASE SemdeleteDone
  <2> DEFINE s == frame[currpid].arg
  <2>1. /\ scount[s] >= 0 /\ scount' = [scount EXCEPT ![s] = scount[s] + 1]
        /\ UNCHANGED <<sstate, squeue>> /\ frame[currpid].at = "semdelete"
        /\ frame' = [frame EXCEPT ![currpid] = User]
    BY <1>10 DEF SemdeleteDone, Return, At
  <2>2. ResetsStay /\ s \in Sem BY <2>1 DEF ResetsStay, IInv, Contexts, Frames, OnSem
  <2>3. CASE s # ASem BY <2>1, <2>2, <2>3, AbsStutters DEF IInv, Tables
  <2>4. CASE s = ASem
    <3>1. /\ AbsMode' = AbsMode /\ scount[ASem] >= 0 /\ scount[ASem] \in Int
          /\ scount'[ASem] = scount[ASem] + 1 /\ sstate[ASem] \in {"FREE", "USED"}
      BY <2>1, <2>2, <2>4, ModeStays DEF IInv, Tables
    <3>2. CASE sstate[ASem] = "FREE"
      BY <2>1, <3>1, <3>2 DEF AbsTokens, Contract!absVars
    \* The entry is free here; a step from a used one would be a legal one.
    <3>3. CASE sstate[ASem] = "USED"
      <4>1. /\ AbsMode = "live" /\ Len(squeue[ASem]) = 0 /\ squeue[ASem] \in Seq(Pid)
        BY <2>1, <3>1, <3>3, CountNow
      <4>2. squeue[ASem] = <<>> BY <4>1, EmptySeq
      <4>3. AbsTokens = scount[ASem] /\ AbsTokens' = scount[ASem] + 1
        BY <2>1, <3>1, <3>3 DEF AbsTokens
      <4>4. Contract!Give BY <2>1, <3>1, <4>1, <4>2, <4>3 DEF Contract!Give
      <4> QED BY <4>4 DEF Contract!AbsNext
    <3> QED BY <3>1, <3>2, <3>3
  <2> QED BY <2>3, <2>4
<1>11. ASSUME NEW s \in Sem, NEW count \in Counts, Semreset(s, count)
      PROVE  [Contract!AbsNext]_(Contract!absVars)
  <2>1. /\ sstate[s] = "USED" /\ UNCHANGED <<sstate, scount, squeue>>
        /\ frame' = [frame EXCEPT ![currpid] = Frame("semreset", s, count)]
        /\ frame[currpid].at = "user"
    BY <1>11 DEF Semreset, semVars
  <2>2. \A p \in Pid : frame[p].at # "semreset"
    BY <2>1 DEF IInv, Contexts, Frames, Busy
  <2>3. AbsMode = IF sstate[ASem] = "USED" THEN "live" ELSE "none"
    BY <2>2, ModeNow DEF ModeOf, ResetIn
  <2>4. AbsTokens' = AbsTokens BY <2>1 DEF AbsTokens
  <2>5. CASE s # ASem
    <3>1. ~ResetIn(frame') BY <2>1, <2>2, <2>5 DEF ResetIn, Frame
    <3>2. AbsMode' = AbsMode BY <2>1, <2>3, <3>1, ModeNext DEF ModeOf
    <3> QED BY <2>1, <2>4, <3>2 DEF Contract!absVars
  <2>6. CASE s = ASem
    <3>1. frame'[currpid].at = "semreset" /\ frame'[currpid].arg = ASem
      BY <2>1, <2>6 DEF Frame
    <3>2. ResetIn(frame') BY <3>1 DEF ResetIn
    <3>3. AbsMode' = "reset" /\ AbsMode = "live"
      BY <2>1, <2>3, <2>6, <3>2, ModeNext DEF ModeOf
    <3>4. Contract!StartReset BY <2>1, <2>4, <3>3 DEF Contract!StartReset
    <3> QED BY <3>4 DEF Contract!AbsNext
  <2> QED BY <2>5, <2>6
<1>12. CASE SemresetLoop
  <2> DEFINE s == frame[currpid].arg
  <2>1. /\ squeue[s] # <<>> /\ squeue' = [squeue EXCEPT ![s] = Tail(squeue[s])]
        /\ UNCHANGED <<sstate, scount>> /\ frame' = frame /\ frame[currpid].at = "semreset"
    BY <1>12 DEF SemresetLoop, At
  <2>2. ResetsStay /\ s \in Sem BY <2>1 DEF ResetsStay, IInv, Contexts, Frames, OnSem
  <2>3. CASE s # ASem BY <2>1, <2>2, <2>3, AbsStutters DEF IInv, Waiters
  <2>4. CASE s = ASem
    <3>1. ResetIn(frame) BY <2>1, <2>4 DEF ResetIn
    <3>2. AbsMode # "live" /\ AbsMode' = AbsMode
      BY <2>1, <2>2, <3>1, ModeNow, ModeStays DEF ModeOf
    <3>3. squeue[ASem] # <<>> /\ squeue'[ASem] = Tail(squeue[ASem])
      BY <2>1, <2>4 DEF IInv, Waiters
    <3>4. AbsTokens' = AbsTokens BY <2>1 DEF AbsTokens
    <3>5. Contract!LetGo BY <3>2, <3>3, <3>4 DEF Contract!LetGo
    <3> QED BY <3>5 DEF Contract!AbsNext
  <2> QED BY <2>3, <2>4
<1>13. CASE SemresetDone
  <2> DEFINE s == frame[currpid].arg
  <2>1. /\ squeue[s] = <<>> /\ scount' = [scount EXCEPT ![s] = frame[currpid].num]
        /\ UNCHANGED <<sstate, squeue>> /\ frame[currpid].at = "semreset"
        /\ frame' = [frame EXCEPT ![currpid] = User]
    BY <1>13 DEF SemresetDone, Return, At
  <2>2. \A p \in Pid : frame'[p].at # "semreset"
    BY <2>1 DEF IInv, Contexts, Frames, Busy
  <2>3. AbsMode' = IF sstate[ASem] = "USED" THEN "live" ELSE "none"
    BY <2>1, <2>2, ModeNext DEF ModeOf, ResetIn
  <2>4. s \in Sem BY <2>1 DEF IInv, Contexts, Frames, OnSem
  <2>5. CASE s # ASem
    <3>1. ~ResetIn(frame) BY <2>1, <2>5 DEF ResetIn, IInv, Contexts, Frames, Busy
    <3>2. AbsMode' = AbsMode BY <2>3, <3>1, ModeNow DEF ModeOf
    <3>3. AbsTokens' = AbsTokens BY <2>1, <2>4, <2>5 DEF AbsTokens, IInv, Tables
    <3> QED BY <2>1, <3>2, <3>3 DEF Contract!absVars
  <2>6. CASE s = ASem
    <3>1. ResetIn(frame) BY <2>1, <2>6 DEF ResetIn
    <3>2. frame[currpid].num \in Nat /\ scount'[ASem] = frame[currpid].num
      BY <2>1, <2>4, <2>6 DEF IInv, Contexts, Frames, Tables
    <3>3. CASE sstate[ASem] = "USED"
      <4>1. AbsMode = "reset" /\ AbsMode' = "live" BY <2>3, <3>1, <3>3, ModeNow DEF ModeOf
      <4>2. AbsTokens' \in Nat BY <3>2 DEF AbsTokens
      <4>3. Contract!EndReset BY <2>1, <2>6, <4>1, <4>2 DEF Contract!EndReset
      <4> QED BY <4>3 DEF Contract!AbsNext
    <3>4. CASE sstate[ASem] # "USED"
      BY <2>1, <2>3, <3>4, ModeNow DEF ModeOf, AbsTokens, Contract!absVars
    <3> QED BY <3>3, <3>4
  <2> QED BY <2>5, <2>6
<1> QED
  BY <1>1, <1>2, <1>3, <1>4, <1>5, <1>6, <1>7, <1>8, <1>9, <1>10, <1>11, <1>12, <1>13 DEF SemCall

LEMMA AbsInitial == Init => Contract!AbsInit
BY ContractAssumption DEF Init, SemInit, Contract!AbsInit, AbsMode, AbsTokens

LEMMA AbsSimulates == IInv /\ IInv' /\ [Next]_vars => [Contract!AbsNext]_(Contract!absVars)
<1> SUFFICES ASSUME IInv, IInv', [Next]_vars PROVE [Contract!AbsNext]_(Contract!absVars)
  OBVIOUS
<1>1. CASE UNCHANGED vars
  BY <1>1, AbsStutters DEF vars, semVars, ResetsStay
<1>2. CASE Next
  <2>1. CASE SemCall BY <2>1, SemAbstract
  <2>2. CASE KillOther BY <2>2, KillAbstract
  <2>3. CASE ~SemCall /\ ~KillOther
    <3>1. UNCHANGED semVars
      BY <1>2, <2>3 DEF Next, CreateProcess, Kill, KillSelf, Halt, vars
    <3>2. \/ SchedCall \/ ClockStep \/ MsgCall
          \/ \E p \in Pid, prio \in Prios, stack \in BOOLEAN : CreateProcess(p, prio, stack)
          \/ \E p \in Pid : Kill(p)
          \/ KillSelf \/ Halt
      BY <1>2, <2>3 DEF Next
    <3> QED BY <3>1, <3>2, OthersStutter
  <2> QED BY <2>1, <2>2, <2>3
<1> QED BY <1>1, <1>2

(* Seen through AbsMode, AbsTokens and the queue, the kernel is a counting *)
(* semaphore that serves its waiters first come, first served, however     *)
(* many processes and semaphores there are.                                *)
THEOREM KernelKeepsContract == Spec => SemaphoreContract
<1> QED BY KernelInvariant, AbsInitial, AbsSimulates, PTL
        DEF Spec, SemaphoreContract, Contract!AbsSpec

----------------------------------------------------------------------------
(***************************************************************************)
(* Priorities.  As long as chprio() is not called, the ready list is in    *)
(* descending order of the processes' priorities, and a process of higher  *)
(* priority than the current one is ready only while a resched() is due.   *)
(***************************************************************************)
Ranked(st, rl, keys, prio) ==
    /\ Sorted(rl, prio)
    /\ \A p \in Pid : st[p] = "READY" => keys[p] = prio[p]

Top(st, cur, prio) == \A p \in Pid : st[p] = "READY" => prio[p] <= prio[cur]

(* The call or the interrupt that is under way ends in a resched(). *)
Pending ==
    \/ frame[currpid].at \in {"wakeup", "signaln", "semdelete", "semreset"}
    \/ frame[currpid].at = "intr" /\ defer.attempt

RankInv ==
    /\ Ranked(prstate, readylist, qkey, prprio)
    /\ Pending \/ Top(prstate, currpid, prprio)

LEMMA SwitchRanks ==
    ASSUME IInv, prprio' = prprio, NEW st, NEW rl, NEW keys, NEW slice,
           CanMove(st, rl, keys, slice), Ranked(st, rl, keys, prprio),
           Switch(st, rl, keys, slice)
    PROVE  Ranked(prstate', readylist', qkey', prprio') /\ Top(prstate', currpid', prprio')
<1> USE CallFacts
<1>1. prprio \in [Pid -> Int] BY DEF IInv, Tables
<1>2. /\ rl \in Seq(Pid) /\ Len(rl) \in Nat
      /\ \A i \in 1 .. Len(rl) : rl[i] \in Pid /\ st[rl[i]] = "READY" /\ keys[rl[i]] = prprio[rl[i]]
      /\ \A p \in Pid : st[p] = "READY" => \E i \in 1 .. Len(rl) : rl[i] = p
  <2>1. Lists(rl, ReadySet(st)) BY DEF CanMove
  <2>2. rl \in Seq(Pid) BY <2>1, ListsArePids DEF ReadySet
  <2>3. /\ rl \in Seq(ReadySet(st)) /\ Len(rl) \in Nat /\ DOMAIN rl = 1 .. Len(rl)
        /\ \A i \in 1 .. Len(rl) : rl[i] \in ReadySet(st)
    BY <2>1, LenProperties DEF Lists
  <2> QED BY <2>1, <2>2, <2>3 DEF Ranked, ReadySet, Lists
<1>3. CASE KeepsProcessor(st, rl, keys)
  <2>1. prstate' = st /\ readylist' = rl /\ qkey' = keys /\ currpid' = currpid
    BY <1>3 DEF Switch
  <2>2. ASSUME NEW p \in Pid, st[p] = "READY" PROVE prprio[p] <= prprio[currpid]
    <3>1. PICK i \in 1 .. Len(rl) : rl[i] = p BY <1>2, <2>2
    <3>2. 1 \in 1 .. Len(rl) /\ rl # <<>> /\ Head(rl) = rl[1]
      BY <1>2, <3>1, EmptySeq, HeadTailProperties
    <3>3. prprio[currpid] > prprio[rl[1]] BY <1>2, <1>3, <3>2 DEF KeepsProcessor
    <3>4. prprio[rl[1]] >= prprio[p] BY <1>1, <1>2, <3>1, <3>2 DEF Ranked, Sorted
    <3> QED BY <1>1, <1>2, <3>2, <3>3, <3>4
  <2> QED BY <2>1, <2>2 DEF Ranked, Top
<1>4. CASE ~KeepsProcessor(st, rl, keys)
  <2> DEFINE old   == currpid
             stays == st[old] = "CURR"
             queue == Requeued(st, rl, keys)
             new   == Head(queue)
  <2>1. /\ currpid' = new
        /\ readylist' = Tail(queue)
        /\ prstate' = [p \in Pid |-> IF p = new THEN "CURR"
                                     ELSE IF p = old /\ stays THEN "READY" ELSE st[p]]
        /\ qkey' = IF stays THEN [keys EXCEPT ![old] = prprio[old]] ELSE keys
    BY <1>4 DEF Switch
  <2>2. Moved(st) BY SwitchMoves
  <2>3. queue \in Seq(Pid) /\ Sorted(queue, prprio)
    <3>1. CASE stays
      <4>1. queue = Insert(rl, keys, old, prprio[old]) BY <3>1 DEF Requeued
      <4>2. Sorted(Insert(rl, keys, old, prprio[old]), prprio)
        BY <1>1, <1>2, InsertSorted DEF Ranked
      <4>3. old \notin ReadySet(st) /\ Lists(rl, ReadySet(st)) BY <3>1 DEF ReadySet, CanMove
      <4>4. Lists(Insert(rl, keys, old, prprio[old]), ReadySet(st) \cup {old})
        BY <4>3, InsertLists
      <4>5. ReadySet(st) \cup {old} \in SUBSET Pid BY DEF ReadySet
      <4>6. Insert(rl, keys, old, prprio[old]) \in Seq(Pid)
        BY <4>4, <4>5, ListsArePids
      <4> QED BY <4>1, <4>2, <4>6
    <3>2. CASE ~stays BY <1>2, <3>2 DEF Requeued, Ranked
    <3> QED BY <3>1, <3>2
  <2>4. queue # <<>>
    <3>1. CASE stays
      <4>1. old \notin ReadySet(st) /\ Lists(rl, ReadySet(st)) BY <3>1 DEF ReadySet, CanMove
      <4>2. Lists(Insert(rl, keys, old, prprio[old]), ReadySet(st) \cup {old})
        BY <4>1, InsertLists
      <4>3. queue = Insert(rl, keys, old, prprio[old]) BY <3>1 DEF Requeued
      <4> HIDE DEF queue, old
      <4>4. Lists(queue, ReadySet(st) \cup {old}) BY <4>2, <4>3
      <4> QED BY <4>4, EmptyLists
    <3>2. CASE ~stays
      <4>1. st[NULLPROC] = "READY" /\ NULLPROC \in Pid
        BY <3>2, NullInPid DEF CanMove
      <4>2. rl # <<>> BY <1>2, <4>1, EmptySeq
      <4> QED BY <3>2, <4>2 DEF Requeued
    <3> QED BY <3>1, <3>2
  <2> HIDE DEF queue
  <2>5. /\ Sorted(Tail(queue), prprio)
        /\ \A i \in 1 .. Len(Tail(queue)) : prprio[new] >= prprio[Tail(queue)[i]]
    BY <2>3, <2>4, TailSorted
  <2>6. new \in Pid BY <2>3, <2>4, HeadTailProperties
  <2> HIDE DEF new
  <2>7. ASSUME NEW p \in Pid, prstate'[p] = "READY"
        PROVE  prprio[p] <= prprio[new] /\ qkey'[p] = prprio[p]
    <3>1. Lists(readylist', ReadySet(prstate')) /\ p \in ReadySet(prstate')
      BY <2>2, <2>7 DEF Moved, Scheduled, Sched, ReadySet
    <3>2. PICK i \in DOMAIN readylist' : readylist'[i] = p BY <3>1 DEF Lists
    <3>3. i \in 1 .. Len(readylist') BY <3>1, <3>2, LenProperties DEF Lists
    <3>4. prprio[new] >= prprio[p] BY <2>1, <2>5, <3>2, <3>3
    <3>5. qkey'[p] = prprio[p]
      <4>1. CASE p = old /\ stays BY <2>1, <4>1 DEF CanMove
      <4>2. CASE ~(p = old /\ stays)
        <5>1. st[p] = "READY" BY <2>1, <2>7, <4>2
        <5> QED BY <2>1, <4>2, <5>1 DEF Ranked
      <4> QED BY <4>1, <4>2
    <3> QED BY <1>1, <2>6, <3>4, <3>5
  <2> QED BY <2>1, <2>5, <2>7 DEF Ranked, Top
<1> QED BY <1>3, <1>4

LEMMA ReschedRanks ==
    ASSUME IInv, prprio' = prprio, NEW st, NEW rl, NEW keys, NEW slice,
           CanMove(st, rl, keys, slice), Ranked(st, rl, keys, prprio),
           Resched(st, rl, keys, slice)
    PROVE  /\ Ranked(prstate', readylist', qkey', prprio')
           /\ \/ frame[currpid].at = "intr" /\ currpid' = currpid /\ defer'.attempt
              \/ Top(prstate', currpid', prprio')
<1>1. CASE frame[currpid].at = "intr"
  <2>1. Deferred(st, rl, keys, slice) BY <1>1, CallFacts DEF Resched
  <2> QED BY <1>1, <2>1, CallFacts DEF Deferred
<1>2. CASE frame[currpid].at # "intr"
  <2>1. Switch(st, rl, keys, slice) BY <1>2, CallFacts DEF Resched
  <2> QED BY <2>1, SwitchRanks
<1> QED BY <1>1, <1>2

(* ready(p): the list stays in order. *)
LEMMA ReadyRanked ==
    ASSUME IInv, NEW p \in Pid, prstate[p] \notin {"CURR", "READY"},
           NEW keys, DOMAIN keys = Pid, Ranked(prstate, readylist, keys, prprio)
    PROVE  Ranked(ReadyState(p), ReadyList(p, keys), ReadyKeys(p, keys), prprio)
<1> USE CallFacts
<1>1. prprio \in [Pid -> Int] BY DEF IInv, Tables
<1>2. /\ readylist \in Seq(Pid)
      /\ \A i \in 1 .. Len(readylist) : keys[readylist[i]] = prprio[readylist[i]]
  <2>1. Lists(readylist, ReadySet(prstate)) BY DEF IInv, Scheduled, Sched
  <2>2. readylist \in Seq(Pid) BY <2>1, ListsArePids DEF ReadySet
  <2>3. \A i \in 1 .. Len(readylist) : readylist[i] \in ReadySet(prstate)
    BY <2>1, LenProperties DEF Lists
  <2> QED BY <2>2, <2>3 DEF Ranked, ReadySet
<1>3. Sorted(ReadyList(p, keys), prprio)
  BY <1>1, <1>2, InsertSorted DEF Ranked, ReadyList
<1>4. \A q \in Pid : ReadyState(p)[q] = "READY" => ReadyKeys(p, keys)[q] = prprio[q]
  BY DEF Ranked, ReadyState, ReadyKeys
<1> QED BY <1>3, <1>4 DEF Ranked

LEMMA ReadyReschedRanks ==
    ASSUME IInv, prprio' = prprio, NEW p \in Pid, prstate[p] \notin {"CURR", "READY"},
           NEW keys, DOMAIN keys = Pid, Ranked(prstate, readylist, keys, prprio),
           ReadyResched(p, keys)
    PROVE  /\ Ranked(prstate', readylist', qkey', prprio')
           /\ \/ frame[currpid].at = "intr" /\ currpid' = currpid /\ defer'.attempt
              \/ Top(prstate', currpid', prprio')
<1>1. CanMove(ReadyState(p), ReadyList(p, keys), ReadyKeys(p, keys), preempt)
  BY ReadyCanMove DEF IInv
<1>2. Ranked(ReadyState(p), ReadyList(p, keys), ReadyKeys(p, keys), prprio)
  BY ReadyRanked
<1> QED BY <1>1, <1>2, ReschedRanks DEF ReadyResched

LEMMA ReadyOnlyRanks ==
    ASSUME IInv, prprio' = prprio, NEW p \in Pid, prstate[p] \notin {"CURR", "READY"},
           NEW keys, DOMAIN keys = Pid, Ranked(prstate, readylist, keys, prprio),
           ReadyOnly(p, keys)
    PROVE  Ranked(prstate', readylist', qkey', prprio') /\ currpid' = currpid
<1>1. Ranked(ReadyState(p), ReadyList(p, keys), ReadyKeys(p, keys), prprio)
  BY ReadyRanked
<1> QED BY <1>1 DEF ReadyOnly

(* The current process blocks or ends. *)
LEMMA BlockRanks ==
    ASSUME IInv, prprio' = prprio, NEW s \in PrStates \ {"CURR", "READY"},
           currpid # NULLPROC, frame[currpid].at # "intr",
           NEW keys, DOMAIN keys = Pid, Ranked(prstate, readylist, keys, prprio),
           Block(s, keys)
    PROVE  Ranked(prstate', readylist', qkey', prprio') /\ Top(prstate', currpid', prprio')
<1> DEFINE st == [prstate EXCEPT ![currpid] = s]
<1>1. st \in [Pid -> PrStates] /\ \A q \in Pid : st[q] = IF q = currpid THEN s ELSE prstate[q]
  BY CallFacts
<1>2. ReadySet(st) = ReadySet(prstate) BY <1>1, CallFacts DEF ReadySet
<1>3. CanMove(st, readylist, keys, preempt)
  BY <1>1, <1>2, CallFacts, NullInPid DEF CanMove, IInv, Scheduled, Sched
<1>4. Ranked(st, readylist, keys, prprio) BY <1>1 DEF Ranked
<1> HIDE DEF st
<1>5. Resched(st, readylist, keys, preempt) BY DEF Block, st
<1> QED BY <1>3, <1>4, <1>5, ReschedRanks

(* The resched() at the end of a call. *)
LEMMA StayRanks ==
    ASSUME IInv, prprio' = prprio, NEW slice \in 1 .. QUANTUM,
           Ranked(prstate, readylist, qkey, prprio),
           Resched(prstate, readylist, qkey, slice)
    PROVE  /\ Ranked(prstate', readylist', qkey', prprio')
           /\ \/ frame[currpid].at = "intr" /\ currpid' = currpid /\ defer'.attempt
              \/ Top(prstate', currpid', prprio')
<1>1. CanMove(prstate, readylist, qkey, slice)
  BY DEF CanMove, IInv, Scheduled, Sched
<1> QED BY <1>1, ReschedRanks

(* insertd() touches no key of the ready list, and neither does unsleep(). *)
LEMMA InsertdKeysRanked ==
    ASSUME IInv, Ranked(prstate, readylist, qkey, prprio), NEW delay
    PROVE  LET keys == InsertdKeys(sleepq, qkey, currpid, delay)
           IN  DOMAIN keys = Pid /\ Ranked(prstate, readylist, keys, prprio)
<1> DEFINE pos == InsertdPos(sleepq, qkey, delay)
           keys == InsertdKeys(sleepq, qkey, currpid, delay)
<1> USE CallFacts
<1>1. /\ sleepq \in Seq(SleepSet(prstate)) /\ Len(sleepq) \in Nat
      /\ \A i \in 1 .. Len(sleepq) : sleepq[i] \in SleepSet(prstate)
  BY LenProperties DEF IInv, Sleepers, Lists
<1>2. pos \in 1 .. Len(sleepq) + 1 BY <1>1, InsertdPosIn
<1>3. \A p \in Pid : /\ p # currpid
                     /\ ~(pos <= Len(sleepq) /\ p = sleepq[pos])
                     => keys[p] = qkey[p]
  BY DEF InsertdKeys
<1> HIDE DEF pos, keys
<1>4. \A p \in Pid : prstate[p] = "READY" => keys[p] = qkey[p]
  BY <1>1, <1>2, <1>3 DEF SleepSet
<1>5. DOMAIN keys = Pid BY DEF keys, InsertdKeys
<1> QED BY <1>4, <1>5 DEF Ranked, keys

LEMMA UnsleepKeysRanked ==
    ASSUME IInv, Ranked(prstate, readylist, qkey, prprio), NEW p \in SleepSet(prstate)
    PROVE  LET keys == UnsleepKeys(sleepq, qkey, p)
           IN  DOMAIN keys = Pid /\ Ranked(prstate, readylist, keys, prprio)
<1> DEFINE i == CHOOSE j \in DOMAIN sleepq : sleepq[j] = p
           keys == UnsleepKeys(sleepq, qkey, p)
<1> USE CallFacts
<1>1. /\ sleepq \in Seq(SleepSet(prstate)) /\ Len(sleepq) \in Nat
      /\ DOMAIN sleepq = 1 .. Len(sleepq)
      /\ \A j \in 1 .. Len(sleepq) : sleepq[j] \in SleepSet(prstate)
      /\ \E j \in DOMAIN sleepq : sleepq[j] = p
  BY LenProperties DEF IInv, Sleepers, Lists
<1>2. i \in 1 .. Len(sleepq) BY <1>1
<1>3. keys = IF i < Len(sleepq) THEN [qkey EXCEPT ![sleepq[i + 1]] = qkey[sleepq[i + 1]] + qkey[p]] ELSE qkey
  BY DEF UnsleepKeys
<1> HIDE DEF i, keys
<1>4. DOMAIN keys = Pid BY <1>3
<1>5. \A q \in Pid : prstate[q] = "READY" => keys[q] = qkey[q]
  BY <1>1, <1>2, <1>3 DEF SleepSet
<1> QED BY <1>4, <1>5 DEF Ranked, keys

(* What is established for the tables, whatever the next frames are. *)
Reranked == Ranked(prstate', readylist', qkey', prprio')
Topped   == Top(prstate', currpid', prprio')

(* send() wakes the receiver up and reschedules, or changes no table. *)
LEMMA DeliverRanks ==
    ASSUME IInv, RankInv, prprio' = prprio, frame[currpid].at = "user",
           NEW p \in Pid, prstate[p] # "FREE", Deliver(p)
    PROVE  Reranked /\ Topped
<1> USE CallFacts
<1>0. Ranked(prstate, readylist, qkey, prprio) /\ Top(prstate, currpid, prprio)
  BY DEF RankInv, Pending
<1>1. CASE prstate[p] = "RECV"
  <2>1. ReadyResched(p, qkey) BY <1>1 DEF Deliver
  <2> QED BY <1>0, <1>1, <2>1, ReadyReschedRanks DEF Reranked, Topped
<1>2. CASE prstate[p] = "RECTIM"
  <2> DEFINE keys == UnsleepKeys(sleepq, qkey, p)
  <2>1. ReadyResched(p, keys) BY <1>2 DEF Deliver
  <2>2. DOMAIN keys = Pid /\ Ranked(prstate, readylist, keys, prprio)
    BY <1>0, <1>2, UnsleepKeysRanked DEF SleepSet
  <2> HIDE DEF keys
  <2> QED BY <1>2, <2>1, <2>2, ReadyReschedRanks DEF Reranked, Topped
<1>3. CASE prstate[p] \notin {"RECV", "RECTIM"}
  <2>1. UNCHANGED schedVars BY <1>3 DEF Deliver
  <2> QED BY <1>0, <2>1 DEF Reranked, Topped, schedVars, Ranked, Top
<1> QED BY <1>1, <1>2, <1>3

LEMMA SleepForRanks ==
    ASSUME IInv, RankInv, prprio' = prprio, frame[currpid].at = "user", currpid # NULLPROC,
           NEW delay, NEW s \in PrStates \ {"CURR", "READY"}, SleepFor(delay, s)
    PROVE  Reranked /\ Topped
<1> DEFINE keys == InsertdKeys(sleepq, qkey, currpid, Int32(delay))
<1>1. Ranked(prstate, readylist, qkey, prprio) BY DEF RankInv
<1>2. DOMAIN keys = Pid /\ Ranked(prstate, readylist, keys, prprio)
  BY <1>1, InsertdKeysRanked
<1>3. Block(s, keys) BY DEF SleepFor
<1> HIDE DEF keys
<1> QED BY <1>2, <1>3, BlockRanks DEF Reranked, Topped

(* Release(s, resch): at worst a resched() is owed afterwards. *)
LEMMA ReleaseRanks ==
    ASSUME IInv, RankInv, prprio' = prprio, frame[currpid].at # "semreset",
           NEW s \in Sem, NEW resch \in BOOLEAN, Release(s, resch)
    PROVE  /\ Reranked
           /\ \/ UNCHANGED schedVars
              \/ ~resch /\ currpid' = currpid
              \/ frame[currpid].at = "intr" /\ currpid' = currpid /\ defer'.attempt
              \/ resch /\ Topped
<1> USE CallFacts
<1>0. Ranked(prstate, readylist, qkey, prprio) BY DEF RankInv
<1>1. CASE scount[s] >= 0
  <2>1. UNCHANGED schedVars BY <1>1, NegativeWaits DEF Release
  <2> QED BY <1>0, <2>1 DEF schedVars, Reranked, Ranked
<1>2. CASE scount[s] < 0
  <2> DEFINE p == Head(squeue[s])
  <2>1. p \in Pid /\ prstate[p] = "WAIT" BY <1>2, NegativeWaits, HeadReleased
  <2>2. Ready(p, qkey, resch) BY <1>2 DEF Release
  <2> HIDE DEF p
  <2>3. CASE resch
    <3>1. ReadyResched(p, qkey) BY <2>2, <2>3 DEF Ready
    <3> QED BY <1>0, <2>1, <2>3, <3>1, ReadyReschedRanks DEF Reranked, Topped
  <2>4. CASE ~resch
    <3>1. ReadyOnly(p, qkey) BY <2>2, <2>4 DEF Ready
    <3> QED BY <1>0, <2>1, <2>4, <3>1, ReadyOnlyRanks DEF Reranked
  <2> QED BY <2>3, <2>4
<1> QED BY <1>1, <1>2, NegativeWaits

LEMMA SchedRanks ==
    ASSUME IInv, RankInv, "chprio" \notin Calls, SchedCall
    PROVE  Reranked /\ Topped
<1> USE CallFacts
<1>0. /\ prprio' = prprio /\ Ranked(prstate, readylist, qkey, prprio)
      /\ frame[currpid].at = "user" /\ Top(prstate, currpid, prprio)
  BY DEF SchedCall, Resume, SuspendReady, SuspendSelf, Chprio, Yield, tableVars, Calling,
         RankInv, Pending
<1>1. ASSUME NEW p \in Pid, Resume(p) PROVE Reranked /\ Topped
  <2>1. prstate[p] = "SUSP" /\ ReadyResched(p, qkey) BY <1>1 DEF Resume
  <2> QED BY <1>0, <2>1, ReadyReschedRanks DEF Reranked, Topped
<1>2. ASSUME NEW p \in Pid, SuspendReady(p) PROVE Reranked /\ Topped
  <2>1. /\ prstate[p] = "READY" /\ prstate' = [prstate EXCEPT ![p] = "SUSP"]
        /\ readylist' = Getitem(readylist, p) /\ UNCHANGED <<qkey, currpid>>
    BY <1>2 DEF SuspendReady
  <2>2. Lists(readylist, ReadySet(prstate)) /\ p \in ReadySet(prstate)
    BY <2>1 DEF IInv, Scheduled, Sched, ReadySet
  <2>3. ReadySet(prstate) \subseteq Pid /\ prprio \in [Pid -> Int] BY DEF ReadySet, IInv, Tables
  <2>4. Sorted(Getitem(readylist, p), prprio) BY <1>0, <2>2, <2>3, GetitemSorted DEF Ranked
  <2> QED BY <1>0, <2>1, <2>4 DEF Reranked, Topped, Ranked, Top
<1>3. CASE SuspendSelf
  <2> DEFINE s == "SUSP"
  <2>1. Block(s, qkey) /\ currpid # NULLPROC /\ s \in PrStates \ {"CURR", "READY"}
    BY <1>3 DEF SuspendSelf, PrStates
  <2> HIDE DEF s
  <2> QED BY <1>0, <2>1, BlockRanks DEF Reranked, Topped
<1>4. CASE Yield
  <2>1. Resched(prstate, readylist, qkey, preempt) BY <1>4 DEF Yield
  <2> QED BY <1>0, <2>1, StayRanks DEF Reranked, Topped
<1>5. ~ \E p \in Reniced, prio \in NewPrios : Chprio(p, prio)
  BY DEF Chprio, Calling
<1> QED BY <1>1, <1>2, <1>3, <1>4, <1>5 DEF SchedCall

LEMMA ClockRanks ==
    ASSUME IInv, RankInv, ClockStep
    PROVE  RankInv'
<1> USE CallFacts
<1>0. prprio' = prprio /\ Ranked(prstate, readylist, qkey, prprio)
  BY DEF ClockStep, Sleepms, Clkhandler, WakeupLoop, WakeupDone, ClkPreempt, tableVars, RankInv
<1>1. ASSUME NEW delay \in Delays, Sleepms(delay) PROVE RankInv'
  <2> DEFINE s == "SLEEP"
  <2>1. /\ SleepFor(delay, s) /\ currpid # NULLPROC /\ frame[currpid].at = "user"
        /\ s \in PrStates \ {"CURR", "READY"}
    BY <1>1 DEF Sleepms, PrStates
  <2> HIDE DEF s
  <2>2. Reranked /\ Topped BY <1>0, <2>1, SleepForRanks
  <2> QED BY <2>2 DEF RankInv, Reranked, Topped
<1>2. CASE Clkhandler
  <2>1. /\ frame[currpid].at = "user"
        /\ UNCHANGED <<prstate, readylist, currpid, defer>>
        /\ qkey' = IF sleepq = <<>> THEN qkey ELSE [qkey EXCEPT ![Head(sleepq)] = qkey[Head(sleepq)] - 1]
    BY <1>2 DEF Clkhandler
  <2>2. sleepq # <<>> => Head(sleepq) \in SleepSet(prstate)
    BY TailLists DEF IInv, Sleepers
  <2>3. \A p \in Pid : prstate[p] = "READY" => qkey'[p] = qkey[p]
    BY <2>1, <2>2 DEF SleepSet
  <2>4. Top(prstate, currpid, prprio) BY <2>1 DEF RankInv, Pending
  <2> QED BY <1>0, <2>1, <2>3, <2>4 DEF RankInv, Ranked, Top
<1>3. CASE WakeupLoop
  <2> DEFINE p == Head(sleepq)
  <2>1. sleepq # <<>> /\ ReadyOnly(p, qkey) /\ frame' = frame /\ frame[currpid].at = "wakeup"
    BY <1>3 DEF WakeupLoop, At
  <2>2. p \in SleepSet(prstate) BY <2>1, TailLists DEF IInv, Sleepers
  <2> HIDE DEF p
  <2>3. p \in Pid /\ prstate[p] \notin {"CURR", "READY"} BY <2>2 DEF SleepSet
  <2>4. Ranked(prstate', readylist', qkey', prprio') /\ currpid' = currpid
    BY <1>0, <2>1, <2>3, ReadyOnlyRanks
  <2> QED BY <2>1, <2>4 DEF RankInv, Pending
<1>4. CASE WakeupDone
  <2>1. Resched(prstate, readylist, qkey, preempt) /\ frame[currpid].at = "wakeup"
    BY <1>4 DEF WakeupDone, At
  <2>2. Reranked /\ Topped BY <1>0, <2>1, StayRanks DEF Reranked, Topped
  <2> QED BY <2>2 DEF RankInv, Reranked, Topped
<1>5. CASE ClkPreempt
  <2>1. frame[currpid].at = "clk" BY <1>5 DEF ClkPreempt, At
  <2>2. CASE Resched(prstate, readylist, qkey, QUANTUM)
    <3>1. QUANTUM \in 1 .. QUANTUM BY NullInPid
    <3>2. Reranked /\ Topped BY <1>0, <2>1, <2>2, <3>1, StayRanks DEF Reranked, Topped
    <3> QED BY <3>2 DEF RankInv, Reranked, Topped
  <2>3. CASE UNCHANGED <<prstate, qkey, readylist, currpid, defer>>
    <3>1. Top(prstate, currpid, prprio) BY <2>1 DEF RankInv, Pending
    <3> QED BY <1>0, <2>3, <3>1 DEF RankInv, Ranked, Top
  <2> QED BY <1>5, <2>2, <2>3 DEF ClkPreempt
<1> QED BY <1>1, <1>2, <1>3, <1>4, <1>5 DEF ClockStep

LEMMA SemRanks ==
    ASSUME IInv, RankInv, SemCall
    PROVE  RankInv'
<1> USE CallFacts
<1>0. prprio' = prprio /\ Ranked(prstate, readylist, qkey, prprio)
  BY DEF SemCall, Semcreate, WaitPass, WaitBlock, Signal, Signaln, SignalnLoop, SignalnDone, Semdelete,
         SemdeleteLoop, SemdeleteDone, Semreset, SemresetLoop, SemresetDone, DeviceInterrupt,
         IntrSignal, IntrDone, tableVars, RankInv
<1>1. ASSUME UNCHANGED <<prstate, qkey, readylist, currpid>>, frame[currpid].at = "user"
      PROVE  RankInv'
  BY <1>0, <1>1 DEF RankInv, Pending, Ranked, Top
<1>2. CASE \/ \E s \in Sem, count \in Counts : Semcreate(s, count)
           \/ \E s \in Sem : WaitPass(s)
           \/ \E s \in Sem, count \in Counts : Signaln(s, count)
           \/ \E s \in Sem : Semdelete(s)
           \/ \E s \in Sem, count \in Counts : Semreset(s, count)
           \/ \E s \in Sem, count \in Counts : DeviceInterrupt(s, count)
  BY <1>1, <1>2 DEF Semcreate, WaitPass, Signaln, Semdelete, Semreset, DeviceInterrupt, schedVars
<1>3. ASSUME NEW s \in Sem, WaitBlock(s) PROVE RankInv'
  <2> DEFINE st == "WAIT"
  <2>1. /\ Block(st, qkey) /\ currpid # NULLPROC /\ frame[currpid].at = "user"
        /\ st \in PrStates \ {"CURR", "READY"}
    BY <1>3 DEF WaitBlock, PrStates
  <2> HIDE DEF st
  <2>2. Reranked /\ Topped BY <1>0, <2>1, BlockRanks DEF Reranked, Topped
  <2> QED BY <2>2 DEF RankInv, Reranked, Topped
<1>4. ASSUME NEW s \in Sem, Signal(s) PROVE RankInv'
  <2>1. Release(s, RESCHED_YES) /\ frame' = frame /\ frame[currpid].at = "user" BY <1>4 DEF Signal
  <2>2. Reranked /\ (UNCHANGED schedVars \/ Topped)
    BY <1>0, <2>1, ReleaseRanks DEF RESCHED_YES
  <2>3. Top(prstate, currpid, prprio) BY <2>1 DEF RankInv, Pending
  <2> QED BY <1>0, <2>1, <2>2, <2>3 DEF RankInv, Reranked, Topped, Top, schedVars
<1>5. CASE SignalnLoop \/ SemdeleteLoop
  <2> DEFINE s == frame[currpid].arg
  <2>1. /\ Release(s, RESCHED_NO) /\ frame[currpid].at \in {"signaln", "semdelete"}
        /\ frame'[currpid].at \in {"signaln", "semdelete"}
    BY <1>5 DEF SignalnLoop, SemdeleteLoop, At, Frame
  <2>2. s \in Sem BY <2>1 DEF IInv, Contexts, Frames, OnSem
  <2> HIDE DEF s
  <2>3. Reranked /\ currpid' = currpid
    BY <1>0, <2>1, <2>2, ReleaseRanks DEF RESCHED_NO, schedVars
  <2> QED BY <2>1, <2>3 DEF RankInv, Reranked, Pending
<1>6. CASE SignalnDone \/ SemdeleteDone \/ SemresetDone
  <2>1. Resched(prstate, readylist, qkey, preempt) /\ frame[currpid].at # "intr"
    BY <1>6 DEF SignalnDone, SemdeleteDone, SemresetDone, At
  <2>2. Reranked /\ Topped BY <1>0, <2>1, StayRanks DEF Reranked, Topped
  <2> QED BY <2>2 DEF RankInv, Reranked, Topped
<1>7. CASE SemresetLoop
  <2> DEFINE s == frame[currpid].arg
             p == Head(squeue[s])
  <2>1. /\ squeue[s] # <<>> /\ ReadyOnly(p, qkey) /\ frame' = frame
        /\ frame[currpid].at = "semreset"
    BY <1>7 DEF SemresetLoop, At
  <2>2. s \in Sem BY <2>1 DEF IInv, Contexts, Frames, OnSem
  <2>3. p \in Pid /\ prstate[p] = "WAIT"
    <3> HIDE DEF s
    <3> QED BY <2>1, <2>2, HeadReleased
  <2> HIDE DEF p
  <2>4. Ranked(prstate', readylist', qkey', prprio') /\ currpid' = currpid
    BY <1>0, <2>1, <2>3, ReadyOnlyRanks
  <2> QED BY <2>1, <2>4 DEF RankInv, Pending
<1>8. CASE IntrSignal
  <2> DEFINE s == frame[currpid].arg
  <2>1. /\ frame[currpid].at = "intr" /\ frame'[currpid].at = "intr"
        /\ Release(s, RESCHED_YES) \/ UNCHANGED schedVars
    BY <1>8 DEF IntrSignal, At, Frame
  <2>2. s \in Sem BY <2>1 DEF IInv, Contexts, Frames, OnSem
  <2> HIDE DEF s
  <2>3. CASE UNCHANGED schedVars
    BY <1>0, <2>1, <2>3 DEF RankInv, Pending, Ranked, Top, schedVars
  <2>4. CASE ~UNCHANGED schedVars
    <3>1. Release(s, RESCHED_YES) BY <2>1, <2>4
    <3>2. Reranked /\ ((currpid' = currpid /\ defer'.attempt) \/ Topped)
      BY <1>0, <2>1, <2>2, <2>4, <3>1, ReleaseRanks DEF RESCHED_YES
    <3> QED BY <2>1, <3>2 DEF RankInv, Pending, Reranked, Topped
  <2> QED BY <2>3, <2>4
<1>9. CASE IntrDone
  <2>1. frame[currpid].at = "intr" /\ defer.ndefers = 1 BY <1>9 DEF IntrDone, At
  <2>2. CASE defer.attempt
    <3>1. Switch(prstate, readylist, qkey, preempt) BY <1>9, <2>1, <2>2 DEF IntrDone
    <3>2. CanMove(prstate, readylist, qkey, preempt) BY DEF CanMove, IInv, Scheduled, Sched
    <3>3. Reranked /\ Topped BY <1>0, <3>1, <3>2, SwitchRanks DEF Reranked, Topped
    <3> QED BY <3>3 DEF RankInv, Reranked, Topped
  <2>3. CASE ~defer.attempt
    <3>1. UNCHANGED <<prstate, qkey, readylist, currpid>> BY <1>9, <2>3 DEF IntrDone
    <3>2. Top(prstate, currpid, prprio) BY <2>1, <2>3 DEF RankInv, Pending
    <3> QED BY <1>0, <3>1, <3>2 DEF RankInv, Ranked, Top
  <2> QED BY <2>2, <2>3
<1> QED
  BY <1>2, <1>3, <1>4, <1>5, <1>6, <1>7, <1>8, <1>9 DEF SemCall

LEMMA MsgRanks ==
    ASSUME IInv, RankInv, MsgCall
    PROVE  RankInv'
<1> USE CallFacts
<1>0. prprio' = prprio /\ Ranked(prstate, readylist, qkey, prprio)
  BY DEF MsgCall, Send, Receive, ReceiveTake, Recvtime, RecvtimeTake, Recvclr, tableVars, RankInv
<1>1. ASSUME NEW p \in Pid, Send(p) PROVE RankInv'
  <2>1. frame[currpid].at = "user" /\ Deliver(p) /\ prstate[p] # "FREE"
    BY <1>1 DEF Send, Sendable, Isbadpid
  <2>2. Reranked /\ Topped BY <1>0, <2>1, DeliverRanks
  <2> QED BY <2>2 DEF RankInv, Reranked, Topped
<1>2. ASSUME UNCHANGED schedVars, frame[currpid].at \in {"user", "receive", "recvtime"}
      PROVE  RankInv'
  BY <1>0, <1>2 DEF RankInv, Pending, Ranked, Top, schedVars
<1>3. CASE ReceiveTake \/ RecvtimeTake \/ Recvclr
  BY <1>2, <1>3 DEF ReceiveTake, RecvtimeTake, Recvclr, At
<1>4. CASE Receive
  <2> DEFINE s == "RECV"
  <2>1. /\ currpid # NULLPROC /\ frame[currpid].at = "user"
        /\ (UNCHANGED schedVars \/ Block(s, qkey)) /\ s \in PrStates \ {"CURR", "READY"}
    BY <1>4 DEF Receive, PrStates
  <2> HIDE DEF s
  <2>2. CASE UNCHANGED schedVars BY <1>2, <2>1, <2>2
  <2>3. CASE Block(s, qkey) /\ s \in PrStates \ {"CURR", "READY"}
    <3>1. Reranked /\ Topped BY <1>0, <2>1, <2>3, BlockRanks DEF Reranked, Topped
    <3> QED BY <3>1 DEF RankInv, Reranked, Topped
  <2> QED BY <2>1, <2>2, <2>3
<1>5. ASSUME NEW maxwait \in MaxWaits, Recvtime(maxwait) PROVE RankInv'
  <2> DEFINE s == "RECTIM"
  <2>1. /\ currpid # NULLPROC /\ frame[currpid].at = "user"
        /\ (UNCHANGED schedVars \/ SleepFor(maxwait, s)) /\ s \in PrStates \ {"CURR", "READY"}
    BY <1>5 DEF Recvtime, PrStates
  <2> HIDE DEF s
  <2>2. CASE UNCHANGED schedVars BY <1>2, <2>1, <2>2
  <2>3. CASE SleepFor(maxwait, s) /\ s \in PrStates \ {"CURR", "READY"}
    <3>1. Reranked /\ Topped BY <1>0, <2>1, <2>3, SleepForRanks
    <3> QED BY <3>1 DEF RankInv, Reranked, Topped
  <2> QED BY <2>1, <2>2, <2>3
<1> QED BY <1>1, <1>3, <1>4, <1>5 DEF MsgCall

LEMMA ProcessRanks ==
    ASSUME IInv, RankInv,
           \/ \E p \in Pid, prio \in Prios, stack \in BOOLEAN : CreateProcess(p, prio, stack)
           \/ \E p \in Pid : Kill(p)
           \/ KillSelf \/ KillOther
    PROVE  RankInv'
<1> USE CallFacts
<1>0. /\ Ranked(prstate, readylist, qkey, prprio) /\ prprio \in [Pid -> Int]
      /\ Lists(readylist, ReadySet(prstate))
  BY DEF RankInv, IInv, Tables, Scheduled, Sched
<1>1. ASSUME NEW p \in Pid, NEW prio \in Prios, NEW stack \in BOOLEAN, CreateProcess(p, prio, stack)
      PROVE  RankInv'
  <2>1. /\ prstate[p] = "FREE" /\ frame[currpid].at = "user"
        /\ UNCHANGED <<qkey, readylist, currpid>>
        /\ \/ prstate' = prstate /\ prprio' = prprio
           \/ /\ prstate' = [prstate EXCEPT ![p] = "SUSP"]
              /\ prprio' = [prprio EXCEPT ![p] = prio]
    BY <1>1 DEF CreateProcess, Create, Newpid
  <2>2. p # currpid /\ \A q \in Pid : prstate'[q] = "READY" =>
            q # p /\ prstate[q] = "READY" /\ prprio'[q] = prprio[q]
    BY <1>0, <2>1
  <2>3. prprio'[currpid] = prprio[currpid] BY <1>0, <2>1, <2>2
  <2>4. Sorted(readylist', prprio')
    <3>1. \A i \in 1 .. Len(readylist) : readylist[i] \in Pid /\ readylist[i] # p
      BY <1>0, <2>1, LenProperties DEF Lists, ReadySet
    <3>2. \A i \in 1 .. Len(readylist) : prprio'[readylist[i]] = prprio[readylist[i]]
      BY <1>0, <2>1, <3>1
    <3> QED BY <1>0, <2>1, <3>2 DEF Sorted, Ranked
  <2>5. Top(prstate, currpid, prprio) BY <2>1 DEF RankInv, Pending
  <2> QED BY <1>0, <2>1, <2>2, <2>3, <2>4, <2>5 DEF RankInv, Ranked, Top
<1>2. ASSUME NEW victim \in Pid, Kill(victim) PROVE RankInv'
  <2>1. prprio' = prprio /\ frame[currpid].at = "user" /\ Top(prstate, currpid, prprio)
    BY <1>2 DEF Kill, RankInv, Pending
  <2>2. prparent[victim] \in Pid BY DEF IInv, Tables
  <2>3. CASE Deliver(prparent[victim]) /\ Sendable(prparent[victim])
    <3>1. Reranked /\ Topped BY <2>1, <2>2, <2>3, DeliverRanks DEF Sendable, Isbadpid
    <3> QED BY <3>1 DEF RankInv, Reranked, Topped
  <2>4. CASE UNCHANGED schedVars
    BY <1>0, <2>1, <2>4 DEF RankInv, Ranked, Top, schedVars
  <2> QED BY <1>2, <2>3, <2>4 DEF Kill, KillReports, KillHalts
<1>3. CASE KillSelf
  <2> DEFINE s == "FREE"
  <2>1. /\ Block(s, qkey) /\ frame[currpid].at = "kill" /\ frame[currpid].arg = currpid
        /\ s \in PrStates \ {"CURR", "READY"} /\ prprio' = prprio
    BY <1>3 DEF KillSelf, PrStates, At, tableVars
  <2>2. currpid # NULLPROC BY <2>1 DEF IInv, Contexts, Frames
  <2> HIDE DEF s
  <2>3. Reranked /\ Topped BY <1>0, <2>1, <2>2, BlockRanks DEF Reranked, Topped
  <2> QED BY <2>3 DEF RankInv, Reranked, Topped
<1>4. CASE KillOther
  <2> DEFINE v == frame[currpid].arg
  <2>1. /\ frame[currpid].at = "kill" /\ v # currpid /\ prprio' = prprio /\ currpid' = currpid
        /\ prstate' = [prstate EXCEPT ![v] = "FREE"]
    BY <1>4 DEF KillOther, At, tableVars
  <2>2. v \in Pid BY <2>1 DEF IInv, Contexts, Frames
  <2>3. Top(prstate, currpid, prprio) BY <2>1 DEF RankInv, Pending
  <2>4. Sorted(readylist', prprio)
    <3>1. CASE prstate[v] = "READY"
      <4>1. readylist' = Getitem(readylist, v) BY <1>4, <3>1 DEF KillOther
      <4>2. v \in ReadySet(prstate) /\ ReadySet(prstate) \subseteq Pid BY <2>2, <3>1 DEF ReadySet
      <4> HIDE DEF v
      <4> QED BY <1>0, <4>1, <4>2, GetitemSorted DEF Ranked
    <3>2. CASE prstate[v] # "READY"
      <4>1. readylist' = readylist BY <1>4, <3>2 DEF KillOther
      <4> QED BY <1>0, <4>1 DEF Ranked
    <3> QED BY <3>1, <3>2
  <2>5. \A p \in Pid : prstate'[p] = "READY" => qkey'[p] = prprio[p]
    <3>1. CASE prstate[v] \in {"SLEEP", "RECTIM"}
      <4>1. qkey' = UnsleepKeys(sleepq, qkey, v) BY <1>4, <3>1 DEF KillOther
      <4>2. v \in SleepSet(prstate) BY <2>2, <3>1 DEF SleepSet
      <4> HIDE DEF v
      <4>3. Ranked(prstate, readylist, UnsleepKeys(sleepq, qkey, v), prprio)
        BY <1>0, <4>2, UnsleepKeysRanked
      <4> QED BY <2>1, <4>1, <4>3 DEF Ranked
    <3>2. CASE prstate[v] \notin {"SLEEP", "RECTIM"}
      <4>1. qkey' = qkey BY <1>4, <3>2 DEF KillOther
      <4> QED BY <1>0, <2>1, <4>1 DEF Ranked
    <3> QED BY <3>1, <3>2
  <2> QED BY <2>1, <2>3, <2>4, <2>5 DEF RankInv, Ranked, Top
<1> QED BY <1>1, <1>2, <1>3, <1>4

LEMMA RankNext ==
    ASSUME "chprio" \notin Calls
    PROVE  IInv /\ RankInv /\ [Next]_vars => RankInv'
<1> SUFFICES ASSUME IInv, RankInv, [Next]_vars PROVE RankInv'
  OBVIOUS
<1>1. CASE SchedCall
  BY <1>1, SchedRanks DEF RankInv, Reranked, Topped
<1>2. CASE Halt \/ UNCHANGED vars
  BY <1>2 DEF Halt, vars, schedVars, tableVars, RankInv, Ranked, Top, Pending
<1> QED BY <1>1, <1>2, ClockRanks, SemRanks, MsgRanks, ProcessRanks DEF Next

LEMMA RankInit == Init => RankInv
<1> SUFFICES ASSUME Init PROVE RankInv
  OBVIOUS
<1>1. PICK prio \in Prios :
        /\ \A p \in Pid : prstate[p] = "READY" => p = NULLPROC
        /\ prprio = [p \in Pid |-> IF p = 1 THEN prio ELSE 0]
        /\ qkey = [p \in Pid |-> 0] /\ readylist = <<NULLPROC>> /\ currpid = 1
  BY DEF Init, SchedInit, NULLPROC
<1>2. NULLPROC \in Pid /\ 1 \in Pid /\ NULLPROC # 1 /\ prio > 0 /\ prio \in Int
  BY SchedAssumption DEF Pid, NULLPROC
<1>3. Sorted(readylist, prprio) BY <1>1 DEF Sorted
<1> QED BY <1>1, <1>2, <1>3 DEF RankInv, Ranked, Top

(* With the priorities processes were created with, a process runs its own *)
(* code only if no ready process has a higher one.  (Where chprio() is     *)
(* called this is false: the call reschedules nobody and moves nobody on   *)
(* the ready list.)                                                        *)
THEOREM PrioritiesHold ==
    ASSUME "chprio" \notin Calls
    PROVE  Spec => []HighestRuns
<1>1. IInv /\ RankInv => HighestRuns
  BY CallFacts DEF RankInv, Pending, Top, HighestRuns
<1> QED BY <1>1, KernelInvariant, RankInit, RankNext, PTL DEF Spec

----------------------------------------------------------------------------
(***************************************************************************)
(* Delays.  While ticks of its delay are left, a process is on the delta   *)
(* list with at least as many ahead of it.  The keys of the list are the   *)
(* processes' own, which resched() and ready() overwrite: that they write  *)
(* only those of processes that are not asleep is what makes the list      *)
(* keep its sums.                                                          *)
(***************************************************************************)
DelayInv == qkey \in [Pid -> Int] /\ DelaysRespected

(* The kernel's int32 keys: a delay of 2^31 ticks or more would be a        *)
(* negative one.                                                           *)
ShortDelays == Delays \subseteq 1 .. WordSize \div 2 - 1

LEMMA DelaysDue ==
    DelaysRespected <=>
        \A p \in Pid : remaining[p] > 0 => DueNotBefore(sleepq, qkey, p, remaining[p])
BY DEF DelaysRespected, DueNotBefore

(* Only the key of a process that stays current is written by resched(). *)
LEMMA SwitchKeys ==
    ASSUME IInv, NEW st, NEW rl, NEW keys \in [Pid -> Int], NEW slice,
           Switch(st, rl, keys, slice) \/ Resched(st, rl, keys, slice)
    PROVE  /\ qkey' \in [Pid -> Int]
           /\ \A p \in Pid : (p = currpid /\ st[p] = "CURR") \/ qkey'[p] = keys[p]
<1>1. prprio \in [Pid -> Int] /\ currpid \in Pid BY CallFacts DEF IInv, Tables
<1>2. \/ qkey' = keys
      \/ st[currpid] = "CURR" /\ qkey' = [keys EXCEPT ![currpid] = prprio[currpid]]
  BY DEF Resched, Deferred, Switch
<1> QED BY <1>1, <1>2

(* ready() writes the key of the process that it makes ready. *)
LEMMA ReadyKeepsKeys ==
    ASSUME IInv, NEW p \in Pid, NEW keys \in [Pid -> Int],
           ReadyResched(p, keys) \/ ReadyOnly(p, keys)
    PROVE  /\ qkey' \in [Pid -> Int]
           /\ \A q \in Pid : q \in {p, currpid} \/ qkey'[q] = keys[q]
<1>1. prprio \in [Pid -> Int] BY DEF IInv, Tables
<1> DEFINE k == ReadyKeys(p, keys)
<1>2. k \in [Pid -> Int] /\ \A q \in Pid : q # p => k[q] = keys[q] BY <1>1 DEF ReadyKeys
<1> HIDE DEF k
<1>3. CASE ReadyResched(p, keys)
  <2>1. Resched(ReadyState(p), ReadyList(p, keys), k, preempt) BY <1>3 DEF ReadyResched, k
  <2> QED BY <1>2, <2>1, SwitchKeys
<1>4. CASE ReadyOnly(p, keys)
  <2>1. qkey' = k BY <1>4 DEF ReadyOnly, k
  <2> QED BY <1>2, <2>1
<1> QED BY <1>3, <1>4

(* A process that gives up the processor keeps its key. *)
LEMMA BlockKeepsKeys ==
    ASSUME IInv, NEW s, s # "CURR", NEW keys \in [Pid -> Int], Block(s, keys)
    PROVE  qkey' = keys
<1> DEFINE st == [prstate EXCEPT ![currpid] = s]
<1>1. st[currpid] # "CURR" BY CallFacts
<1>2. Resched(st, readylist, keys, preempt) BY DEF Block
<1> HIDE DEF st
<1>3. qkey' \in [Pid -> Int] /\ \A p \in Pid : qkey'[p] = keys[p]
  BY <1>1, <1>2, SwitchKeys
<1> QED BY <1>3

(* The keys of the sleepers are their own still. *)
KeysKept ==
    /\ qkey' \in [Pid -> Int]
    /\ \A p \in SleepSet(prstate) : qkey'[p] = qkey[p]

LEMMA SleepersHere ==
    ASSUME IInv
    PROVE  /\ Lists(sleepq, SleepSet(prstate)) /\ SleepSet(prstate) \in SUBSET Pid
           /\ sleepq \in Seq(Pid) /\ Len(sleepq) \in Nat
           /\ \A i \in 1 .. Len(sleepq) : sleepq[i] \in SleepSet(prstate)
           /\ currpid \notin SleepSet(prstate)
<1>1. Lists(sleepq, SleepSet(prstate)) /\ SleepSet(prstate) \in SUBSET Pid
  BY DEF IInv, Sleepers, SleepSet
<1>2. sleepq \in Seq(Pid) BY <1>1, ListsArePids
<1>3. currpid \notin SleepSet(prstate) BY CallFacts DEF SleepSet
<1> QED BY <1>1, <1>2, <1>3, LenProperties DEF Lists

(* Steps that leave the delta list alone. *)
LEMMA DelayStays ==
    ASSUME IInv, DelayInv, KeysKept, UNCHANGED clockVars
    PROVE  DelayInv'
<1>1. \A i \in 1 .. Len(sleepq) : qkey'[sleepq[i]] = qkey[sleepq[i]]
  BY SleepersHere DEF KeysKept
<1>2. IntKeys(sleepq, qkey) BY SleepersHere DEF IntKeys, DelayInv
<1>3. \A p, n : DueNotBefore(sleepq, qkey, p, n) => DueNotBefore(sleepq, qkey', p, n)
  BY <1>1, <1>2, SleepersHere, SameDue
<1>4. sleepq' = sleepq /\ remaining' = remaining BY DEF clockVars
<1>5. \A p \in Pid : remaining[p] > 0 => DueNotBefore(sleepq, qkey, p, remaining[p])
  BY DelaysDue DEF DelayInv
<1>6. \A p \in Pid : remaining'[p] > 0 => DueNotBefore(sleepq', qkey', p, remaining'[p])
  BY <1>3, <1>4, <1>5
<1>7. DelaysRespected' BY <1>6 DEF DelaysRespected, DueNotBefore
<1> QED BY <1>7 DEF DelayInv, KeysKept

LEMMA KeptByResched ==
    ASSUME IInv, DelayInv, NEW rl, NEW slice,
           Switch(prstate, rl, qkey, slice) \/ Resched(prstate, rl, qkey, slice)
    PROVE  KeysKept
BY SwitchKeys, SleepersHere DEF KeysKept, DelayInv

LEMMA KeptByReady ==
    ASSUME IInv, DelayInv, NEW p \in Pid, p \notin SleepSet(prstate),
           ReadyResched(p, qkey) \/ ReadyOnly(p, qkey)
    PROVE  KeysKept
BY ReadyKeepsKeys, SleepersHere DEF KeysKept, DelayInv

LEMMA KeptByBlock ==
    ASSUME IInv, DelayInv, NEW s, s # "CURR", Block(s, qkey)
    PROVE  KeysKept
BY BlockKeepsKeys, SleepersHere DEF KeysKept, DelayInv

LEMMA KeptSame ==
    ASSUME IInv, DelayInv, qkey' = qkey
    PROVE  KeysKept
BY SleepersHere DEF KeysKept, DelayInv

(* insertd() of the current process, which then gives up the processor. *)
LEMMA SleepForDelay ==
    ASSUME IInv, DelayInv, NEW delay \in 0 .. WordSize \div 2 - 1, NEW s, s # "CURR",
           SleepFor(delay, s)
    PROVE  DelayInv'
<1> USE CallFacts, SleepersHere
<1> DEFINE keys == InsertdKeys(sleepq, qkey, currpid, delay)
<1>1. Int32(delay) = delay /\ delay \in Int BY ClockAssumption DEF Int32
<1>2. /\ sleepq' = Insertd(sleepq, qkey, currpid, delay)
      /\ remaining' = [remaining EXCEPT ![currpid] = delay]
      /\ Block(s, keys)
  BY <1>1 DEF SleepFor
<1>3. qkey \in [Pid -> Int] /\ remaining \in [Pid -> Nat] BY DEF DelayInv, IInv, Tables
<1>4. /\ keys \in [Pid -> Int]
      /\ DueNotBefore(sleepq', keys, currpid, delay)
      /\ \A x, n : DueNotBefore(sleepq, qkey, x, n) => DueNotBefore(sleepq', keys, x, n)
  BY <1>1, <1>2, <1>3, InsertdDue
<1> HIDE DEF keys
<1>5. qkey' = keys BY <1>2, <1>4, BlockKeepsKeys
<1>6. \A p \in Pid : remaining[p] > 0 => DueNotBefore(sleepq, qkey, p, remaining[p])
  BY DelaysDue DEF DelayInv
<1>7. ASSUME NEW p \in Pid, remaining'[p] > 0
      PROVE  DueNotBefore(sleepq', qkey', p, remaining'[p])
  <2>1. CASE p = currpid BY <1>2, <1>3, <1>4, <1>5, <2>1
  <2>2. CASE p # currpid
    <3>1. remaining'[p] = remaining[p] BY <1>2, <1>3, <2>2
    <3> QED BY <1>4, <1>5, <1>6, <1>7, <3>1
  <2> QED BY <2>1, <2>2
<1>8. DelaysRespected' BY <1>7 DEF DelaysRespected, DueNotBefore
<1> QED BY <1>4, <1>5, <1>8 DEF DelayInv

(* unsleep() of a process whose wait ends, and whatever becomes of its key *)
(* afterwards.                                                             *)
LEMMA UnsleepDelay ==
    ASSUME IInv, DelayInv, NEW p \in SleepSet(prstate), Unsleep(p), qkey' \in [Pid -> Int],
           \A q \in SleepSet(prstate) \ {p} : qkey'[q] = UnsleepKeys(sleepq, qkey, p)[q]
    PROVE  DelayInv'
<1> USE SleepersHere
<1> DEFINE keys == UnsleepKeys(sleepq, qkey, p)
<1>1. qkey \in [Pid -> Int] /\ remaining \in [Pid -> Nat] BY DEF DelayInv, IInv, Tables
<1>2. /\ keys \in [Pid -> Int]
      /\ \A x, n : x # p /\ DueNotBefore(sleepq, qkey, x, n) => DueNotBefore(Getitem(sleepq, p), keys, x, n)
  BY <1>1, UnsleepDue
<1>3. sleepq' = Getitem(sleepq, p) /\ remaining' = [remaining EXCEPT ![p] = 0] BY DEF Unsleep
<1>4. /\ Lists(sleepq', SleepSet(prstate) \ {p}) /\ sleepq' \in Seq(SleepSet(prstate) \ {p})
      /\ \A i \in 1 .. Len(sleepq') : sleepq'[i] \in SleepSet(prstate) \ {p}
  <2>1. Lists(sleepq', SleepSet(prstate) \ {p}) BY <1>3, GetitemLists
  <2> QED BY <2>1, LenProperties DEF Lists
<1> HIDE DEF keys
<1>5. IntKeys(sleepq', keys) BY <1>2, <1>4 DEF IntKeys
<1>6. \A i \in 1 .. Len(sleepq') : qkey'[sleepq'[i]] = keys[sleepq'[i]] BY <1>4 DEF keys
<1>7. \A x, n : DueNotBefore(sleepq', keys, x, n) => DueNotBefore(sleepq', qkey', x, n)
  BY <1>4, <1>5, <1>6, SameDue
<1>8. ASSUME NEW x \in Pid, remaining'[x] > 0
      PROVE  DueNotBefore(sleepq', qkey', x, remaining'[x])
  <2>1. x # p /\ remaining'[x] = remaining[x] BY <1>1, <1>3, <1>8
  <2>2. DueNotBefore(sleepq, qkey, x, remaining[x]) BY <1>8, <2>1, DelaysDue DEF DelayInv
  <2> QED BY <1>2, <1>3, <1>7, <2>1, <2>2
<1>9. DelaysRespected' BY <1>8 DEF DelaysRespected, DueNotBefore
<1> QED BY <1>9 DEF DelayInv

(* send() *)
LEMMA DeliverDelay ==
    ASSUME IInv, DelayInv, NEW p \in Pid, Deliver(p)
    PROVE  DelayInv'
<1>1. CASE prstate[p] = "RECV"
  <2>1. ReadyResched(p, qkey) /\ UNCHANGED clockVars BY <1>1 DEF Deliver
  <2>2. p \notin SleepSet(prstate) BY <1>1 DEF SleepSet
  <2> QED BY <2>1, <2>2, KeptByReady, DelayStays
<1>2. CASE prstate[p] = "RECTIM"
  <2> DEFINE keys == UnsleepKeys(sleepq, qkey, p)
  <2>1. Unsleep(p) /\ ReadyResched(p, keys) BY <1>2 DEF Deliver
  <2>2. p \in SleepSet(prstate) BY <1>2 DEF SleepSet
  <2>3. keys \in [Pid -> Int] BY <2>2, SleepersHere, UnsleepDue DEF DelayInv
  <2> HIDE DEF keys
  <2>4. qkey' \in [Pid -> Int] /\ \A q \in Pid : q \in {p, currpid} \/ qkey'[q] = keys[q]
    BY <2>1, <2>3, ReadyKeepsKeys
  <2>5. \A q \in SleepSet(prstate) \ {p} : qkey'[q] = UnsleepKeys(sleepq, qkey, p)[q]
    BY <2>4, SleepersHere DEF keys
  <2> QED BY <2>1, <2>2, <2>4, <2>5, UnsleepDelay
<1>3. CASE prstate[p] \notin {"RECV", "RECTIM"}
  <2>1. qkey' = qkey /\ UNCHANGED clockVars BY <1>3 DEF Deliver, schedVars
  <2> QED BY <2>1, KeptSame, DelayStays
<1> QED BY <1>1, <1>2, <1>3

LEMMA SchedDelay ==
    ASSUME IInv, DelayInv, SchedCall, UNCHANGED <<semVars, clockVars, prhasmsg>>
    PROVE  DelayInv'
<1>1. ASSUME NEW p \in Pid, Resume(p) PROVE KeysKept
  <2>1. p \notin SleepSet(prstate) /\ ReadyResched(p, qkey) BY <1>1 DEF Resume, SleepSet
  <2> QED BY <2>1, KeptByReady
<1>2. ASSUME SuspendSelf PROVE KeysKept
  <2> DEFINE s == "SUSP"
  <2>1. Block(s, qkey) /\ s # "CURR" BY <1>2 DEF SuspendSelf
  <2> HIDE DEF s
  <2> QED BY <2>1, KeptByBlock
<1>3. ASSUME Yield PROVE KeysKept
  BY <1>3, KeptByResched DEF Yield
<1>4. ASSUME \/ \E p \in Pid : SuspendReady(p)
             \/ \E p \in Reniced, prio \in NewPrios : Chprio(p, prio)
      PROVE  KeysKept
  BY <1>4, KeptSame DEF SuspendReady, Chprio, schedVars
<1> QED BY <1>1, <1>2, <1>3, <1>4, DelayStays DEF SchedCall

(* Release(s, resch), and the readying of waiters by semreset(). *)
LEMMA ReleaseKeepsKeys ==
    ASSUME IInv, DelayInv, frame[currpid].at # "semreset",
           NEW s \in Sem, NEW resch \in BOOLEAN, Release(s, resch)
    PROVE  KeysKept
<1>1. CASE scount[s] < 0
  <2> DEFINE p == Head(squeue[s])
  <2>1. p \in Pid /\ prstate[p] = "WAIT" BY <1>1, NegativeWaits, HeadReleased
  <2>2. Ready(p, qkey, resch) BY <1>1 DEF Release
  <2> HIDE DEF p
  <2>3. ReadyResched(p, qkey) \/ ReadyOnly(p, qkey) BY <2>2 DEF Ready
  <2>4. p \notin SleepSet(prstate) BY <2>1 DEF SleepSet
  <2> QED BY <2>1, <2>3, <2>4, KeptByReady
<1>2. CASE ~(scount[s] < 0)
  BY <1>2, KeptSame DEF Release, schedVars
<1> QED BY <1>1, <1>2

LEMMA SemDelay ==
    ASSUME IInv, DelayInv, SemCall, UNCHANGED <<clockVars, prhasmsg>>
    PROVE  DelayInv'
<1>1. CASE \/ \E s \in Sem, count \in Counts : Semcreate(s, count)
           \/ \E s \in Sem : WaitPass(s)
           \/ \E s \in Sem, count \in Counts : Signaln(s, count)
           \/ \E s \in Sem : Semdelete(s)
           \/ \E s \in Sem, count \in Counts : Semreset(s, count)
           \/ \E s \in Sem, count \in Counts : DeviceInterrupt(s, count)
  <2>1. qkey' = qkey
    BY <1>1 DEF Semcreate, WaitPass, Signaln, Semdelete, Semreset, DeviceInterrupt, schedVars
  <2> QED BY <2>1, KeptSame, DelayStays
<1>2. ASSUME NEW s \in Sem, WaitBlock(s) PROVE KeysKept
  <2> DEFINE st == "WAIT"
  <2>1. Block(st, qkey) /\ st # "CURR" BY <1>2 DEF WaitBlock
  <2> HIDE DEF st
  <2> QED BY <2>1, KeptByBlock
<1>3. ASSUME NEW s \in Sem, Signal(s) PROVE KeysKept
  <2>1. Release(s, RESCHED_YES) /\ frame[currpid].at = "user"
    BY <1>3, CallFacts DEF Signal
  <2> QED BY <2>1, ReleaseKeepsKeys DEF RESCHED_YES
<1>4. ASSUME SignalnLoop \/ SemdeleteLoop PROVE KeysKept
  <2> DEFINE s == frame[currpid].arg
  <2>1. Release(s, RESCHED_NO) /\ frame[currpid].at \in {"signaln", "semdelete"}
    BY <1>4 DEF SignalnLoop, SemdeleteLoop, At
  <2>2. s \in Sem BY <2>1, CallFacts DEF IInv, Contexts, Frames, OnSem
  <2> HIDE DEF s
  <2> QED BY <2>1, <2>2, ReleaseKeepsKeys DEF RESCHED_NO
<1>5. ASSUME SignalnDone \/ SemdeleteDone \/ SemresetDone PROVE KeysKept
  BY <1>5, KeptByResched DEF SignalnDone, SemdeleteDone, SemresetDone
<1>6. ASSUME SemresetLoop PROVE KeysKept
  <2> DEFINE s == frame[currpid].arg
             p == Head(squeue[s])
  <2>1. squeue[s] # <<>> /\ ReadyOnly(p, qkey) /\ frame[currpid].at = "semreset"
    BY <1>6 DEF SemresetLoop, At
  <2>2. s \in Sem BY <2>1, CallFacts DEF IInv, Contexts, Frames, OnSem
  <2>3. p \in Pid /\ prstate[p] = "WAIT"
    <3> HIDE DEF s
    <3> QED BY <2>1, <2>2, HeadReleased
  <2> HIDE DEF p
  <2>4. p \notin SleepSet(prstate) BY <2>3 DEF SleepSet
  <2> QED BY <2>1, <2>3, <2>4, KeptByReady
<1>7. ASSUME IntrSignal PROVE KeysKept
  <2> DEFINE s == frame[currpid].arg
  <2>1. frame[currpid].at = "intr" /\ (Release(s, RESCHED_YES) \/ qkey' = qkey)
    BY <1>7 DEF IntrSignal, At, schedVars
  <2>2. s \in Sem BY <2>1, CallFacts DEF IInv, Contexts, Frames, OnSem
  <2> HIDE DEF s
  <2> QED BY <2>1, <2>2, ReleaseKeepsKeys, KeptSame DEF RESCHED_YES
<1>8. ASSUME IntrDone PROVE KeysKept
  <2>1. Switch(prstate, readylist, qkey, preempt) \/ qkey' = qkey BY <1>8 DEF IntrDone
  <2> QED BY <2>1, KeptByResched, KeptSame
<1> QED
  BY <1>1, <1>2, <1>3, <1>4, <1>5, <1>6, <1>7, <1>8, DelayStays DEF SemCall

LEMMA ClockDelay ==
    ASSUME IInv, DelayInv, ShortDelays, ClockStep
    PROVE  DelayInv'
<1> USE SleepersHere, CallFacts
<1>0. qkey \in [Pid -> Int] /\ remaining \in [Pid -> Nat] BY DEF DelayInv, IInv, Tables
<1>1. ASSUME NEW delay \in Delays, Sleepms(delay) PROVE DelayInv'
  <2> DEFINE s == "SLEEP"
  <2>1. SleepFor(delay, s) /\ s # "CURR" BY <1>1 DEF Sleepms
  <2>2. delay \in 0 .. WordSize \div 2 - 1 BY DEF ShortDelays
  <2> HIDE DEF s
  <2> QED BY <2>1, <2>2, SleepForDelay
<1>2. CASE Clkhandler
  <2>1. /\ qkey' = IF sleepq = <<>> THEN qkey ELSE [qkey EXCEPT ![Head(sleepq)] = qkey[Head(sleepq)] - 1]
        /\ remaining' = [p \in Pid |-> IF remaining[p] > 0 THEN remaining[p] - 1 ELSE 0]
        /\ sleepq' = sleepq
    BY <1>2 DEF Clkhandler
  <2>2. CASE sleepq = <<>>
    <3>1. \A p \in Pid, n \in Int : ~DueNotBefore(sleepq, qkey, p, n) BY <2>2 DEF DueNotBefore
    <3>2. \A p \in Pid : ~(remaining[p] > 0) BY <1>0, <3>1, DelaysDue DEF DelayInv
    <3>3. \A p \in Pid : ~(remaining'[p] > 0) BY <2>1, <3>2
    <3> QED BY <1>0, <2>1, <2>2, <3>3 DEF DelayInv, DelaysRespected
  <2>3. CASE sleepq # <<>>
    <3>1. Len(sleepq) >= 1 /\ Head(sleepq) = sleepq[1] /\ sleepq[1] \in Pid
      BY <2>3, EmptySeq, HeadTailProperties
    <3>2. qkey' \in [Pid -> Int] /\ qkey'[sleepq[1]] = qkey[sleepq[1]] - 1
      BY <1>0, <2>1, <2>3, <3>1
    <3>3. \A i \in 2 .. Len(sleepq) : sleepq[i] # sleepq[1] /\ sleepq[i] \in Pid
      <4>1. DOMAIN sleepq = 1 .. Len(sleepq) BY LenProperties
      <4>2. \A i \in 2 .. Len(sleepq) : i \in 1 .. Len(sleepq) /\ 1 \in 1 .. Len(sleepq) /\ i # 1
        OBVIOUS
      <4> QED BY <4>1, <4>2 DEF Lists, NoDup
    <3>4. \A i \in 2 .. Len(sleepq) : qkey'[sleepq[i]] = qkey[sleepq[i]]
      BY <1>0, <2>1, <2>3, <3>1, <3>3
    <3>5. IntKeys(sleepq, qkey) BY <1>0 DEF IntKeys
    <3>6. \A p, n : n \in Int /\ DueNotBefore(sleepq, qkey, p, n) => DueNotBefore(sleepq, qkey', p, n - 1)
      BY <2>3, <3>2, <3>4, <3>5, TickDue
    <3>7. ASSUME NEW p \in Pid, remaining'[p] > 0
          PROVE  DueNotBefore(sleepq', qkey', p, remaining'[p])
      <4>1. remaining[p] > 0 /\ remaining'[p] = remaining[p] - 1 /\ remaining[p] \in Int
        BY <1>0, <2>1, <3>7
      <4>2. DueNotBefore(sleepq, qkey, p, remaining[p]) BY <4>1, DelaysDue DEF DelayInv
      <4> QED BY <2>1, <3>6, <4>1, <4>2
    <3>8. DelaysRespected' BY <3>7 DEF DelaysRespected, DueNotBefore
    <3> QED BY <3>2, <3>8 DEF DelayInv
  <2> QED BY <2>2, <2>3
<1>3. CASE WakeupLoop
  <2> DEFINE first == Head(sleepq)
  <2>1. /\ sleepq # <<>> /\ qkey[first] <= 0 /\ sleepq' = Tail(sleepq)
        /\ ReadyOnly(first, qkey) /\ remaining' = remaining
    BY <1>3 DEF WakeupLoop
  <2>2. /\ Len(sleepq) >= 1 /\ first = sleepq[1] /\ first \in Pid
        /\ Lists(sleepq', SleepSet(prstate) \ {first})
    BY <2>1, EmptySeq, HeadTailProperties, TailLists
  <2> HIDE DEF first
  <2>3. IntKeys(sleepq, qkey) BY <1>0 DEF IntKeys
  <2>4. \A p, n : p # first /\ n \in Int /\ DueNotBefore(sleepq, qkey, p, n) => DueNotBefore(sleepq', qkey, p, n)
    BY <2>1, <2>2, <2>3, TailDue
  <2>5. qkey' \in [Pid -> Int] /\ \A q \in Pid : q \in {first, currpid} \/ qkey'[q] = qkey[q]
    BY <1>0, <2>1, <2>2, ReadyKeepsKeys
  <2>6. /\ sleepq' \in Seq(SleepSet(prstate) \ {first})
        /\ \A i \in 1 .. Len(sleepq') : sleepq'[i] \in SleepSet(prstate) \ {first}
    BY <2>2, LenProperties DEF Lists
  <2>7. \A i \in 1 .. Len(sleepq') : qkey'[sleepq'[i]] = qkey[sleepq'[i]] BY <2>5, <2>6
  <2>8. IntKeys(sleepq', qkey) BY <1>0, <2>6 DEF IntKeys
  <2>9. \A p, n : DueNotBefore(sleepq', qkey, p, n) => DueNotBefore(sleepq', qkey', p, n)
    BY <2>6, <2>7, <2>8, SameDue
  <2>10. remaining[first] = 0
    <3>1. CASE remaining[first] > 0
      <4>1. PICK i \in DOMAIN sleepq : sleepq[i] = first /\ DueAfter(sleepq, qkey)[i] >= remaining[first]
        BY <2>2, <3>1 DEF DelayInv, DelaysRespected
      <4>2. i = 1 /\ i \in 1 .. Len(sleepq) BY <2>2, <4>1, LenProperties DEF Lists, NoDup
      <4>3. Adds(sleepq, qkey, Len(sleepq), DueAfter(sleepq, qkey)) BY <2>3, DueAfterAdds
      <4>4. DueAfter(sleepq, qkey)[1] = 0 + qkey[first] BY <2>2, <4>2, <4>3 DEF Adds
      <4>5. qkey[first] \in Int BY <1>0, <2>2
      <4>6. remaining[first] \in Nat BY <1>0, <2>2
      <4> QED BY <2>1, <3>1, <4>1, <4>2, <4>4, <4>5, <4>6
    <3> QED BY <1>0, <2>2, <3>1
  <2>11. ASSUME NEW p \in Pid, remaining'[p] > 0
         PROVE  DueNotBefore(sleepq', qkey', p, remaining'[p])
    <3>1. p # first /\ remaining'[p] = remaining[p] /\ remaining[p] \in Int
      BY <1>0, <2>1, <2>10, <2>11
    <3>2. DueNotBefore(sleepq, qkey, p, remaining[p]) BY <2>11, <3>1, DelaysDue DEF DelayInv
    <3> QED BY <2>4, <2>9, <3>1, <3>2
  <2>12. DelaysRespected' BY <2>11 DEF DelaysRespected, DueNotBefore
  <2> QED BY <2>5, <2>12 DEF DelayInv
<1>4. CASE WakeupDone
  BY <1>4, KeptByResched, DelayStays DEF WakeupDone
<1>5. CASE ClkPreempt
  <2>1. UNCHANGED clockVars /\ (Resched(prstate, readylist, qkey, QUANTUM) \/ qkey' = qkey)
    BY <1>5 DEF ClkPreempt
  <2> QED BY <2>1, KeptByResched, KeptSame, DelayStays
<1> QED BY <1>1, <1>2, <1>3, <1>4, <1>5 DEF ClockStep

LEMMA MsgDelay ==
    ASSUME IInv, DelayInv, MsgCall
    PROVE  DelayInv'
<1>1. ASSUME NEW p \in Pid, Send(p) PROVE DelayInv'
  BY <1>1, DeliverDelay DEF Send
<1>2. CASE ReceiveTake \/ RecvtimeTake \/ Recvclr
  <2>1. qkey' = qkey /\ UNCHANGED clockVars
    BY <1>2 DEF ReceiveTake, RecvtimeTake, Recvclr, schedVars
  <2> QED BY <2>1, KeptSame, DelayStays
<1>3. CASE Receive
  <2> DEFINE s == "RECV"
  <2>1. UNCHANGED clockVars /\ (qkey' = qkey \/ Block(s, qkey)) /\ s # "CURR"
    BY <1>3 DEF Receive, schedVars
  <2> HIDE DEF s
  <2> QED BY <2>1, KeptSame, KeptByBlock, DelayStays
<1>4. ASSUME NEW maxwait \in MaxWaits, Recvtime(maxwait) PROVE DelayInv'
  <2> DEFINE s == "RECTIM"
  <2>1. ((qkey' = qkey /\ UNCHANGED clockVars) \/ SleepFor(maxwait, s)) /\ s # "CURR"
    BY <1>4 DEF Recvtime, schedVars
  <2>2. maxwait \in 0 .. WordSize \div 2 - 1 BY MsgAssumption
  <2> HIDE DEF s
  <2> QED BY <2>1, <2>2, KeptSame, DelayStays, SleepForDelay
<1> QED BY <1>1, <1>2, <1>3, <1>4 DEF MsgCall

LEMMA ProcessDelay ==
    ASSUME IInv, DelayInv,
           \/ \E p \in Pid, prio \in Prios, stack \in BOOLEAN : CreateProcess(p, prio, stack)
           \/ \E p \in Pid : Kill(p)
           \/ KillSelf \/ KillOther
    PROVE  DelayInv'
<1>1. CASE \E p \in Pid, prio \in Prios, stack \in BOOLEAN : CreateProcess(p, prio, stack)
  <2>1. qkey' = qkey /\ UNCHANGED clockVars BY <1>1 DEF CreateProcess, Create
  <2> QED BY <2>1, KeptSame, DelayStays
<1>2. ASSUME NEW victim \in Pid, Kill(victim) PROVE DelayInv'
  <2>1. prparent[victim] \in Pid BY DEF IInv, Tables
  <2>2. Deliver(prparent[victim]) \/ (qkey' = qkey /\ UNCHANGED clockVars)
    BY <1>2 DEF Kill, KillReports, KillHalts, schedVars
  <2> QED BY <2>1, <2>2, DeliverDelay, KeptSame, DelayStays
<1>3. CASE KillSelf
  <2> DEFINE s == "FREE"
  <2>1. Block(s, qkey) /\ UNCHANGED clockVars /\ s # "CURR" BY <1>3 DEF KillSelf
  <2> HIDE DEF s
  <2> QED BY <2>1, KeptByBlock, DelayStays
<1>4. CASE KillOther
  <2> DEFINE v == frame[currpid].arg
  <2>1. v \in Pid BY <1>4, CallFacts DEF KillOther, At, IInv, Contexts, Frames
  <2>2. CASE prstate[v] \in {"SLEEP", "RECTIM"}
    <3>1. qkey' = UnsleepKeys(sleepq, qkey, v) /\ Unsleep(v) BY <1>4, <2>2 DEF KillOther
    <3>2. v \in SleepSet(prstate) BY <2>1, <2>2 DEF SleepSet
    <3> HIDE DEF v
    <3>3. qkey' \in [Pid -> Int] BY <3>1, <3>2, SleepersHere, UnsleepDue DEF DelayInv
    <3> QED BY <3>1, <3>2, <3>3, UnsleepDelay
  <2>3. CASE prstate[v] \notin {"SLEEP", "RECTIM"}
    <3>1. qkey' = qkey /\ UNCHANGED clockVars BY <1>4, <2>3 DEF KillOther
    <3> QED BY <3>1, KeptSame, DelayStays
  <2> QED BY <2>2, <2>3
<1> QED BY <1>1, <1>2, <1>3, <1>4

LEMMA DelayNext ==
    ASSUME ShortDelays
    PROVE  IInv /\ DelayInv /\ [Next]_vars => DelayInv'
<1> SUFFICES ASSUME IInv, DelayInv, [Next]_vars PROVE DelayInv'
  OBVIOUS
<1>1. CASE Halt \/ UNCHANGED vars
  <2>1. qkey' = qkey /\ UNCHANGED clockVars BY <1>1 DEF Halt, vars, schedVars
  <2> QED BY <2>1, KeptSame, DelayStays
<1> QED BY <1>1, SchedDelay, ClockDelay, SemDelay, MsgDelay, ProcessDelay DEF Next

LEMMA DelayInit == Init => DelayInv
BY DEF Init, SchedInit, ClockInit, DelayInv, DelaysRespected

(* Nobody's delay ends early, whatever mix of sleeps, timed receives,      *)
(* messages, kills and priorities: while ticks of it are left, the process *)
(* is on the delta list and the keys up to its own come to no less.  It    *)
(* takes delays that are not negative as insertd()'s int32 keys.           *)
THEOREM DelaysHold ==
    ASSUME ShortDelays
    PROVE  Spec => []DelaysRespected
<1>1. DelayInv => DelaysRespected BY DEF DelayInv
<1> QED BY <1>1, KernelInvariant, DelayInit, DelayNext, PTL DEF Spec

----------------------------------------------------------------------------
(***************************************************************************)
(* Lab 3: the processes that wait to send.                                 *)
(***************************************************************************)
SndSet(st, f, r) == {p \in Pid : st[p] = "SND" /\ f[p].arg = r}

Awake == {"CURR", "READY", "SUSP"}

(* A process in PR_SND is inside sendb(), on the list of the process it    *)
(* sends to, and nobody sends to a free slot.                              *)
Senders ==
    /\ DOMAIN receivelist = Pid
    /\ \A r \in Pid : Lists(receivelist[r], SndSet(prstate, frame, r))
    /\ \A p \in Pid : prstate[p] = "SND" => frame[p].at = "sendb"
    /\ \A p \in Pid : frame[p].at = "sendb" =>
           frame[p].arg \in Pid /\ prstate[frame[p].arg] # "FREE"

(* A process inside receiveb() is blocked there, or has a message to take; *)
(* no free slot has one.                                                   *)
InReceiveb ==
    \A p \in Pid :
        /\ frame[p].at = "receiveb" =>
               /\ prstate[p] \in Awake \cup {"RECV", "FREE"}
               /\ prstate[p] \in Awake => prhasmsg[p]
        /\ prstate[p] = "FREE" => ~prhasmsg[p]

(* Where senders wait, the mailbox is full or a released sender will look. *)
Releases ==
    \A r \in Pid \ bypassed :
        receivelist[r] # <<>> =>
            \/ prhasmsg[r]
            \/ \E p \in Pid : /\ frame[p].at = "sendb" /\ frame[p].arg = r
                             /\ prstate[p] \in Awake

(* Nobody sleeps on a full mailbox whom a released sender did not leave so. *)
Woken == \A r \in Pid \ unwoken : ~(prhasmsg[r] /\ Asleep(r))

(* What a sender was released with has not been stored, and is the last    *)
(* message it sent, for which it waited.                                   *)
Letters ==
    /\ sent \in Seq([from : Pid, to : Pid])
    /\ stored \subseteq DOMAIN sent
    /\ \A p \in Pid : frame[p].at = "sendb" =>
           /\ frame[p].num \in (DOMAIN sent \ stored) \cap waited
           /\ sent[frame[p].num] = [from |-> p, to |-> frame[p].arg]
           /\ \A m \in DOMAIN sent : sent[m].from = p => m <= frame[p].num

(* What is in a mailbox was sent to its owner, after whatever its owner    *)
(* has received from the same sender, and from anybody if its own sender   *)
(* did not wait.                                                           *)
Mail ==
    /\ prmsg \in [Pid -> Nat]
    /\ got \in Seq([msg : Nat, by : Pid])
    /\ \A r \in Pid : prhasmsg[r] =>
           /\ prmsg[r] \in stored /\ sent[prmsg[r]].to = r
           /\ \A j \in DOMAIN got :
                  /\ got[j].msg # prmsg[r]
                  /\ sent[got[j].msg] = sent[prmsg[r]] => got[j].msg < prmsg[r]
                  /\ got[j].by = r /\ prmsg[r] \notin waited => got[j].msg < prmsg[r]
    /\ \A j \in DOMAIN got : got[j].msg \in stored

IPCInv ==
    Senders /\ InReceiveb /\ Releases /\ Woken /\ Letters /\ Mail /\ ReceivedInOrder

(* The current process goes on at g, and the others are as a resched()     *)
(* with the states st leaves them.                                         *)
Goes(st, g) == Moved(st) /\ frame' = [frame EXCEPT ![currpid] = g]

LEMMA IPCFrames ==
    ASSUME NEW point \in {"sendb", "receiveb", "recvtime"}, NEW x \in Nat, NEW n \in Nat
    PROVE  /\ Frame(point, x, n) \in FrameType /\ Frame(point, x, n).at = point
           /\ Frame(point, x, n).arg = x /\ Frame(point, x, n).num = n
           /\ point \notin Busy /\ point # "kill"
BY DEF Frame, FrameType, Points, Busy

(* sendb() to an empty mailbox is send(). *)
LEMMA SendbDirectMoves ==
    ASSUME IInv, NEW p \in Pid, SendbDirect(p)
    PROVE  IInv' /\ Goes(Told(p), frame[currpid])
<1> USE CallFacts
<1>1. /\ frame[currpid].at = "user" /\ Deliver(p)
      /\ UNCHANGED <<tableVars, frame, semVars>>
  BY DEF SendbDirect, Sending
<1>2. Moved(Told(p)) BY <1>1, DeliverTold
<1>3. /\ Scheduled' /\ Sleepers' /\ defer' = defer
      /\ \A sems, t : WaitSet(prstate', sems, t) = WaitSet(prstate, sems, t)
      /\ remaining' \in [Pid -> Nat] /\ prhasmsg' \in [Pid -> BOOLEAN]
  BY <1>1, DeliverSafe
<1>4. Tables' BY <1>1, <1>3 DEF IInv, Tables, tableVars, semVars
<1>5. Contexts' BY <1>1, <1>3, ContextsStay DEF IInv, Scheduled, Sched, Busy
<1>6. IInv' BY <1>1, <1>3, <1>4, <1>5, NoSemKeeps DEF semVars
<1> QED BY <1>1, <1>2, <1>6 DEF Goes

(* sendb() to a full one leaves the processor. *)
LEMMA SendbBlockMoves ==
    ASSUME IInv, Letters, NEW p \in Pid, SendbBlock(p)
    PROVE  /\ IInv'
           /\ Goes([prstate EXCEPT ![currpid] = "SND"], Frame("sendb", p, Len(sent) + 1))
<1> USE CallFacts
<1> DEFINE g == Frame("sendb", p, Len(sent) + 1)
           s == "SND"
           st == [prstate EXCEPT ![currpid] = s]
<1>1. /\ frame[currpid].at = "user" /\ currpid # NULLPROC
      /\ frame' = [frame EXCEPT ![currpid] = g] /\ Block(s, qkey)
      /\ UNCHANGED <<tableVars, semVars, clockVars, prhasmsg>>
  BY DEF SendbBlock, Sending
<1>2. p \in Nat /\ Len(sent) + 1 \in Nat BY LenProperties DEF Letters, Pid
<1>3. g \in FrameType /\ g.at \notin Busy /\ g.at # "kill" BY <1>2, IPCFrames
<1>4. s \in PrStates \ {"CURR", "READY"} /\ s \notin Waiting BY DEF PrStates, Waiting
<1> HIDE DEF g, s
<1>5. Moved(st) /\ defer' = defer BY <1>1, <1>4, BlockMoves DEF IInv
<1>6. Kept(st) BY <1>4 DEF Kept, Waiting
<1>7. Tables' BY <1>1 DEF IInv, Tables, tableVars, semVars, clockVars
<1> HIDE DEF st
<1>8. IInv' BY <1>1, <1>3, <1>5, <1>6, <1>7, PointKeeps DEF semVars, clockVars
<1> QED BY <1>1, <1>5, <1>8 DEF Goes, g, s, st

(* The second half of sendb() moves nobody. *)
LEMMA SendbResumeMoves ==
    ASSUME IInv, SendbResume
    PROVE  IInv' /\ Goes(prstate, User)
<1> USE CallFacts
<1>1. /\ frame[currpid].at = "sendb" /\ frame' = [frame EXCEPT ![currpid] = User]
      /\ UNCHANGED <<schedVars, tableVars, semVars, clockVars>>
      /\ \/ prhasmsg' = prhasmsg
         \/ prhasmsg' = [prhasmsg EXCEPT ![frame[currpid].arg] = TRUE]
  BY DEF SendbResume, At, Return
<1>2. Moved(prstate) /\ Kept(prstate) BY <1>1, StillMoved DEF schedVars
<1>3. Tables' BY <1>1 DEF IInv, Tables, tableVars, semVars, clockVars
<1>4. User.at # "kill" OBVIOUS
<1>5. IInv' BY <1>1, <1>2, <1>3, <1>4, PointKeeps DEF semVars, clockVars, schedVars
<1> QED BY <1>1, <1>2, <1>5 DEF Goes

(* receiveb() begins as receive() does. *)
LEMMA ReceivebMoves ==
    ASSUME IInv, Receiveb
    PROVE  /\ IInv'
           /\ Goes(IF prhasmsg[currpid] THEN prstate ELSE [prstate EXCEPT ![currpid] = "RECV"],
                   Frame("receiveb", 0, 0))
<1> USE CallFacts
<1> DEFINE g == Frame("receiveb", 0, 0)
           st == IF prhasmsg[currpid] THEN prstate ELSE [prstate EXCEPT ![currpid] = "RECV"]
<1>1. /\ Calling("receiveb") /\ frame' = [frame EXCEPT ![currpid] = g]
      /\ IF prhasmsg[currpid] THEN UNCHANGED schedVars ELSE Block("RECV", qkey)
      /\ UNCHANGED <<tableVars, semVars, clockVars, prhasmsg>>
  BY DEF Receiveb
<1>2. frame[currpid].at = "user" /\ currpid # NULLPROC BY <1>1
<1>3. Moved(st) /\ Kept(st) /\ defer' = defer
  <2>1. CASE prhasmsg[currpid]
    BY <1>1, <2>1, StillMoved DEF schedVars
  <2>2. CASE ~prhasmsg[currpid]
    <3>1. "RECV" \in PrStates \ {"CURR", "READY"} BY DEF PrStates
    <3> QED BY <1>1, <1>2, <2>2, <3>1, BlockMoves DEF IInv, Kept, Waiting
  <2> QED BY <2>1, <2>2
<1>4. Tables' BY <1>1 DEF IInv, Tables, tableVars, semVars, clockVars
<1>5. g \in FrameType /\ g.at \notin Busy /\ g.at # "kill" BY IPCFrames
<1> HIDE DEF g, st
<1>6. IInv' BY <1>1, <1>2, <1>3, <1>4, <1>5, PointKeeps DEF semVars, clockVars
<1> QED BY <1>1, <1>3, <1>6 DEF Goes, g, st

(* What receiveb() finds at the head of its list is a sender to release.   *)
LEMMA HeadSends ==
    ASSUME IInv, Senders, NEW r \in Pid, receivelist[r] # <<>>
    PROVE  LET p == Head(receivelist[r])
           IN  /\ p \in Pid /\ prstate[p] = "SND"
               /\ frame[p].at = "sendb" /\ frame[p].arg = r
               /\ Lists(Tail(receivelist[r]), SndSet(prstate, frame, r) \ {p})
<1>1. Lists(receivelist[r], SndSet(prstate, frame, r)) BY DEF Senders
<1>2. /\ Head(receivelist[r]) \in SndSet(prstate, frame, r)
      /\ Lists(Tail(receivelist[r]), SndSet(prstate, frame, r) \ {Head(receivelist[r])})
  BY <1>1, TailLists
<1> QED BY <1>2 DEF SndSet, Senders

LEMMA ReceivebTakeMoves ==
    ASSUME IInv, Senders, ReceivebTake
    PROVE  /\ IInv'
           /\ Goes(IF receivelist[currpid] = <<>> THEN prstate
                                                  ELSE ReadyState(Head(receivelist[currpid])),
                   User)
<1> USE CallFacts
<1> DEFINE p == Head(receivelist[currpid])
           st == IF receivelist[currpid] = <<>> THEN prstate ELSE ReadyState(p)
<1>1. /\ frame[currpid].at = "receiveb" /\ frame' = [frame EXCEPT ![currpid] = User]
      /\ prhasmsg' = [prhasmsg EXCEPT ![currpid] = FALSE]
      /\ UNCHANGED <<tableVars, semVars, clockVars>>
      /\ IF receivelist[currpid] = <<>> THEN UNCHANGED schedVars
         ELSE IF Isbadpid(p) THEN UNCHANGED schedVars ELSE Ready(p, qkey, RESCHED_YES)
  BY DEF ReceivebTake, At, Return
<1>2. Moved(st) /\ Kept(st) /\ defer' = defer
  <2>1. CASE receivelist[currpid] = <<>>
    BY <1>1, <2>1, StillMoved DEF schedVars
  <2>2. CASE receivelist[currpid] # <<>>
    <3>1. p \in Pid /\ prstate[p] = "SND" BY <2>2, HeadSends
    <3> HIDE DEF p
    <3>2. ~Isbadpid(p) BY <3>1 DEF Isbadpid
    <3>3. ReadyResched(p, qkey) BY <1>1, <2>2, <3>2 DEF Ready, RESCHED_YES
    <3>4. Moved(ReadyState(p)) /\ defer' = defer
      BY <1>1, <3>1, <3>3, ReadyReschedMoves DEF IInv
    <3>5. "SND" \in PrStates \ Waiting BY DEF PrStates, Waiting
    <3>6. Kept(ReadyState(p)) BY <3>1, <3>5, UnblockKeeps
    <3> QED BY <2>2, <3>4, <3>6
  <2> QED BY <2>1, <2>2
<1>3. Tables' BY <1>1 DEF IInv, Tables, tableVars, semVars, clockVars
<1>4. User.at # "kill" OBVIOUS
<1> HIDE DEF st
<1>5. IInv' BY <1>1, <1>2, <1>3, <1>4, PointKeeps DEF semVars, clockVars
<1> QED BY <1>1, <1>2, <1>5 DEF Goes, st

LEMMA RecvtimeMoves ==
    ASSUME IInv, NEW maxwait \in MaxWaits, Recvtime(maxwait), UNCHANGED semVars
    PROVE  /\ IInv'
           /\ Goes(IF prhasmsg[currpid] THEN prstate ELSE [prstate EXCEPT ![currpid] = "RECTIM"],
                   Frame("recvtime", 0, 0))
<1> USE CallFacts
<1> DEFINE keys == InsertdKeys(sleepq, qkey, currpid, Int32(maxwait))
<1>1. /\ Calling("recvtime") /\ frame' = [frame EXCEPT ![currpid] = Frame("recvtime", 0, 0)]
      /\ IF prhasmsg[currpid] THEN UNCHANGED schedVars ELSE Block("RECTIM", keys)
  BY DEF Recvtime, SleepFor
<1>2. DOMAIN keys = Pid BY DEF InsertdKeys
<1> HIDE DEF keys
<1>3. CASE prhasmsg[currpid]
  <2>1. Moved(prstate) BY <1>1, <1>3, StillMoved DEF schedVars
  <2> QED BY <1>1, <1>3, <2>1, RecvtimeInv DEF Goes
<1>4. CASE ~prhasmsg[currpid]
  <2>1. "RECTIM" \in PrStates \ {"CURR", "READY"} BY DEF PrStates
  <2>2. Moved([prstate EXCEPT ![currpid] = "RECTIM"])
    BY <1>1, <1>2, <1>4, <2>1, BlockMoves DEF IInv
  <2> QED BY <1>1, <1>4, <2>2, RecvtimeInv DEF Goes
<1> QED BY <1>3, <1>4

LEMMA TimedTakeMoves ==
    ASSUME IInv, TimedTake
    PROVE  IInv' /\ Goes(prstate, User)
<1>1. /\ RecvtimeTake /\ UNCHANGED semVars /\ UNCHANGED schedVars
      /\ frame' = [frame EXCEPT ![currpid] = User]
  BY DEF TimedTake, RecvtimeTake, Return
<1>2. Moved(prstate) BY <1>1, StillMoved DEF schedVars
<1> QED BY <1>1, <1>2, TakeInv DEF Goes

(* senda() wakes a process in recvtime() as send() does. *)
LEMMA SendaMoves ==
    ASSUME IInv, NEW p \in Pid, Senda(p)
    PROVE  /\ IInv'
           /\ Goes(IF prstate[p] = "RECTIM" THEN ReadyState(p) ELSE prstate, frame[currpid])
<1> USE CallFacts
<1>1. /\ frame[currpid].at = "user"
      /\ UNCHANGED <<tableVars, frame, semVars, prhasmsg>>
      /\ IF prstate[p] = "RECTIM"
         THEN Unsleep(p) /\ ReadyResched(p, UnsleepKeys(sleepq, qkey, p))
         ELSE UNCHANGED <<schedVars, clockVars>>
  BY DEF Senda
<1>2. /\ Scheduled' /\ Sleepers' /\ defer' = defer
      /\ \A sems, t : WaitSet(prstate', sems, t) = WaitSet(prstate, sems, t)
      /\ remaining' \in [Pid -> Nat]
      /\ Moved(IF prstate[p] = "RECTIM" THEN ReadyState(p) ELSE prstate)
  <2>1. CASE prstate[p] = "RECTIM"
    BY <1>1, <2>1, WokenSafe
  <2>2. CASE prstate[p] # "RECTIM"
    <3>1. UNCHANGED <<schedVars, clockVars>> BY <1>1, <2>2
    <3>2. Moved(prstate) BY <3>1, StillMoved DEF schedVars
    <3>3. /\ Scheduled' /\ Sleepers' /\ defer' = defer
          /\ \A sems, t : WaitSet(prstate', sems, t) = WaitSet(prstate, sems, t)
          /\ remaining' \in [Pid -> Nat]
      BY <3>1 DEF IInv, Scheduled, Sched, Sleepers, Tables, schedVars, clockVars
    <3> QED BY <2>2, <3>2, <3>3
  <2> QED BY <2>1, <2>2
<1>3. Tables' BY <1>1, <1>2 DEF IInv, Tables, tableVars, semVars
<1>4. Contexts' BY <1>1, <1>2, ContextsStay DEF IInv, Scheduled, Sched, Busy
<1>5. IInv' BY <1>1, <1>2, <1>3, <1>4, NoSemKeeps DEF semVars
<1> QED BY <1>1, <1>2, <1>5 DEF Goes

(* senda() without a call-back stops the system where it is. *)
LEMMA SendaCrashInv ==
    ASSUME IInv, NEW p \in Pid, SendaCrash(p)
    PROVE  IInv' /\ UNCHANGED <<prstate, frame, prhasmsg, ipcVars>>
<1>1. /\ halted' = TRUE
      /\ UNCHANGED <<schedVars, frame, prprio, prparent, prcount, nextpid, clockVars,
                     semVars, prhasmsg, ipcVars>>
  BY DEF SendaCrash
<1>2. IInv'
  BY <1>1 DEF schedVars, semVars, clockVars, IInv, Tables, Scheduled, Sched, Sleepers,
              Waiters, Contexts, Frames, SemCounts, Resetting, FreeSems, Deleting
<1> QED BY <1>1, <1>2 DEF schedVars

(* Every step of lab 3 keeps the invariant of the kernel. *)
LEMMA IPCKeepsIInv == IInv /\ IPCInv /\ [IPCNext]_<<vars, ipcVars>> => IInv'
<1> SUFFICES ASSUME IInv, IPCInv, [IPCNext]_<<vars, ipcVars>> PROVE IInv'
  OBVIOUS
<1>1. Senders /\ Letters BY DEF IPCInv
<1>2. Mailboxes \subseteq Pid BY IPCAssumption
<1>3. CASE IPCCall
  <2>1. ASSUME NEW maxwait \in MaxWaits, Recvtime(maxwait), UNCHANGED <<semVars, ipcVars>>
        PROVE  IInv'
    BY <2>1, RecvtimeMoves
  <2>2. ASSUME Registercb PROVE IInv'
    BY <2>2, StutterInv DEF Registercb, vars
  <2>3. ASSUME NEW p \in Pid, SendaCrash(p) PROVE IInv'
    BY <2>3, SendaCrashInv
  <2> QED
    BY <1>1, <1>2, <1>3, <2>1, <2>2, <2>3, SendbDirectMoves, SendbBlockMoves, SendbResumeMoves,
       ReceivebMoves, ReceivebTakeMoves, TimedTakeMoves, SendaMoves DEF IPCCall
<1>4. ASSUME NEW p \in Pid, NEW prio \in Prios, NEW stack \in Stacks,
             CreateWithList(p, prio, stack)
      PROVE  IInv'
  BY <1>4, CreateInv, IPCAssumption DEF CreateWithList
<1>5. CASE SchedCall /\ UNCHANGED <<semVars, clockVars, prhasmsg, ipcVars>>
  BY <1>5, NextInv DEF Next
<1>6. CASE ClockStep /\ UNCHANGED <<semVars, prhasmsg, ipcVars>>
  BY <1>6, NextInv DEF Next
<1>7. CASE (Halt /\ UNCHANGED ipcVars) \/ UNCHANGED <<vars, ipcVars>>
  BY <1>7, StutterInv DEF Halt
<1> QED BY <1>3, <1>4, <1>5, <1>6, <1>7 DEF IPCNext

----------------------------------------------------------------------------
(***************************************************************************)
(* The parts of IPCInv that a step leaves alone.                           *)
(***************************************************************************)

(* Nobody starts or stops waiting to send, and no slot becomes free.       *)
SameStates ==
    \A p \in Pid :
        /\ prstate'[p] = "SND" <=> prstate[p] = "SND"
        /\ prstate'[p] = "FREE" => prstate[p] = "FREE"
        /\ frame[p].at = "sendb" /\ prstate[p] \in Awake => prstate'[p] \in Awake

(* Nobody enters or leaves sendb(). *)
SameSendb ==
    \A p \in Pid : frame[p].at = "sendb" \/ frame'[p].at = "sendb" => frame'[p] = frame[p]

LEMMA OneSteady ==
    ASSUME IInv, NEW p \in Pid, NEW s, Moved([prstate EXCEPT ![p] = s]),
           \/ s = prstate[p]
           \/ /\ {s, prstate[p]} \cap {"SND", "FREE"} = {}
              /\ s \in Awake \/ frame[p].at # "sendb"
    PROVE  SameStates
<1> USE CallFacts
<1>1. \A q \in Pid : Alike(IF q = p THEN s ELSE prstate[q], prstate'[q])
  BY DEF Moved
<1>2. ASSUME NEW q \in Pid
      PROVE  /\ prstate'[q] = "SND" <=> prstate[q] = "SND"
             /\ prstate'[q] = "FREE" => prstate[q] = "FREE"
             /\ frame[q].at = "sendb" /\ prstate[q] \in Awake => prstate'[q] \in Awake
  <2>1. CASE q = p
    <3>1. Alike(s, prstate'[q]) BY <1>1, <2>1
    <3> QED BY <2>1, <3>1 DEF Alike, Runnable, Awake
  <2>2. CASE q # p
    <3>1. Alike(prstate[q], prstate'[q]) BY <1>1, <2>2
    <3> QED BY <3>1 DEF Alike, Runnable, Awake
  <2> QED BY <2>1, <2>2
<1> QED BY <1>2 DEF SameStates

LEMMA StillSteady ==
    ASSUME IInv, Moved(prstate)
    PROVE  SameStates
<1>1. [prstate EXCEPT ![currpid] = prstate[currpid]] = prstate /\ currpid \in Pid
  BY CallFacts
<1> QED BY <1>1, OneSteady

LEMMA FrameSteady ==
    ASSUME IInv, NEW g, frame' = [frame EXCEPT ![currpid] = g],
           g = frame[currpid] \/ "sendb" \notin {g.at, frame[currpid].at}
    PROVE  SameSendb
BY CallFacts DEF SameSendb

LEMMA SendersStay ==
    ASSUME Senders, SameStates, receivelist' = receivelist,
           \A p \in Pid : prstate[p] = "SND" \/ frame'[p].at = "sendb" => frame'[p] = frame[p]
    PROVE  Senders'
<1>1. \A p \in Pid : prstate'[p] = "SND" <=> prstate[p] = "SND" BY DEF SameStates
<1>2. \A r : SndSet(prstate', frame', r) = SndSet(prstate, frame, r)
  BY <1>1 DEF SndSet
<1> QED BY <1>1, <1>2 DEF Senders, SameStates

LEMMA ReleaseStays ==
    ASSUME Releases, SameStates, SameSendb, receivelist' = receivelist,
           bypassed \subseteq bypassed',
           \A r \in Pid \ bypassed' : prhasmsg[r] => prhasmsg'[r]
    PROVE  Releases'
BY DEF Releases, SameStates, SameSendb, Awake

LEMMA WokenStep ==
    ASSUME Woken, NEW st, Moved(st), unwoken \subseteq unwoken',
           \A q \in Pid \ unwoken' :
               prhasmsg'[q] /\ st[q] \in {"RECV", "RECTIM"} =>
                   prhasmsg[q] /\ prstate[q] \in {"RECV", "RECTIM"}
    PROVE  Woken'
<1>1. \A q \in Pid : Alike(st[q], prstate'[q]) BY DEF Moved
<1> QED BY <1>1 DEF Woken, Asleep, Alike, Runnable

LEMMA HistoryStays ==
    ASSUME Letters, Mail, ReceivedInOrder, SameSendb,
           UNCHANGED <<sent, stored, got, waited, prmsg, prhasmsg>>
    PROVE  Letters' /\ Mail' /\ ReceivedInOrder'
<1>1. Letters' BY DEF Letters, SameSendb
<1>2. Mail' BY DEF Mail
<1>3. ReceivedInOrder' BY DEF ReceivedInOrder
<1> QED BY <1>1, <1>2, <1>3

LEMMA ReceivebStep ==
    ASSUME IInv, InReceiveb, NEW st, NEW g, Goes(st, g),
           \A q \in Pid \ {currpid} :
               /\ st[q] = prstate[q] \/ frame[q].at # "receiveb" \/ (st[q] \in Awake /\ prhasmsg'[q])
               /\ st[q] = "FREE" => prstate[q] = "FREE"
               /\ prhasmsg[q] => prhasmsg'[q]
               /\ prhasmsg'[q] => prhasmsg[q] \/ prstate[q] # "FREE",
           g.at = "receiveb" => (st[currpid] \in Awake /\ prhasmsg'[currpid]) \/ st[currpid] = "RECV",
           st[currpid] # "FREE"
    PROVE  InReceiveb'
<1> USE CallFacts
<1>1. \A q \in Pid : /\ Alike(st[q], prstate'[q])
                     /\ frame'[q] = IF q = currpid THEN g ELSE frame[q]
  BY DEF Goes, Moved
<1>2. ASSUME NEW q \in Pid
      PROVE  /\ frame'[q].at = "receiveb" =>
                    /\ prstate'[q] \in Awake \cup {"RECV", "FREE"}
                    /\ prstate'[q] \in Awake => prhasmsg'[q]
             /\ prstate'[q] = "FREE" => ~prhasmsg'[q]
  <2>1. Alike(st[q], prstate'[q]) BY <1>1
  <2>2. /\ frame[q].at = "receiveb" =>
               /\ prstate[q] \in Awake \cup {"RECV", "FREE"}
               /\ prstate[q] \in Awake => prhasmsg[q]
        /\ prstate[q] = "FREE" => ~prhasmsg[q]
    BY DEF InReceiveb
  <2>3. CASE q = currpid
    <3>1. frame'[q] = g BY <1>1, <2>3
    <3> QED BY <2>1, <2>3, <3>1 DEF Alike, Runnable, Awake
  <2>4. CASE q # currpid
    <3>1. frame'[q] = frame[q] BY <1>1, <2>4
    <3> QED BY <2>1, <2>2, <2>4, <3>1 DEF Alike, Runnable, Awake
  <2> QED BY <2>3, <2>4
<1> QED BY <1>2 DEF InReceiveb

(* A step that changes no mailbox, no list and no history, and puts nobody *)
(* inside sendb() or receiveb().                                           *)
LEMMA IPCPlain ==
    ASSUME IInv, IPCInv, PlainStep, UNCHANGED ipcVars
    PROVE  IPCInv'
<1> USE CallFacts
<1>1. PICK p \in Pid, s \in PrStates :
        /\ Moved([prstate EXCEPT ![p] = s])
        /\ \/ s = prstate[p]
           \/ s = "READY" /\ prstate[p] \in {"SUSP", "WAIT", "SLEEP", "RECTIM"}
           \/ s = "SUSP" /\ prstate[p] = "READY"
           \/ s \in {"SUSP", "WAIT", "SLEEP"} /\ p = currpid /\ frame[p] = User
  BY DEF PlainStep, OneMoves
<1>2. PICK g \in FrameType :
        /\ frame' = [frame EXCEPT ![currpid] = g]
        /\ g = frame[currpid] \/ {g.at, frame[currpid].at} \cap Apart = {}
  BY DEF PlainStep, FramePlain
<1> DEFINE st == [prstate EXCEPT ![p] = s]
<1>3. UNCHANGED <<receivelist, prmsg, sent, stored, got, waited, bypassed, unwoken, prhasmsg>>
  BY DEF PlainStep, ipcVars, history
<1>4. SameStates
  <2>1. User.at # "sendb" OBVIOUS
  <2>2. \/ s = prstate[p]
        \/ /\ {s, prstate[p]} \cap {"SND", "FREE"} = {}
           /\ s \in Awake \/ frame[p].at # "sendb"
    BY <1>1, <2>1 DEF Awake
  <2> QED BY <1>1, <2>2, OneSteady
<1>5. SameSendb BY <1>2, FrameSteady DEF Apart
<1>6. Senders' BY <1>3, <1>4, <1>5, SendersStay DEF IPCInv, Senders, SameSendb
<1>7. Releases' BY <1>3, <1>4, <1>5, ReleaseStays DEF IPCInv
<1>8. Letters' /\ Mail' /\ ReceivedInOrder' BY <1>3, <1>5, HistoryStays DEF IPCInv
<1>9. InReceiveb'
  <2>1. \A q \in Pid : st[q] = IF q = p THEN s ELSE prstate[q] OBVIOUS
  <2>2. InReceiveb BY DEF IPCInv
  <2>3. \A q \in Pid \ {currpid} :
          /\ st[q] = prstate[q] \/ frame[q].at # "receiveb" \/ (st[q] \in Awake /\ prhasmsg'[q])
          /\ st[q] = "FREE" => prstate[q] = "FREE"
    BY <1>1, <1>3, <2>1, <2>2 DEF InReceiveb, Awake
  <2>4. g.at = "receiveb" => st[currpid] \in Awake /\ prhasmsg'[currpid]
    <3>1. g.at = "receiveb" => frame[currpid] = g BY <1>2 DEF Apart
    <3> QED BY <1>1, <1>3, <2>1, <2>2, <3>1 DEF InReceiveb, Awake
  <2>5. st[currpid] # "FREE" BY <1>1, <2>1
  <2>6. Goes(st, g) BY <1>1, <1>2 DEF Goes
  <2> HIDE DEF st
  <2> QED BY <1>3, <2>2, <2>3, <2>4, <2>5, <2>6, ReceivebStep
<1>10. Woken'
  <2>1. \A q \in Pid : st[q] = IF q = p THEN s ELSE prstate[q] OBVIOUS
  <2> HIDE DEF st
  <2>2. Woken /\ Moved(st) BY <1>1 DEF IPCInv, st
  <2> QED BY <1>1, <1>3, <2>1, <2>2, WokenStep
<1> QED BY <1>6, <1>7, <1>8, <1>9, <1>10 DEF IPCInv

(* The two that put a process inside receiveb() and recvtime(), and        *)
(* senda(), which wakes one that is there.                                 *)
LEMMA ReceivebIPC ==
    ASSUME IInv, IPCInv, Receiveb
    PROVE  IPCInv'
<1> USE CallFacts
<1> DEFINE g == Frame("receiveb", 0, 0)
           s == IF prhasmsg[currpid] THEN "CURR" ELSE "RECV"
           st == [prstate EXCEPT ![currpid] = s]
<1>1. frame[currpid].at = "user" /\ UNCHANGED <<prhasmsg, ipcVars>>
  BY DEF Receiveb
<1>2. UNCHANGED <<receivelist, prmsg, sent, stored, got, waited, bypassed, unwoken, prhasmsg>>
  BY <1>1 DEF ipcVars, history
<1>3. g.at = "receiveb" BY IPCFrames
<1>4. (IF prhasmsg[currpid] THEN prstate ELSE [prstate EXCEPT ![currpid] = "RECV"]) = st
  OBVIOUS
<1>5. Goes(st, g) BY <1>4, ReceivebMoves
<1>6. s \in {"CURR", "RECV"} /\ (s = "CURR" <=> prhasmsg[currpid]) /\ st[currpid] = s OBVIOUS
<1>7. \A q \in Pid \ {currpid} : st[q] = prstate[q] OBVIOUS
<1> HIDE DEF g, s
<1>8. SameStates BY <1>1, <1>5, <1>6, OneSteady DEF Goes
<1>9. SameSendb BY <1>1, <1>3, <1>5, FrameSteady DEF Goes
<1>10. Senders' BY <1>2, <1>8, <1>9, SendersStay DEF IPCInv, Senders, SameSendb
<1>11. Releases' BY <1>2, <1>8, <1>9, ReleaseStays DEF IPCInv
<1>12. Letters' /\ Mail' /\ ReceivedInOrder' BY <1>2, <1>9, HistoryStays DEF IPCInv
<1>13. InReceiveb'
  <2>1. InReceiveb BY DEF IPCInv
  <2>2. \A q \in Pid : prhasmsg[q] => prstate[q] # "FREE" BY <2>1 DEF InReceiveb
  <2> HIDE DEF st
  <2> QED BY <1>2, <1>5, <1>6, <1>7, <2>1, <2>2, ReceivebStep DEF Awake
<1>14. Woken'
  <2> HIDE DEF st
  <2> QED BY <1>2, <1>5, <1>6, <1>7, WokenStep DEF IPCInv, Goes
<1> QED BY <1>10, <1>11, <1>12, <1>13, <1>14 DEF IPCInv

LEMMA RecvtimeIPC ==
    ASSUME IInv, IPCInv, NEW maxwait \in MaxWaits, Recvtime(maxwait),
           UNCHANGED <<semVars, ipcVars>>
    PROVE  IPCInv'
<1> USE CallFacts
<1> DEFINE g == Frame("recvtime", 0, 0)
           s == IF prhasmsg[currpid] THEN "CURR" ELSE "RECTIM"
           st == [prstate EXCEPT ![currpid] = s]
<1>1. frame[currpid].at = "user" /\ UNCHANGED prhasmsg
  BY DEF Recvtime
<1>2. UNCHANGED <<receivelist, prmsg, sent, stored, got, waited, bypassed, unwoken, prhasmsg>>
  BY <1>1 DEF ipcVars, history
<1>3. g.at = "recvtime" BY IPCFrames
<1>4. (IF prhasmsg[currpid] THEN prstate ELSE [prstate EXCEPT ![currpid] = "RECTIM"]) = st
  OBVIOUS
<1>5. Goes(st, g) BY <1>4, RecvtimeMoves
<1>6. s \in {"CURR", "RECTIM"} /\ (s = "CURR" <=> prhasmsg[currpid]) /\ st[currpid] = s OBVIOUS
<1>7. \A q \in Pid \ {currpid} : st[q] = prstate[q] OBVIOUS
<1> HIDE DEF g, s
<1>8. SameStates BY <1>1, <1>5, <1>6, OneSteady DEF Goes
<1>9. SameSendb BY <1>1, <1>3, <1>5, FrameSteady DEF Goes
<1>10. Senders' BY <1>2, <1>8, <1>9, SendersStay DEF IPCInv, Senders, SameSendb
<1>11. Releases' BY <1>2, <1>8, <1>9, ReleaseStays DEF IPCInv
<1>12. Letters' /\ Mail' /\ ReceivedInOrder' BY <1>2, <1>9, HistoryStays DEF IPCInv
<1>13. InReceiveb'
  <2>1. InReceiveb BY DEF IPCInv
  <2>2. \A q \in Pid : prhasmsg[q] => prstate[q] # "FREE" BY <2>1 DEF InReceiveb
  <2> HIDE DEF st
  <2> QED BY <1>2, <1>3, <1>5, <1>6, <1>7, <2>1, <2>2, ReceivebStep DEF Awake
<1>14. Woken'
  <2> HIDE DEF st
  <2> QED BY <1>2, <1>5, <1>6, <1>7, WokenStep DEF IPCInv, Goes
<1> QED BY <1>10, <1>11, <1>12, <1>13, <1>14 DEF IPCInv

LEMMA SendaIPC ==
    ASSUME IInv, IPCInv, NEW p \in Pid, Senda(p)
    PROVE  IPCInv'
<1> USE CallFacts
<1> DEFINE g == frame[currpid]
           s == IF prstate[p] = "RECTIM" THEN "READY" ELSE prstate[p]
           st == [prstate EXCEPT ![p] = s]
<1>1. g.at = "user" /\ UNCHANGED <<prhasmsg, ipcVars>>
  BY DEF Senda
<1>2. UNCHANGED <<receivelist, prmsg, sent, stored, got, waited, bypassed, unwoken, prhasmsg>>
  BY <1>1 DEF ipcVars, history
<1>3. (IF prstate[p] = "RECTIM" THEN ReadyState(p) ELSE prstate) = st
  BY DEF ReadyState
<1>4. Goes(st, g) BY <1>3, SendaMoves
<1>5. s = prstate[p] \/ (s = "READY" /\ prstate[p] = "RECTIM") OBVIOUS
<1>6. \A q \in Pid : st[q] = IF q = p THEN s ELSE prstate[q] OBVIOUS
<1> HIDE DEF g, s
<1>7. SameStates BY <1>4, <1>5, OneSteady DEF Goes, Awake
<1>8. SameSendb BY <1>4, FrameSteady DEF Goes, g
<1>9. Senders' BY <1>2, <1>7, <1>8, SendersStay DEF IPCInv, Senders, SameSendb
<1>10. Releases' BY <1>2, <1>7, <1>8, ReleaseStays DEF IPCInv
<1>11. Letters' /\ Mail' /\ ReceivedInOrder' BY <1>2, <1>8, HistoryStays DEF IPCInv
<1>12. InReceiveb'
  <2>1. InReceiveb BY DEF IPCInv
  <2>2. \A q \in Pid : prhasmsg[q] => prstate[q] # "FREE" BY <2>1 DEF InReceiveb
  <2>3. frame[p].at = "receiveb" => prstate[p] # "RECTIM" BY <2>1 DEF InReceiveb, Awake
  <2>4. \A q \in Pid : st[q] = prstate[q] \/ frame[q].at # "receiveb" BY <1>5, <1>6, <2>3
  <2>5. \A q \in Pid : st[q] = "FREE" => prstate[q] = "FREE" BY <1>5, <1>6
  <2> HIDE DEF st
  <2>6. g.at # "receiveb" /\ st[currpid] # "FREE" BY <1>1, <2>5
  <2> QED BY <1>2, <1>4, <2>1, <2>2, <2>4, <2>5, <2>6, ReceivebStep
<1>13. Woken'
  <2> HIDE DEF st
  <2> QED BY <1>2, <1>4, <1>5, <1>6, WokenStep DEF IPCInv, Goes
<1> QED BY <1>9, <1>10, <1>11, <1>12, <1>13 DEF IPCInv

----------------------------------------------------------------------------
(***************************************************************************)
(* The history of messages.                                                *)
(***************************************************************************)
LEMMA SentIn ==
    ASSUME Letters, NEW m \in DOMAIN sent
    PROVE  sent[m].from \in Pid /\ sent[m].to \in Pid
<1> DEFINE T == [from : Pid, to : Pid]
<1>1. sent \in Seq(T) BY DEF Letters
<1> HIDE DEF T
<1>2. sent[m] \in T BY <1>1, ElementOfSeq
<1> QED BY <1>2 DEF T

LEMMA SentGrows ==
    ASSUME Letters, NEW p \in Pid, currpid \in Pid, sent' = Append(sent, Message(p))
    PROVE  /\ Len(sent) \in Nat /\ DOMAIN sent = 1 .. Len(sent)
           /\ sent' \in Seq([from : Pid, to : Pid])
           /\ DOMAIN sent' = 1 .. Len(sent) + 1
           /\ \A m \in DOMAIN sent : sent'[m] = sent[m]
           /\ sent'[Len(sent) + 1] = [from |-> currpid, to |-> p]
<1> DEFINE T == [from : Pid, to : Pid]
           m == [from |-> currpid, to |-> p]
<1>1. sent \in Seq(T) /\ m \in T /\ sent' = Append(sent, m) BY DEF Letters, Message
<1> HIDE DEF T, m
<1>2. /\ Append(sent, m) \in Seq(T) /\ Len(Append(sent, m)) = Len(sent) + 1
      /\ \A i \in 1 .. Len(sent) : Append(sent, m)[i] = sent[i]
      /\ Append(sent, m)[Len(sent) + 1] = m
  BY <1>1, AppendProperties
<1>3. Len(sent) \in Nat /\ DOMAIN sent = 1 .. Len(sent) BY <1>1, LenProperties
<1>4. DOMAIN sent' = 1 .. Len(sent') BY <1>1, <1>2, LenProperties
<1> QED BY <1>1, <1>2, <1>3, <1>4 DEF T, m

LEMMA GotGrows ==
    ASSUME Mail, currpid \in Pid,
           got' = Append(got, [msg |-> prmsg[currpid], by |-> currpid])
    PROVE  /\ Len(got) \in Nat /\ DOMAIN got = 1 .. Len(got)
           /\ got' \in Seq([msg : Nat, by : Pid])
           /\ DOMAIN got' = 1 .. Len(got) + 1
           /\ \A j \in DOMAIN got : got'[j] = got[j]
           /\ got'[Len(got) + 1].msg = prmsg[currpid] /\ got'[Len(got) + 1].by = currpid
<1> DEFINE T == [msg : Nat, by : Pid]
           g == [msg |-> prmsg[currpid], by |-> currpid]
<1>1. got \in Seq(T) /\ g \in T /\ got' = Append(got, g) BY DEF Mail
<1>2. g.msg = prmsg[currpid] /\ g.by = currpid OBVIOUS
<1> HIDE DEF T, g
<1>3. /\ Append(got, g) \in Seq(T) /\ Len(Append(got, g)) = Len(got) + 1
      /\ \A i \in 1 .. Len(got) : Append(got, g)[i] = got[i]
      /\ Append(got, g)[Len(got) + 1] = g
  BY <1>1, AppendProperties
<1>4. Len(got) \in Nat /\ DOMAIN got = 1 .. Len(got) BY <1>1, LenProperties
<1>5. DOMAIN got' = 1 .. Len(got') BY <1>1, <1>3, LenProperties
<1> QED BY <1>1, <1>2, <1>3, <1>4, <1>5 DEF T

(* A message that is put in an empty mailbox was never stored, and comes   *)
(* after those its recipient has from the same sender.                     *)
LEMMA MailStored ==
    ASSUME Letters, Mail, ReceivedInOrder,
           NEW p \in Pid, ~prhasmsg[p], prhasmsg \in [Pid -> BOOLEAN],
           NEW m \in Nat, m \notin stored, m \in DOMAIN sent', sent'[m].to = p,
           \A n \in DOMAIN sent : n \in DOMAIN sent' /\ sent'[n] = sent[n],
           \A n \in stored : sent'[n] = sent'[m] => n < m,
           m \in waited \/ \A n \in stored : n < m, waited' = waited,
           stored' = stored \cup {m}, got' = got,
           prmsg' = [prmsg EXCEPT ![p] = m],
           prhasmsg' = [prhasmsg EXCEPT ![p] = TRUE]
    PROVE  Mail' /\ ReceivedInOrder'
<1>1. /\ prmsg' \in [Pid -> Nat] /\ prmsg'[p] = m /\ prhasmsg'[p]
      /\ \A r \in Pid : r # p => prmsg'[r] = prmsg[r] /\ prhasmsg'[r] = prhasmsg[r]
  BY DEF Mail
<1>2. \A j \in DOMAIN got : got[j].msg \in stored BY DEF Mail
<1>3. \A n \in stored : n \in DOMAIN sent' /\ sent'[n] = sent[n] BY DEF Letters
<1>4. ASSUME NEW r \in Pid, prhasmsg'[r]
      PROVE  /\ prmsg'[r] \in stored' /\ sent'[prmsg'[r]].to = r
             /\ \A j \in DOMAIN got :
                    /\ got[j].msg # prmsg'[r]
                    /\ sent'[got[j].msg] = sent'[prmsg'[r]] => got[j].msg < prmsg'[r]
                    /\ got[j].by = r /\ prmsg'[r] \notin waited => got[j].msg < prmsg'[r]
  <2>1. CASE r = p BY <1>1, <1>2, <2>1
  <2>2. CASE r # p
    <3>1. prmsg'[r] = prmsg[r] /\ prhasmsg[r] BY <1>1, <1>4, <2>2
    <3>2. prmsg[r] \in stored /\ sent[prmsg[r]].to = r
      BY <3>1 DEF Mail
    <3>3. \A j \in DOMAIN got :
             /\ got[j].msg # prmsg[r]
             /\ sent[got[j].msg] = sent[prmsg[r]] => got[j].msg < prmsg[r]
             /\ got[j].by = r /\ prmsg[r] \notin waited => got[j].msg < prmsg[r]
      BY <3>1 DEF Mail
    <3> QED BY <1>2, <1>3, <3>1, <3>2, <3>3
  <2> QED BY <2>1, <2>2
<1>5. Mail' BY <1>1, <1>2, <1>4 DEF Mail
<1>6. ASSUME NEW n \in stored'
      PROVE  \/ \E i \in DOMAIN got : got[i].msg = n
             \/ prhasmsg'[sent'[n].to] /\ prmsg'[sent'[n].to] = n
  <2>1. CASE n = m BY <1>1, <2>1
  <2>2. CASE n \in stored /\ ~(\E i \in DOMAIN got : got[i].msg = n)
    <3>1. prhasmsg[sent[n].to] /\ prmsg[sent[n].to] = n BY <2>2 DEF ReceivedInOrder
    <3>2. sent[n].to \in Pid
      <4>1. n \in DOMAIN sent BY <2>2 DEF Letters
      <4> QED BY <4>1, SentIn
    <3>3. sent[n].to # p BY <3>1
    <3> QED BY <1>1, <1>3, <2>2, <3>1, <3>2, <3>3
  <2> QED BY <2>1, <2>2
<1>7. \A j \in DOMAIN got :
           /\ got[j].msg \in DOMAIN sent'
           /\ sent'[got[j].msg].to = got[j].by
           /\ \A i \in 1 .. j - 1 :
                  /\ got[i].msg # got[j].msg
                  /\ sent'[got[i].msg] = sent'[got[j].msg] => got[i].msg < got[j].msg
                  /\ got[i].by = got[j].by /\ got[j].msg \notin waited =>
                         got[i].msg < got[j].msg
  <2> SUFFICES ASSUME NEW j \in DOMAIN got
               PROVE  /\ got[j].msg \in DOMAIN sent'
                      /\ sent'[got[j].msg].to = got[j].by
                      /\ \A i \in 1 .. j - 1 :
                            /\ got[i].msg # got[j].msg
                            /\ sent'[got[i].msg] = sent'[got[j].msg] => got[i].msg < got[j].msg
                            /\ got[i].by = got[j].by /\ got[j].msg \notin waited =>
                                   got[i].msg < got[j].msg
    OBVIOUS
  <2>1. /\ got[j].msg \in DOMAIN sent
        /\ sent[got[j].msg].to = got[j].by
        /\ \A i \in 1 .. j - 1 :
                  /\ got[i].msg # got[j].msg
                  /\ sent[got[i].msg] = sent[got[j].msg] => got[i].msg < got[j].msg
                  /\ got[i].by = got[j].by /\ got[j].msg \notin waited =>
                         got[i].msg < got[j].msg
    BY DEF ReceivedInOrder
  <2>2. \A i \in 1 .. j - 1 : i \in DOMAIN got
    <3>1. Len(got) \in Nat /\ DOMAIN got = 1 .. Len(got) BY LenProperties DEF Mail
    <3> QED BY <3>1
  <2> QED BY <1>2, <1>3, <2>1, <2>2
<1>8. ReceivedInOrder' BY <1>6, <1>7 DEF ReceivedInOrder
<1> QED BY <1>5, <1>8

(* The owner of a mailbox takes its message. *)
LEMMA MailTaken ==
    ASSUME Letters, Mail, ReceivedInOrder,
           currpid \in Pid, prhasmsg[currpid], prhasmsg \in [Pid -> BOOLEAN],
           UNCHANGED <<sent, stored, waited, prmsg>>,
           got' = Append(got, [msg |-> prmsg[currpid], by |-> currpid]),
           prhasmsg' = [prhasmsg EXCEPT ![currpid] = FALSE]
    PROVE  Mail' /\ ReceivedInOrder'
<1> DEFINE n == Len(got) + 1
           m == prmsg[currpid]
<1>1. /\ Len(got) \in Nat /\ DOMAIN got = 1 .. Len(got)
      /\ got' \in Seq([msg : Nat, by : Pid])
      /\ DOMAIN got' = 1 .. n
      /\ \A j \in DOMAIN got : got'[j] = got[j]
      /\ got'[n].msg = m /\ got'[n].by = currpid
  BY GotGrows
<1>2. /\ m \in stored /\ sent[m].to = currpid
      /\ \A j \in DOMAIN got :
             /\ got[j].msg # m
             /\ sent[got[j].msg] = sent[m] => got[j].msg < m
             /\ got[j].by = currpid /\ m \notin waited => got[j].msg < m
  BY DEF Mail
<1>3. \A r \in Pid : prhasmsg'[r] <=> r # currpid /\ prhasmsg[r] OBVIOUS
<1>4. stored \subseteq DOMAIN sent BY DEF Letters
<1>5. \A j \in DOMAIN got' : j = n \/ (j \in DOMAIN got /\ got'[j] = got[j]) BY <1>1
<1> HIDE DEF n, m
<1>6. ASSUME NEW r \in Pid, prhasmsg'[r]
      PROVE  /\ prmsg[r] \in stored /\ sent[prmsg[r]].to = r
             /\ \A j \in DOMAIN got' :
                    /\ got'[j].msg # prmsg[r]
                    /\ sent[got'[j].msg] = sent[prmsg[r]] => got'[j].msg < prmsg[r]
                    /\ got'[j].by = r /\ prmsg[r] \notin waited => got'[j].msg < prmsg[r]
  <2>1. r # currpid /\ prhasmsg[r] BY <1>3, <1>6
  <2>2. /\ prmsg[r] \in stored /\ sent[prmsg[r]].to = r
        /\ \A j \in DOMAIN got :
               /\ got[j].msg # prmsg[r]
               /\ sent[got[j].msg] = sent[prmsg[r]] => got[j].msg < prmsg[r]
               /\ got[j].by = r /\ prmsg[r] \notin waited => got[j].msg < prmsg[r]
    BY <2>1 DEF Mail
  <2>3. m # prmsg[r] /\ sent[m] # sent[prmsg[r]] BY <1>2, <2>1, <2>2
  <2> QED BY <1>1, <1>5, <2>2, <2>3
<1>7. Mail' BY <1>1, <1>2, <1>5, <1>6 DEF Mail
<1>8. ASSUME NEW k \in stored
      PROVE  \/ \E i \in DOMAIN got' : got'[i].msg = k
             \/ prhasmsg'[sent[k].to] /\ prmsg[sent[k].to] = k
  <2>1. CASE \E i \in DOMAIN got : got[i].msg = k
    <3>1. PICK i \in DOMAIN got : got[i].msg = k BY <2>1
    <3>2. i \in DOMAIN got' /\ got'[i].msg = k BY <1>1, <3>1 DEF n
    <3> QED BY <3>2
  <2>2. CASE prhasmsg[sent[k].to] /\ prmsg[sent[k].to] = k
    <3>1. sent[k].to \in Pid BY <1>4, SentIn
    <3>2. CASE sent[k].to = currpid
      <4>1. n \in DOMAIN got' /\ got'[n].msg = k BY <1>1, <2>2, <3>2 DEF n, m
      <4> QED BY <4>1
    <3>3. CASE sent[k].to # currpid BY <1>3, <2>2, <3>1, <3>3
    <3> QED BY <3>2, <3>3
  <2> QED BY <2>1, <2>2 DEF ReceivedInOrder
<1>9. ASSUME NEW j \in DOMAIN got'
      PROVE  /\ got'[j].msg \in DOMAIN sent
             /\ sent[got'[j].msg].to = got'[j].by
             /\ \A i \in 1 .. j - 1 :
                    /\ got'[i].msg # got'[j].msg
                    /\ sent[got'[i].msg] = sent[got'[j].msg] => got'[i].msg < got'[j].msg
                    /\ got'[i].by = got'[j].by /\ got'[j].msg \notin waited =>
                           got'[i].msg < got'[j].msg
  <2>1. \A i \in 1 .. j - 1 : i \in DOMAIN got /\ got'[i] = got[i] BY <1>1 DEF n
  <2>2. CASE j = n
    <3>1. got'[j].msg = m /\ got'[j].by = currpid BY <1>1, <2>2
    <3> QED BY <1>2, <1>4, <2>1, <3>1
  <2>3. CASE j \in DOMAIN got /\ got'[j] = got[j]
    <3>1. /\ got[j].msg \in DOMAIN sent
          /\ sent[got[j].msg].to = got[j].by
          /\ \A i \in 1 .. j - 1 :
                  /\ got[i].msg # got[j].msg
                  /\ sent[got[i].msg] = sent[got[j].msg] => got[i].msg < got[j].msg
                  /\ got[i].by = got[j].by /\ got[j].msg \notin waited =>
                         got[i].msg < got[j].msg
      BY <2>3 DEF ReceivedInOrder
    <3> QED BY <2>1, <2>3, <3>1
  <2> QED BY <1>5, <2>2, <2>3
<1>10. ReceivedInOrder' BY <1>8, <1>9 DEF ReceivedInOrder
<1> QED BY <1>7, <1>10

LEMMA LettersStay ==
    ASSUME Letters, UNCHANGED <<sent, stored, waited>>,
           \A p \in Pid : frame'[p].at = "sendb" => frame'[p] = frame[p]
    PROVE  Letters'
BY DEF Letters

LEMMA MailStays ==
    ASSUME Letters, Mail, ReceivedInOrder, UNCHANGED <<stored, got, prmsg, prhasmsg>>,
           waited \subseteq waited',
           \A m \in DOMAIN sent : m \in DOMAIN sent' /\ sent'[m] = sent[m]
    PROVE  Mail' /\ ReceivedInOrder'
<1>1. \A m \in stored : m \in DOMAIN sent' /\ sent'[m] = sent[m] BY DEF Letters
<1>2. Mail'
  <2>1. \A r \in Pid : prhasmsg[r] =>
           /\ prmsg[r] \in stored /\ sent'[prmsg[r]].to = r
           /\ \A j \in DOMAIN got :
                  /\ got[j].msg # prmsg[r]
                  /\ sent'[got[j].msg] = sent'[prmsg[r]] => got[j].msg < prmsg[r]
                  /\ got[j].by = r /\ prmsg[r] \notin waited' => got[j].msg < prmsg[r]
    BY <1>1 DEF Mail
  <2> QED BY <2>1 DEF Mail
<1>3. Len(got) \in Nat /\ DOMAIN got = 1 .. Len(got) BY LenProperties DEF Mail
<1>4. \A j \in DOMAIN got : /\ got[j].msg \in stored
                            /\ \A i \in 1 .. j - 1 : i \in DOMAIN got /\ got[i].msg \in stored
  BY <1>3 DEF Mail
<1>5. ReceivedInOrder'
  <2>1. \A m \in stored :
           \/ \E i \in DOMAIN got : got[i].msg = m
           \/ prhasmsg[sent'[m].to] /\ prmsg[sent'[m].to] = m
    BY <1>1 DEF ReceivedInOrder
  <2>2. ASSUME NEW j \in DOMAIN got
        PROVE  /\ got[j].msg \in DOMAIN sent'
               /\ sent'[got[j].msg].to = got[j].by
               /\ \A i \in 1 .. j - 1 :
                      /\ got[i].msg # got[j].msg
                      /\ sent'[got[i].msg] = sent'[got[j].msg] => got[i].msg < got[j].msg
                      /\ got[i].by = got[j].by /\ got[j].msg \notin waited' =>
                             got[i].msg < got[j].msg
    BY <1>1, <1>4 DEF ReceivedInOrder
  <2> QED BY <2>1, <2>2 DEF ReceivedInOrder
<1> QED BY <1>2, <1>5

LEMMA SendbDirectIPC ==
    ASSUME IInv, IPCInv, NEW p \in Pid, SendbDirect(p)
    PROVE  IPCInv'
<1> USE CallFacts
<1> DEFINE m == Len(sent) + 1
           g == frame[currpid]
           s == IF prstate[p] \in {"RECV", "RECTIM"} THEN "READY" ELSE prstate[p]
           st == [prstate EXCEPT ![p] = s]
<1>1. /\ g.at = "user" /\ prstate[p] # "FREE" /\ ~prhasmsg[p]
      /\ sent' = Append(sent, Message(p))
      /\ prhasmsg' = [prhasmsg EXCEPT ![p] = TRUE]
      /\ prmsg' = [prmsg EXCEPT ![p] = m] /\ stored' = stored \cup {m}
      /\ UNCHANGED <<receivelist, got, waited, bypassed, unwoken>>
  BY DEF SendbDirect, Sending, Isbadpid, Deliver
<1>2. Letters /\ Mail /\ ReceivedInOrder /\ prhasmsg \in [Pid -> BOOLEAN]
  BY DEF IPCInv, IInv, Tables
<1>3. /\ Len(sent) \in Nat /\ DOMAIN sent = 1 .. Len(sent)
      /\ sent' \in Seq([from : Pid, to : Pid]) /\ DOMAIN sent' = 1 .. m
      /\ \A n \in DOMAIN sent : sent'[n] = sent[n]
      /\ sent'[m] = [from |-> currpid, to |-> p]
  BY <1>1, <1>2, SentGrows
<1>4. stored \subseteq DOMAIN sent BY <1>2 DEF Letters
<1>5. m \in Nat /\ m \notin stored /\ m \in DOMAIN sent' /\ \A n \in stored : n < m
  BY <1>3, <1>4
<1>6. Told(p) = st BY DEF Told, ReadyState
<1>7. Goes(st, g) BY <1>6, SendbDirectMoves
<1>8. s = prstate[p] \/ (s = "READY" /\ prstate[p] \in {"RECV", "RECTIM"}) OBVIOUS
<1>9. \A q \in Pid : st[q] = IF q = p THEN s ELSE prstate[q] OBVIOUS
<1> HIDE DEF m, g, s
<1>10. SameStates BY <1>7, <1>8, OneSteady DEF Goes, Awake
<1>11. SameSendb BY <1>7, FrameSteady DEF Goes, g
<1>12. Senders' BY <1>1, <1>10, <1>11, SendersStay DEF IPCInv, Senders, SameSendb
<1>13. Releases' BY <1>1, <1>2, <1>10, <1>11, ReleaseStays DEF IPCInv
<1>14. Letters'
  <2>1. ASSUME NEW q \in Pid, frame'[q].at = "sendb"
        PROVE  /\ frame'[q].num \in (DOMAIN sent' \ stored') \cap waited'
               /\ sent'[frame'[q].num] = [from |-> q, to |-> frame'[q].arg]
               /\ \A n \in DOMAIN sent' : sent'[n].from = q => n <= frame'[q].num
    <3>1. frame'[q] = frame[q] /\ q # currpid BY <1>1, <1>11, <2>1 DEF SameSendb, g
    <3>2. /\ frame[q].num \in (DOMAIN sent \ stored) \cap waited
          /\ sent[frame[q].num] = [from |-> q, to |-> frame[q].arg]
          /\ \A n \in DOMAIN sent : sent[n].from = q => n <= frame[q].num
      BY <1>2, <2>1, <3>1 DEF Letters
    <3>3. \A n \in DOMAIN sent' : n \in DOMAIN sent \/ n = m BY <1>3 DEF m
    <3>4. DOMAIN sent \subseteq DOMAIN sent' /\ m \notin DOMAIN sent BY <1>3 DEF m
    <3>5. sent'[m].from = currpid BY <1>3
    <3> QED BY <1>1, <1>3, <3>1, <3>2, <3>3, <3>4, <3>5
  <2>2. stored' \subseteq DOMAIN sent' BY <1>1, <1>3, <1>4, <1>5 DEF m
  <2> QED BY <1>3, <2>1, <2>2 DEF Letters
<1>15. Mail' /\ ReceivedInOrder'
  <2>1. sent'[m].to = p BY <1>3
  <2>2. \A n \in DOMAIN sent : n \in DOMAIN sent' /\ sent'[n] = sent[n] BY <1>3 DEF m
  <2> QED BY <1>1, <1>2, <1>5, <2>1, <2>2, MailStored
<1>16. InReceiveb'
  <2>1. InReceiveb BY DEF IPCInv
  <2>2. /\ \A q \in Pid : prhasmsg[q] => prhasmsg'[q] /\ prstate[q] # "FREE"
        /\ \A q \in Pid : prhasmsg'[q] => prhasmsg[q] \/ prstate[q] # "FREE"
        /\ prhasmsg'[p]
    BY <1>1, <1>2, <2>1 DEF InReceiveb
  <2>3. \A q \in Pid : st[q] = prstate[q] \/ (st[q] \in Awake /\ prhasmsg'[q])
    BY <1>8, <1>9, <2>2 DEF Awake
  <2>4. \A q \in Pid : st[q] = "FREE" => prstate[q] = "FREE" BY <1>8, <1>9
  <2>5. g.at # "receiveb" /\ st[currpid] # "FREE" BY <1>1, <2>4
  <2> HIDE DEF st
  <2> QED BY <1>7, <2>1, <2>2, <2>3, <2>4, <2>5, ReceivebStep
<1>17. Woken'
  <2>1. \A q \in Pid : q # p => prhasmsg'[q] = prhasmsg[q] BY <1>1, <1>2
  <2>2. st[p] \notin {"RECV", "RECTIM"} BY <1>9 DEF s
  <2> HIDE DEF st
  <2> QED BY <1>1, <1>7, <1>9, <2>1, <2>2, WokenStep DEF IPCInv, Goes
<1> QED BY <1>12, <1>13, <1>14, <1>15, <1>16, <1>17 DEF IPCInv

LEMMA SendbBlockIPC ==
    ASSUME IInv, IPCInv, NEW p \in Pid, SendbBlock(p)
    PROVE  IPCInv'
<1> USE CallFacts
<1> DEFINE m == Len(sent) + 1
           g == Frame("sendb", p, m)
           s == "SND"
           st == [prstate EXCEPT ![currpid] = s]
<1>1. /\ frame[currpid].at = "user" /\ prstate[p] # "FREE" /\ prhasmsg[p]
      /\ sent' = Append(sent, Message(p))
      /\ receivelist' = [receivelist EXCEPT ![p] = Append(@, currpid)]
      /\ waited' = waited \cup {m}
      /\ UNCHANGED <<prhasmsg, prmsg, stored, got, bypassed, unwoken>>
  BY DEF SendbBlock, Sending, Isbadpid
<1>2. Letters /\ Mail /\ ReceivedInOrder /\ prhasmsg \in [Pid -> BOOLEAN]
  BY DEF IPCInv, IInv, Tables
<1>3. /\ Len(sent) \in Nat /\ DOMAIN sent = 1 .. Len(sent)
      /\ sent' \in Seq([from : Pid, to : Pid]) /\ DOMAIN sent' = 1 .. m
      /\ \A n \in DOMAIN sent : sent'[n] = sent[n]
      /\ sent'[m] = [from |-> currpid, to |-> p]
  BY <1>1, <1>2, SentGrows
<1>4. stored \subseteq DOMAIN sent BY <1>2 DEF Letters
<1>5. g.at = "sendb" /\ g.arg = p /\ g.num = m BY DEF Frame
<1>6. Goes(st, g) BY <1>2, SendbBlockMoves
<1>7. \A q \in Pid : st[q] = IF q = currpid THEN s ELSE prstate[q] OBVIOUS
<1>8. \A q \in Pid : frame'[q] = IF q = currpid THEN g ELSE frame[q] BY <1>6 DEF Goes
<1>9. m \in Nat /\ m \notin stored /\ m \in DOMAIN sent' BY <1>3, <1>4
<1> HIDE DEF m, g
<1>10. ASSUME NEW q \in Pid
       PROVE  /\ prstate'[q] = "SND" <=> prstate[q] = "SND" \/ q = currpid
              /\ prstate'[q] = "FREE" => prstate[q] = "FREE"
              /\ q # currpid /\ prstate[q] \in Awake => prstate'[q] \in Awake
  <2>1. Alike(st[q], prstate'[q]) BY <1>6 DEF Goes, Moved
  <2> QED BY <1>7, <2>1 DEF Alike, Runnable, Awake
<1>11. Senders'
  <2>1. Senders BY DEF IPCInv
  <2>2. /\ DOMAIN receivelist' = Pid /\ receivelist'[p] = Append(receivelist[p], currpid)
        /\ \A r \in Pid : r # p => receivelist'[r] = receivelist[r]
    BY <1>1, <2>1 DEF Senders
  <2>3. /\ SndSet(prstate', frame', p) = SndSet(prstate, frame, p) \cup {currpid}
        /\ currpid \notin SndSet(prstate, frame, p)
    BY <1>5, <1>8, <1>10 DEF SndSet
  <2>4. \A r \in Pid : r # p => SndSet(prstate', frame', r) = SndSet(prstate, frame, r)
    BY <1>5, <1>8, <1>10 DEF SndSet
  <2>5. Lists(receivelist'[p], SndSet(prstate', frame', p))
    <3>1. Lists(receivelist[p], SndSet(prstate, frame, p)) BY <2>1 DEF Senders
    <3> QED BY <2>2, <2>3, <3>1, AppendLists
  <2>6. \A r \in Pid : Lists(receivelist'[r], SndSet(prstate', frame', r))
    BY <2>1, <2>2, <2>4, <2>5 DEF Senders
  <2>7. \A q \in Pid : prstate'[q] = "SND" => frame'[q].at = "sendb"
    BY <1>5, <1>8, <1>10, <2>1 DEF Senders
  <2>8. \A q \in Pid : frame'[q].at = "sendb" =>
           frame'[q].arg \in Pid /\ prstate'[frame'[q].arg] # "FREE"
    BY <1>1, <1>5, <1>8, <1>10, <2>1 DEF Senders
  <2> QED BY <2>2, <2>6, <2>7, <2>8 DEF Senders
<1>12. Releases'
  <2>1. \A r \in Pid : r # p => receivelist'[r] = receivelist[r]
    BY <1>1 DEF IPCInv, Senders
  <2>2. \A q \in Pid : frame[q].at = "sendb" /\ prstate[q] \in Awake =>
                          frame'[q] = frame[q] /\ prstate'[q] \in Awake
    BY <1>1, <1>8, <1>10
  <2>3. ASSUME NEW r \in Pid \ bypassed', receivelist'[r] # <<>>
        PROVE  \/ prhasmsg'[r]
               \/ \E q \in Pid : /\ frame'[q].at = "sendb" /\ frame'[q].arg = r
                                /\ prstate'[q] \in Awake
    <3>1. CASE r = p BY <1>1, <3>1
    <3>2. CASE r # p
      <4>1. \/ prhasmsg[r]
            \/ \E q \in Pid : /\ frame[q].at = "sendb" /\ frame[q].arg = r
                             /\ prstate[q] \in Awake
        BY <1>1, <2>1, <2>3, <3>2 DEF IPCInv, Releases, Awake
      <4> QED BY <1>1, <2>2, <4>1
    <3> QED BY <3>1, <3>2
  <2> QED BY <2>3 DEF Releases, Awake
<1>13. Letters'
  <2>1. \A n \in DOMAIN sent' : n \in DOMAIN sent \/ n = m BY <1>3 DEF m
  <2>2. DOMAIN sent \subseteq DOMAIN sent' /\ m \notin DOMAIN sent BY <1>3 DEF m
  <2>3. sent'[m].from = currpid BY <1>3
  <2>4. ASSUME NEW q \in Pid, frame'[q].at = "sendb"
        PROVE  /\ frame'[q].num \in (DOMAIN sent' \ stored') \cap waited'
               /\ sent'[frame'[q].num] = [from |-> q, to |-> frame'[q].arg]
               /\ \A n \in DOMAIN sent' : sent'[n].from = q => n <= frame'[q].num
    <3>1. CASE q = currpid
      <4>1. frame'[q].num = m /\ frame'[q].arg = p BY <1>5, <1>8, <3>1
      <4>2. \A n \in DOMAIN sent' : n <= m BY <1>3
      <4> QED BY <1>1, <1>3, <1>9, <3>1, <4>1, <4>2
    <3>2. CASE q # currpid
      <4>1. frame'[q] = frame[q] BY <1>8, <3>2
      <4>2. /\ frame[q].num \in (DOMAIN sent \ stored) \cap waited
            /\ sent[frame[q].num] = [from |-> q, to |-> frame[q].arg]
            /\ \A n \in DOMAIN sent : sent[n].from = q => n <= frame[q].num
        BY <1>2, <2>4, <4>1 DEF Letters
      <4> QED BY <1>1, <1>3, <2>1, <2>2, <2>3, <3>2, <4>1, <4>2
    <3> QED BY <3>1, <3>2
  <2>5. stored' \subseteq DOMAIN sent' BY <1>1, <1>4, <2>2
  <2> QED BY <1>3, <2>4, <2>5 DEF Letters
<1>14. Mail' /\ ReceivedInOrder'
  <2>1. \A n \in DOMAIN sent : n \in DOMAIN sent' /\ sent'[n] = sent[n] BY <1>3 DEF m
  <2> QED BY <1>1, <1>2, <2>1, MailStays
<1>15. InReceiveb'
  <2>1. InReceiveb BY DEF IPCInv
  <2>2. \A q \in Pid : prhasmsg[q] => prstate[q] # "FREE" BY <2>1 DEF InReceiveb
  <2>3. \A q \in Pid \ {currpid} : st[q] = prstate[q] BY <1>7
  <2>4. g.at # "receiveb" /\ st[currpid] # "FREE" BY <1>5, <1>7
  <2> HIDE DEF st
  <2> QED BY <1>1, <1>6, <2>1, <2>2, <2>3, <2>4, ReceivebStep
<1>16. Woken'
  <2>1. st[currpid] = "SND" BY <1>7
  <2> HIDE DEF st
  <2> QED BY <1>1, <1>6, <1>7, <2>1, WokenStep DEF IPCInv, Goes
<1> QED BY <1>11, <1>12, <1>13, <1>14, <1>15, <1>16 DEF IPCInv

LEMMA SendbResumeIPC ==
    ASSUME IInv, IPCInv, SendbResume
    PROVE  IPCInv'
<1> USE CallFacts
<1> DEFINE p == frame[currpid].arg
           m == frame[currpid].num
<1>1. /\ frame[currpid].at = "sendb"
      /\ IF prhasmsg[p] THEN UNCHANGED <<prmsg, prhasmsg, stored, unwoken>>
         ELSE /\ prmsg' = [prmsg EXCEPT ![p] = m]
              /\ prhasmsg' = [prhasmsg EXCEPT ![p] = TRUE]
              /\ stored' = stored \cup {m}
              /\ unwoken' = IF Asleep(p) THEN unwoken \cup {p} ELSE unwoken
      /\ UNCHANGED <<receivelist, sent, got, waited, bypassed>>
  BY DEF SendbResume, At
<1>2. Letters /\ Mail /\ ReceivedInOrder /\ Senders /\ prhasmsg \in [Pid -> BOOLEAN]
  BY DEF IPCInv, IInv, Tables
<1>3. p \in Pid /\ prstate[p] # "FREE" BY <1>1, <1>2 DEF Senders
<1>4. /\ m \in (DOMAIN sent \ stored) \cap waited
      /\ sent[m] = [from |-> currpid, to |-> p]
      /\ \A n \in DOMAIN sent : sent[n].from = currpid => n <= m
  BY <1>1, <1>2 DEF Letters
<1>5. stored \subseteq DOMAIN sent /\ DOMAIN sent \subseteq Nat
  BY <1>2, LenProperties DEF Letters
<1> HIDE DEF p, m
<1>6. Goes(prstate, User) BY SendbResumeMoves
<1>7. SameStates BY <1>6, StillSteady DEF Goes
<1>8. \A q \in Pid : frame'[q] = IF q = currpid THEN User ELSE frame[q] BY <1>6 DEF Goes
<1>9. User.at # "sendb" /\ User.at # "receiveb" OBVIOUS
<1>10. Senders'
  <2>1. \A q \in Pid : prstate[q] = "SND" \/ frame'[q].at = "sendb" => frame'[q] = frame[q]
    BY <1>8, <1>9
  <2> QED BY <1>1, <1>2, <1>7, <2>1, SendersStay
<1>11. prhasmsg'[p] /\ \A r \in Pid : /\ prhasmsg[r] => prhasmsg'[r]
                                      /\ prhasmsg'[r] => prhasmsg[r] \/ r = p
  BY <1>1, <1>2, <1>3
<1>12. Releases'
  <2>1. ASSUME NEW r \in Pid \ bypassed', receivelist'[r] # <<>>
        PROVE  \/ prhasmsg'[r]
               \/ \E q \in Pid : /\ frame'[q].at = "sendb" /\ frame'[q].arg = r
                                /\ prstate'[q] \in Awake
    <3>1. CASE r = p BY <1>11, <3>1
    <3>2. CASE r # p /\ ~prhasmsg[r]
      <4>1. PICK q \in Pid : /\ frame[q].at = "sendb" /\ frame[q].arg = r
                             /\ prstate[q] \in Awake
        BY <1>1, <2>1, <3>2 DEF IPCInv, Releases, Awake
      <4>2. q # currpid BY <3>2, <4>1 DEF p
      <4> QED BY <1>7, <1>8, <4>1, <4>2 DEF SameStates
    <3> QED BY <1>11, <3>1, <3>2
  <2> QED BY <2>1 DEF Releases, Awake
<1>13. Letters' /\ Mail' /\ ReceivedInOrder'
  <2>1. CASE prhasmsg[p]
    <3>1. UNCHANGED <<sent, stored, got, waited, prmsg, prhasmsg>> BY <1>1, <2>1
    <3> QED BY <1>2, <1>8, <1>9, <3>1, LettersStay, MailStays
  <2>2. CASE ~prhasmsg[p]
    <3>1. /\ prmsg' = [prmsg EXCEPT ![p] = m]
          /\ prhasmsg' = [prhasmsg EXCEPT ![p] = TRUE]
          /\ stored' = stored \cup {m} /\ UNCHANGED <<sent, got, waited>>
      BY <1>1, <2>2
    <3>2. \A n \in stored : sent[n] = sent[m] => n < m
      <4> SUFFICES ASSUME NEW n \in stored, sent[n] = sent[m] PROVE n < m
        OBVIOUS
      <4>1. n \in DOMAIN sent /\ sent[n].from = currpid BY <1>4, <1>5
      <4>2. n <= m /\ n # m BY <1>4, <4>1
      <4>3. n \in Nat /\ m \in Nat BY <1>4, <1>5
      <4> QED BY <4>2, <4>3
    <3>3. m \in Nat /\ m \notin stored /\ m \in DOMAIN sent /\ sent[m].to = p BY <1>4, <1>5
    <3>7. m \in waited BY <1>4
    <3>4. Mail' /\ ReceivedInOrder'
      BY <1>2, <1>3, <2>2, <3>1, <3>2, <3>3, <3>7, MailStored
    <3>5. ASSUME NEW q \in Pid, frame'[q].at = "sendb"
          PROVE  /\ frame'[q].num \in (DOMAIN sent \ stored') \cap waited
                 /\ sent[frame'[q].num] = [from |-> q, to |-> frame'[q].arg]
                 /\ \A n \in DOMAIN sent : sent[n].from = q => n <= frame'[q].num
      <4>1. frame'[q] = frame[q] /\ q # currpid BY <1>8, <1>9, <3>5
      <4>2. /\ frame[q].num \in (DOMAIN sent \ stored) \cap waited
            /\ sent[frame[q].num] = [from |-> q, to |-> frame[q].arg]
            /\ \A n \in DOMAIN sent : sent[n].from = q => n <= frame[q].num
        BY <1>2, <3>5, <4>1 DEF Letters
      <4>3. sent[frame[q].num].from = q /\ sent[m].from = currpid BY <1>4, <4>2
      <4>4. frame[q].num # m BY <4>1, <4>3
      <4> QED BY <3>1, <4>1, <4>2, <4>4
    <3>6. stored' \subseteq DOMAIN sent BY <1>5, <3>1, <3>3
    <3> QED BY <1>2, <3>1, <3>4, <3>5, <3>6 DEF Letters
  <2> QED BY <2>1, <2>2
<1>14. InReceiveb'
  <2>1. InReceiveb BY DEF IPCInv
  <2>2. \A q \in Pid : prhasmsg'[q] => prhasmsg[q] \/ prstate[q] # "FREE"
    BY <1>3, <1>11
  <2>3. prstate[currpid] # "FREE" OBVIOUS
  <2> QED BY <1>6, <1>9, <1>11, <2>1, <2>2, <2>3, ReceivebStep
<1>15. Woken'
  <2>1. unwoken \subseteq unwoken' BY <1>1
  <2>2. \A q \in Pid \ unwoken' :
           prhasmsg'[q] /\ prstate[q] \in {"RECV", "RECTIM"} => prhasmsg[q]
    BY <1>1, <1>3, <1>11 DEF Asleep
  <2> QED BY <1>6, <2>1, <2>2, WokenStep DEF IPCInv, Goes
<1> QED BY <1>10, <1>12, <1>13, <1>14, <1>15 DEF IPCInv

LEMMA ReceivebTakeIPC ==
    ASSUME IInv, IPCInv, ReceivebTake
    PROVE  IPCInv'
<1> USE CallFacts
<1> DEFINE none == receivelist[currpid] = <<>>
           h == Head(receivelist[currpid])
           st == IF none THEN prstate ELSE ReadyState(h)
<1>1. /\ frame[currpid].at = "receiveb"
      /\ got' = Append(got, [msg |-> prmsg[currpid], by |-> currpid])
      /\ prhasmsg' = [prhasmsg EXCEPT ![currpid] = FALSE]
      /\ receivelist' = IF none THEN receivelist
                         ELSE [receivelist EXCEPT ![currpid] = Tail(@)]
      /\ UNCHANGED <<prmsg, sent, stored, waited, bypassed, unwoken>>
  BY DEF ReceivebTake, At
<1>2. /\ Letters /\ Mail /\ ReceivedInOrder /\ Senders /\ InReceiveb
      /\ prhasmsg \in [Pid -> BOOLEAN]
  BY DEF IPCInv, IInv, Tables
<1>3. prhasmsg[currpid] BY <1>1, <1>2 DEF InReceiveb, Awake
<1>4. Goes(st, User) BY <1>2, ReceivebTakeMoves
<1>5. \A q \in Pid : frame'[q] = IF q = currpid THEN User ELSE frame[q] BY <1>4 DEF Goes
<1>6. User.at # "sendb" /\ User.at # "receiveb" OBVIOUS
<1>7. ~none => /\ h \in Pid /\ prstate[h] = "SND"
               /\ frame[h].at = "sendb" /\ frame[h].arg = currpid
               /\ Lists(Tail(receivelist[currpid]), SndSet(prstate, frame, currpid) \ {h})
  BY <1>2, HeadSends
<1>8. \A q \in Pid : st[q] = IF ~none /\ q = h THEN "READY" ELSE prstate[q]
  BY DEF ReadyState
<1>9. \A q \in Pid : Alike(st[q], prstate'[q]) BY <1>4 DEF Goes, Moved
<1> HIDE DEF none, h, st
<1>10. ASSUME NEW q \in Pid
       PROVE  /\ prstate'[q] = "SND" <=> prstate[q] = "SND" /\ ~(~none /\ q = h)
              /\ prstate'[q] = "FREE" => prstate[q] = "FREE"
              /\ prstate[q] \in Awake \/ (~none /\ q = h) => prstate'[q] \in Awake
  <2>1. Alike(st[q], prstate'[q]) BY <1>9
  <2> QED BY <1>8, <2>1 DEF Alike, Runnable, Awake
<1>11. Senders'
  <2>1. /\ DOMAIN receivelist' = Pid
        /\ \A r \in Pid : r # currpid \/ none => receivelist'[r] = receivelist[r]
        /\ ~none => receivelist'[currpid] = Tail(receivelist[currpid])
    BY <1>1, <1>2 DEF Senders
  <2>2. \A r \in Pid : r # currpid \/ none =>
           SndSet(prstate', frame', r) = SndSet(prstate, frame, r)
    BY <1>5, <1>7, <1>10 DEF SndSet
  <2>3. ~none => SndSet(prstate', frame', currpid) = SndSet(prstate, frame, currpid) \ {h}
    BY <1>5, <1>10 DEF SndSet
  <2>4. \A r \in Pid : Lists(receivelist'[r], SndSet(prstate', frame', r))
    BY <1>2, <1>7, <2>1, <2>2, <2>3 DEF Senders
  <2>5. \A q \in Pid : prstate'[q] = "SND" => frame'[q].at = "sendb"
    BY <1>2, <1>5, <1>10 DEF Senders
  <2>6. \A q \in Pid : frame'[q].at = "sendb" =>
           frame'[q].arg \in Pid /\ prstate'[frame'[q].arg] # "FREE"
    BY <1>2, <1>5, <1>6, <1>10 DEF Senders
  <2> QED BY <2>1, <2>4, <2>5, <2>6 DEF Senders
<1>12. Releases'
  <2>1. ASSUME NEW r \in Pid \ bypassed', receivelist'[r] # <<>>
        PROVE  \/ prhasmsg'[r]
               \/ \E q \in Pid : /\ frame'[q].at = "sendb" /\ frame'[q].arg = r
                                /\ prstate'[q] \in Awake
    <3>1. CASE r = currpid
      <4>1. ~none BY <1>1, <2>1, <3>1 DEF none
      <4>2. h # currpid BY <1>7, <4>1
      <4>3. h \in Pid /\ frame'[h] = frame[h] /\ prstate'[h] \in Awake
        BY <1>5, <1>7, <1>10, <4>1, <4>2
      <4> QED BY <1>7, <3>1, <4>1, <4>3
    <3>2. CASE r # currpid /\ ~prhasmsg[r]
      <4>1. receivelist'[r] = receivelist[r] BY <1>1, <1>2, <3>2 DEF Senders
      <4>2. PICK q \in Pid : /\ frame[q].at = "sendb" /\ frame[q].arg = r
                             /\ prstate[q] \in Awake
        BY <1>1, <2>1, <3>2, <4>1 DEF IPCInv, Releases, Awake
      <4>3. q # currpid BY <1>1, <4>2
      <4> QED BY <1>5, <1>10, <4>2, <4>3
    <3>3. CASE r # currpid /\ prhasmsg[r] BY <1>1, <1>2, <3>3
    <3> QED BY <3>1, <3>2, <3>3
  <2> QED BY <2>1 DEF Releases, Awake
<1>13. Letters' BY <1>1, <1>2, <1>5, <1>6, LettersStay
<1>14. Mail' /\ ReceivedInOrder' BY <1>1, <1>2, <1>3, MailTaken
<1>15. InReceiveb'
  <2>1. /\ \A q \in Pid : prhasmsg[q] => prstate[q] # "FREE"
        /\ ~none => frame[h].at # "receiveb"
    BY <1>2, <1>7 DEF InReceiveb
  <2>2. \A q \in Pid \ {currpid} :
          /\ st[q] = prstate[q] \/ frame[q].at # "receiveb"
          /\ st[q] = "FREE" => prstate[q] = "FREE"
          /\ prhasmsg[q] <=> prhasmsg'[q]
    BY <1>1, <1>2, <1>8, <2>1
  <2>3. st[currpid] # "FREE" BY <1>8
  <2> QED BY <1>2, <1>4, <1>6, <2>1, <2>2, <2>3, ReceivebStep
<1>16. Woken'
  <2>1. \A q \in Pid : prhasmsg'[q] => prhasmsg[q] BY <1>1, <1>2
  <2> QED BY <1>1, <1>4, <1>8, <2>1, WokenStep DEF IPCInv, Goes
<1> QED BY <1>11, <1>12, <1>13, <1>14, <1>15, <1>16 DEF IPCInv

LEMMA TimedTakeIPC ==
    ASSUME IInv, IPCInv, TimedTake
    PROVE  IPCInv'
<1> USE CallFacts
<1>1. /\ frame[currpid].at = "recvtime"
      /\ prhasmsg' = [prhasmsg EXCEPT ![currpid] = FALSE]
      /\ IF prhasmsg[currpid]
         THEN /\ got' = Append(got, [msg |-> prmsg[currpid], by |-> currpid])
              /\ bypassed' = bypassed \cup {currpid}
         ELSE UNCHANGED <<got, bypassed>>
      /\ UNCHANGED <<receivelist, prmsg, sent, stored, waited, unwoken>>
  BY DEF TimedTake, RecvtimeTake, At
<1>2. /\ Letters /\ Mail /\ ReceivedInOrder /\ Senders /\ InReceiveb
      /\ Releases /\ prhasmsg \in [Pid -> BOOLEAN]
  BY DEF IPCInv, IInv, Tables
<1>3. Goes(prstate, User) BY TimedTakeMoves
<1>4. User.at # "sendb" /\ User.at # "receiveb" OBVIOUS
<1>5. SameStates BY <1>3, StillSteady DEF Goes
<1>6. SameSendb BY <1>1, <1>3, <1>4, FrameSteady DEF Goes
<1>7. Senders' BY <1>1, <1>2, <1>5, <1>6, SendersStay DEF Senders, SameSendb
<1>8. \A r \in Pid : prhasmsg'[r] = (prhasmsg[r] /\ r # currpid) BY <1>1, <1>2
<1>9. Releases'
  <2>1. bypassed \subseteq bypassed' BY <1>1
  <2>2. \A r \in Pid \ bypassed' : prhasmsg[r] => prhasmsg'[r] BY <1>1, <1>8
  <2> QED BY <1>1, <1>2, <1>5, <1>6, <2>1, <2>2, ReleaseStays
<1>10. Letters' BY <1>1, <1>2, <1>6, LettersStay DEF SameSendb
<1>11. Mail' /\ ReceivedInOrder'
  <2>1. CASE prhasmsg[currpid] BY <1>1, <1>2, <2>1, MailTaken
  <2>2. CASE ~prhasmsg[currpid]
    <3>1. prhasmsg' = prhasmsg BY <1>1, <1>2, <2>2
    <3> QED BY <1>1, <1>2, <2>2, <3>1, MailStays
  <2> QED BY <2>1, <2>2
<1>12. InReceiveb'
  <2>1. \A q \in Pid : prhasmsg[q] => prstate[q] # "FREE" BY <1>2 DEF InReceiveb
  <2>2. prstate[currpid] # "FREE" OBVIOUS
  <2> QED BY <1>2, <1>3, <1>4, <1>8, <2>1, <2>2, ReceivebStep
<1>13. Woken' BY <1>1, <1>3, <1>8, WokenStep DEF IPCInv, Goes
<1> QED BY <1>7, <1>9, <1>10, <1>11, <1>12, <1>13 DEF IPCInv

LEMMA CreateIPC ==
    ASSUME IInv, IPCInv, NEW p \in Pid, NEW prio \in Prios, NEW stack \in BOOLEAN,
           CreateWithList(p, prio, stack)
    PROVE  IPCInv'
<1> USE CallFacts
<1>1. /\ prstate[p] = "FREE"
      /\ IF stack THEN /\ prstate' = [prstate EXCEPT ![p] = "SUSP"]
                       /\ frame' = [frame EXCEPT ![p] = User]
                       /\ prhasmsg' = [prhasmsg EXCEPT ![p] = FALSE]
                       /\ receivelist' = [receivelist EXCEPT ![p] = <<>>]
                  ELSE UNCHANGED <<prstate, frame, prhasmsg, receivelist>>
      /\ UNCHANGED <<prmsg, sent, stored, got, waited, bypassed, unwoken>>
  BY DEF CreateWithList, CreateProcess, Create, Newpid, history
<1>2. /\ Letters /\ Mail /\ ReceivedInOrder /\ Senders /\ InReceiveb
      /\ Releases /\ Woken /\ prhasmsg \in [Pid -> BOOLEAN]
  BY DEF IPCInv, IInv, Tables
<1>3. CASE ~stack
  BY <1>1, <1>2, <1>3 DEF IPCInv, Senders, InReceiveb, Releases, Woken, Asleep, Letters, Mail,
                          ReceivedInOrder, SndSet
<1>4. CASE stack
  <2>1. User.at # "sendb" /\ User.at # "receiveb" OBVIOUS
  <2>2. \A q \in Pid : /\ frame'[q] = IF q = p THEN User ELSE frame[q]
                       /\ prstate'[q] = IF q = p THEN "SUSP" ELSE prstate[q]
    BY <1>1, <1>4
  <2>3. ~prhasmsg[p] BY <1>1, <1>2 DEF InReceiveb
  <2>4. prhasmsg' = prhasmsg
    <3>1. prhasmsg' = [prhasmsg EXCEPT ![p] = FALSE] BY <1>1, <1>4
    <3>2. prhasmsg[p] = FALSE BY <1>2, <2>3
    <3> QED BY <1>2, <3>1, <3>2
  <2>5. Senders'
    <3>1. /\ DOMAIN receivelist' = Pid /\ receivelist'[p] = <<>>
          /\ \A r \in Pid : r # p => receivelist'[r] = receivelist[r]
      BY <1>1, <1>2, <1>4 DEF Senders
    <3>2. \A r \in Pid : SndSet(prstate', frame', r) = SndSet(prstate, frame, r)
      BY <1>1, <2>2 DEF SndSet
    <3>3. SndSet(prstate, frame, p) = {} BY <1>1, <1>2 DEF SndSet, Senders
    <3>4. Lists(<<>>, {}) BY DEF Lists, NoDup
    <3>5. \A r \in Pid : Lists(receivelist'[r], SndSet(prstate', frame', r))
      BY <1>2, <3>1, <3>2, <3>3, <3>4 DEF Senders
    <3>6. \A q \in Pid : prstate'[q] = "SND" => frame'[q].at = "sendb"
      BY <1>2, <2>2 DEF Senders
    <3>7. \A q \in Pid : frame'[q].at = "sendb" =>
             frame'[q].arg \in Pid /\ prstate'[frame'[q].arg] # "FREE"
      BY <1>2, <2>1, <2>2 DEF Senders
    <3> QED BY <3>1, <3>5, <3>6, <3>7 DEF Senders
  <2>6. Releases'
    <3>1. ASSUME NEW r \in Pid \ bypassed', receivelist'[r] # <<>>
          PROVE  \/ prhasmsg'[r]
                 \/ \E q \in Pid : /\ frame'[q].at = "sendb" /\ frame'[q].arg = r
                                  /\ prstate'[q] \in Awake
      <4>1. r # p /\ receivelist'[r] = receivelist[r]
        BY <1>1, <1>2, <1>4, <3>1 DEF Senders
      <4>2. CASE ~prhasmsg[r]
        <5>1. PICK q \in Pid : /\ frame[q].at = "sendb" /\ frame[q].arg = r
                               /\ prstate[q] \in Awake
          BY <1>1, <1>2, <3>1, <4>1, <4>2 DEF Releases, Awake
        <5>2. q # p BY <1>1, <5>1 DEF Awake
        <5> QED BY <2>2, <5>1, <5>2
      <4> QED BY <2>4, <4>2
    <3> QED BY <3>1 DEF Releases, Awake
  <2>7. Letters' BY <1>1, <1>2, <2>1, <2>2, LettersStay
  <2>8. Mail' /\ ReceivedInOrder' BY <1>1, <1>2, <2>4, MailStays
  <2>9. InReceiveb' BY <1>2, <2>1, <2>2, <2>4 DEF InReceiveb, Awake
  <2>10. Woken' BY <1>1, <1>2, <2>2, <2>4 DEF Woken, Asleep
  <2> QED BY <2>5, <2>6, <2>7, <2>8, <2>9, <2>10 DEF IPCInv
<1> QED BY <1>3, <1>4

(* Every step of lab 3 keeps its invariant. *)
LEMMA IPCNextInv == IInv /\ IPCInv /\ [IPCNext]_<<vars, ipcVars>> => IPCInv'
<1> SUFFICES ASSUME IInv, IPCInv, [IPCNext]_<<vars, ipcVars>> PROVE IPCInv'
  OBVIOUS
<1>1. Mailboxes \subseteq Pid BY IPCAssumption
<1>2. ASSUME UNCHANGED <<prstate, frame, prhasmsg, receivelist, prmsg, history>> PROVE IPCInv'
  BY <1>2 DEF IPCInv, Senders, InReceiveb, Releases, Woken, Asleep, Letters, Mail,
              ReceivedInOrder, SndSet, history
<1>3. ASSUME Registercb \/ \E p \in Pid : SendaCrash(p) PROVE IPCInv'
  BY <1>2, <1>3, SendaCrashInv DEF Registercb, schedVars, ipcVars
<1>4. CASE IPCCall
  <2>1. ASSUME NEW maxwait \in MaxWaits, Recvtime(maxwait), UNCHANGED <<semVars, ipcVars>>
        PROVE  IPCInv'
    BY <2>1, RecvtimeIPC
  <2> QED
    BY <1>1, <1>3, <1>4, <2>1, SendbDirectIPC, SendbBlockIPC, SendbResumeIPC,
       ReceivebIPC, ReceivebTakeIPC, TimedTakeIPC, SendaIPC DEF IPCCall
<1>5. ASSUME NEW p \in Pid, NEW prio \in Prios, NEW stack \in Stacks,
             CreateWithList(p, prio, stack)
      PROVE  IPCInv'
  BY <1>5, CreateIPC, IPCAssumption
<1>6. CASE SchedCall /\ UNCHANGED <<semVars, clockVars, prhasmsg, ipcVars>>
  BY <1>6, SchedPlain, IPCPlain
<1>7. CASE ClockStep /\ UNCHANGED <<semVars, prhasmsg, ipcVars>>
  BY <1>7, ClockPlain, IPCPlain
<1>8. CASE (Halt /\ UNCHANGED ipcVars) \/ UNCHANGED <<vars, ipcVars>>
  BY <1>2, <1>8 DEF Halt, vars, schedVars, ipcVars
<1> QED BY <1>4, <1>5, <1>6, <1>7, <1>8 DEF IPCNext

LEMMA IPCInitInv == IPCInit => IInv /\ IPCInv
<1> SUFFICES ASSUME IPCInit PROVE IInv /\ IPCInv
  OBVIOUS
<1>1. IInv BY InitInv DEF IPCInit
<1>2. /\ \A p \in Pid : prstate[p] \in {"READY", "CURR", "FREE"}
      /\ \A p \in Pid : frame[p] = User
      /\ prhasmsg = [p \in Pid |-> FALSE]
      /\ receivelist = [p \in Pid |-> <<>>]
      /\ prmsg = [p \in Pid |-> 0] /\ sent = <<>> /\ stored = {} /\ got = <<>>
      /\ waited = {}
  BY DEF IPCInit, Init, SchedInit, MsgInit
<1>3. User.at # "sendb" /\ User.at # "receiveb" BY DEF User, Frame
<1>4. Senders
  <2>1. \A r \in Pid : SndSet(prstate, frame, r) = {} BY <1>2 DEF SndSet
  <2>2. Lists(<<>>, {}) BY DEF Lists, NoDup
  <2> QED BY <1>2, <1>3, <2>1, <2>2 DEF Senders
<1>5. InReceiveb BY <1>2, <1>3 DEF InReceiveb
<1>6. Releases BY <1>2 DEF Releases
<1>7. sent \in Seq([from : Pid, to : Pid]) /\ got \in Seq([msg : Nat, by : Pid]) /\ DOMAIN got = {}
  BY <1>2
<1>8. Letters BY <1>2, <1>3, <1>7 DEF Letters
<1>9. Mail BY <1>2, <1>7 DEF Mail
<1>10. ReceivedInOrder BY <1>2, <1>7 DEF ReceivedInOrder
<1>11. Woken BY <1>2 DEF Woken
<1> QED BY <1>1, <1>4, <1>5, <1>6, <1>8, <1>9, <1>10, <1>11 DEF IPCInv

(* The invariants of the kernel and of lab 3 hold together. *)
THEOREM IPCInvariant == IPCSpec => [](IInv /\ IPCInv)
BY IPCInitInv, IPCKeepsIInv, IPCNextInv, PTL DEF IPCSpec

(* The queues of the kernel still match the states of the processes when   *)
(* the calls of lab 3 share its process table.                             *)
THEOREM IPCQueuesMatch == IPCSpec => []QueuesMatchStates
BY IPCInvariant, IInvQueues, PTL

(* The list of a receiver holds those who wait to send to it, once each.   *)
LEMMA SendersOnQueue == Senders => SendersWait
<1> SUFFICES ASSUME Senders, NEW p \in Pid, NEW r \in Pid
             PROVE  OnQueue(receivelist[r], p,
                            /\ prstate[p] = "SND"
                            /\ frame[p].at = "sendb" /\ frame[p].arg = r)
  BY DEF SendersWait
<1>1. Lists(receivelist[r], SndSet(prstate, frame, r)) BY DEF Senders
<1>2. (/\ prstate[p] = "SND"
       /\ frame[p].at = "sendb" /\ frame[p].arg = r) <=> p \in SndSet(prstate, frame, r)
  BY DEF Senders, SndSet
<1> QED BY <1>1, <1>2, ListsOnQueue

(* A process is in PR_SND exactly while it stands on the list of the one   *)
(* process it is sending to, once: what receiveb() takes off a list is a   *)
(* sender it can release.                                                  *)
THEOREM SendersAlwaysWait == IPCSpec => []SendersWait
BY IPCInvariant, SendersOnQueue, PTL DEF IPCInv

(* While senders wait for a mailbox, it holds a message that its owner is  *)
(* awake to take, or the sender that receiveb() released will look at it;  *)
(* but for an owner that used recvtime(), and for one that a released      *)
(* sender left asleep on its message.                                      *)
THEOREM ReleasesGoOn == IPCSpec => []ReleaseGoesOn
<1>1. Releases /\ Woken => ReleaseGoesOn BY DEF Releases, Woken, ReleaseGoesOn, Awake
<1> QED BY <1>1, IPCInvariant, PTL DEF IPCInv

(* A message once in a mailbox stays there until it is received; it is     *)
(* received once, by the process it was sent to, after the earlier         *)
(* messages of its sender, and after all earlier ones of other senders     *)
(* that its owner receives unless its own sender had to wait.              *)
THEOREM MessagesInOrder == IPCSpec => []ReceivedInOrder
BY IPCInvariant, PTL DEF IPCInv
=============================================================================
