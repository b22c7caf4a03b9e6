----------------------------- MODULE XinuSched -----------------------------
(***************************************************************************)
(* The process table, the ready list and the scheduler of the Xinu kernel, *)
(* with the calls that create, resume, suspend and re-prioritise           *)
(* processes.                                                              *)
(*                                                                         *)
(* One processor: a kernel call runs with interrupts disabled from its     *)
(* first line to its restore(), except that resched() may switch to        *)
(* another process in the middle of it.  An action is therefore a call up  *)
(* to its resched(); what the call does after that is kept in frame[p],    *)
(* the rest of the call on p's stack, and is the only thing p can do when  *)
(* it becomes current again.  A loop inside a call is one step for each    *)
(* iteration: interrupts are off and no other process can run in between.  *)
(* Calls that return SYSERR without touching anything are not steps.       *)
(***************************************************************************)
EXTENDS XinuQueue

CONSTANTS
    NPROC,      \* entries of proctab[]
    QUANTUM,    \* clock ticks in a time slice
    Prios,      \* the priorities processes are created with
    NewPrios,   \* the priorities chprio() is called with
    Reniced,    \* bound: the processes it is called for
    Calls       \* the kernel calls that processes make in this instance

Pid      == 0 .. NPROC - 1
NULLPROC == 0

ASSUME SchedAssumption ==
    /\ NPROC \in Nat /\ NPROC >= 2
    /\ QUANTUM \in Nat \ {0}
    /\ Prios \subseteq Int /\ \A x \in Prios : x > 0
    /\ NewPrios \subseteq Int
    /\ Reniced \subseteq Pid

VARIABLES
    prstate,    \* proctab[].prstate
    prprio,     \* proctab[].prprio
    prparent,   \* proctab[].prparent
    frame,      \* the rest of the kernel call each process is in
    qkey,       \* queuetab[].qkey of the processes
    readylist,  \* the ready list
    currpid,    \* the process that has the processor
    preempt,    \* ticks left in its time slice
    defer,      \* struct Defer: ndefers and attempt
    prcount,    \* "currently active processes"
    nextpid,    \* newpid()'s static scan position
    halted      \* xdone() was called: halt() loops for ever

schedVars == <<prstate, qkey, readylist, currpid, preempt, defer>>
tableVars == <<prprio, prparent, prcount, nextpid, halted>>

(* SND is the state that lab 3 adds for sendb(): see XinuIPC. *)
PrStates == {"FREE", "CURR", "READY", "RECV", "SLEEP", "SUSP", "WAIT", "RECTIM", "SND"}

(* Where a process is: in its own code with interrupts on ("user"), or at  *)
(* the named point of a kernel call, with that call's locals.  The last    *)
(* two are calls of lab 3.                                                 *)
Points == {"user", "receive", "recvtime", "kill", "wakeup", "clk",
           "signaln", "semdelete", "semreset", "intr", "sendb", "receiveb"}

Frame(point, x, n) == [at |-> point, arg |-> x, num |-> n]

User == Frame("user", 0, 0)

(* currpid runs its own code, and may call the kernel. *)
Calling(call) ==
    /\ call \in Calls
    /\ ~halted
    /\ currpid # NULLPROC
    /\ frame[currpid] = User

(* currpid is at a point inside a call and goes on from there. *)
At(point) == ~halted /\ frame[currpid].at = point

Return == frame' = [frame EXCEPT ![currpid] = User]

(* isbadpid() *)
Isbadpid(p) == p \notin Pid \/ prstate[p] = "FREE"
----------------------------------------------------------------------------
(***************************************************************************)
(* resched(): the intermediate values of the tables are parameters, since  *)
(* callers change them first.  While rescheduling is deferred only the     *)
(* attempt is recorded.                                                    *)
(***************************************************************************)
KeepsProcessor(st, rl, keys) ==
    /\ st[currpid] = "CURR"
    /\ rl = <<>> \/ prprio[currpid] > keys[Head(rl)]

Requeued(st, rl, keys) ==
    IF st[currpid] = "CURR" THEN Insert(rl, keys, currpid, prprio[currpid])
                            ELSE rl

Switch(st, rl, keys, slice) ==
    IF KeepsProcessor(st, rl, keys)
    THEN /\ prstate' = st
         /\ readylist' = rl
         /\ qkey' = keys
         /\ preempt' = slice
         /\ UNCHANGED currpid
    ELSE LET old   == currpid
             stays == st[old] = "CURR"
             queue == Requeued(st, rl, keys)
             new   == Head(queue)
         IN  /\ currpid' = new
             /\ readylist' = Tail(queue)
             /\ prstate' = [p \in Pid |-> IF p = new THEN "CURR"
                                          ELSE IF p = old /\ stays THEN "READY"
                                          ELSE st[p]]
             /\ qkey' = IF stays THEN [keys EXCEPT ![old] = prprio[old]] ELSE keys
             /\ preempt' = QUANTUM

Deferred(st, rl, keys, slice) ==
    /\ defer' = [defer EXCEPT !.attempt = TRUE]
    /\ prstate' = st
    /\ readylist' = rl
    /\ qkey' = keys
    /\ preempt' = slice
    /\ UNCHANGED currpid

Resched(st, rl, keys, slice) ==
    IF defer.ndefers > 0
    THEN Deferred(st, rl, keys, slice)
    ELSE Switch(st, rl, keys, slice) /\ UNCHANGED defer

(***************************************************************************)
(* ready(p, RESCHED_YES) and ready(p, RESCHED_NO), given the queue keys at *)
(* the time of the call.  ready() refuses a free slot; the invariant       *)
(* QueuesMatchStates says that no caller ever offers it one.               *)
(***************************************************************************)
ReadyState(p)      == [prstate EXCEPT ![p] = "READY"]
ReadyList(p, keys) == Insert(readylist, keys, p, prprio[p])
ReadyKeys(p, keys) == [keys EXCEPT ![p] = prprio[p]]

ReadyResched(p, keys) ==
    Resched(ReadyState(p), ReadyList(p, keys), ReadyKeys(p, keys), preempt)

ReadyOnly(p, keys) ==
    /\ prstate' = ReadyState(p)
    /\ readylist' = ReadyList(p, keys)
    /\ qkey' = ReadyKeys(p, keys)
    /\ UNCHANGED <<currpid, preempt, defer>>

RESCHED_YES == TRUE
RESCHED_NO  == FALSE

Ready(p, keys, resch) == IF resch THEN ReadyResched(p, keys) ELSE ReadyOnly(p, keys)

(* The caller leaves the processor in state s. *)
Block(s, keys) ==
    Resched([prstate EXCEPT ![currpid] = s], readylist, keys, preempt)
----------------------------------------------------------------------------
(***************************************************************************)
(* System calls.                                                           *)
(***************************************************************************)

(* newpid(): the first free slot at or after nextpid, cyclically. *)
Distance(p) == (p - nextpid) % NPROC

Newpid(p) ==
    /\ prstate[p] = "FREE"
    /\ \A q \in Pid : prstate[q] = "FREE" => Distance(p) <= Distance(q)

(* create().  Without memory for a stack, getstk() fails after newpid()    *)
(* has moved on.  The per-message part of the entry is set by XinuKernel.  *)
Create(p, prio, stack) ==
    /\ Calling("create")
    /\ Newpid(p)
    /\ nextpid' = (p + 1) % NPROC
    /\ IF stack
       THEN /\ prcount' = prcount + 1
            /\ prstate' = [prstate EXCEPT ![p] = "SUSP"]
            /\ prprio' = [prprio EXCEPT ![p] = prio]
            /\ prparent' = [prparent EXCEPT ![p] = currpid]
            /\ frame' = [frame EXCEPT ![p] = User]
       ELSE UNCHANGED <<prcount, prstate, prprio, prparent, frame>>
    /\ UNCHANGED <<qkey, readylist, currpid, preempt, defer, halted>>

Resume(p) ==
    /\ Calling("resume")
    /\ prstate[p] = "SUSP"
    /\ ReadyResched(p, qkey)
    /\ UNCHANGED <<tableVars, frame>>

SuspendReady(p) ==
    /\ Calling("suspend")
    /\ p # NULLPROC
    /\ prstate[p] = "READY"
    /\ prstate' = [prstate EXCEPT ![p] = "SUSP"]
    /\ readylist' = Getitem(readylist, p)
    /\ UNCHANGED <<qkey, currpid, preempt, defer, tableVars, frame>>

SuspendSelf ==
    /\ Calling("suspend")
    /\ Block("SUSP", qkey)
    /\ UNCHANGED <<tableVars, frame>>

(* chprio() sets the field and nothing else: a process on the ready list   *)
(* keeps the place its old priority gave it.                               *)
Chprio(p, prio) ==
    /\ Calling("chprio")
    /\ ~Isbadpid(p)
    /\ prprio' = [prprio EXCEPT ![p] = prio]
    /\ UNCHANGED <<schedVars, frame, prparent, prcount, nextpid, halted>>

(* yield(), which is also what sleepms(0) does. *)
Yield ==
    /\ Calling("yield")
    /\ Resched(prstate, readylist, qkey, preempt)
    /\ UNCHANGED <<tableVars, frame>>

SchedCall ==
    \/ \E p \in Pid : Resume(p)
    \/ \E p \in Pid : SuspendReady(p)
    \/ SuspendSelf
    \/ \E p \in Reniced, prio \in NewPrios : Chprio(p, prio)
    \/ Yield
----------------------------------------------------------------------------
(* nulluser() has created and resumed main, which runs; the null process,  *)
(* of priority 0, is ready.                                                *)
SchedInit ==
    \E prio \in Prios :
        /\ prstate = [p \in Pid |-> CASE p = 0 -> "READY"
                                      [] p = 1 -> "CURR"
                                      [] OTHER -> "FREE"]
        /\ prprio = [p \in Pid |-> IF p = 1 THEN prio ELSE 0]
        /\ prparent = [p \in Pid |-> NULLPROC]
        /\ frame = [p \in Pid |-> User]
        /\ qkey = [p \in Pid |-> 0]
        /\ readylist = <<NULLPROC>>
        /\ currpid = 1
        /\ preempt = QUANTUM
        /\ defer = [ndefers |-> 0, attempt |-> FALSE]
        /\ prcount = 2
        /\ nextpid = 2 % NPROC
        /\ halted = FALSE
=============================================================================
