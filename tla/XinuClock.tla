----------------------------- MODULE XinuClock -----------------------------
(***************************************************************************)
(* The clock interrupt, the sleep queue (a delta list) and sleepms().      *)
(***************************************************************************)
EXTENDS XinuSched

CONSTANTS
    Delays,     \* the delays sleepms() is called with, in milliseconds
    WordSize    \* bound: 2^32 in the code; delays are unsigned words, keys signed

ASSUME ClockAssumption ==
    /\ WordSize \in Nat /\ WordSize >= 2
    /\ Delays \subseteq 1 .. WordSize - 1

VARIABLES
    sleepq,     \* the delta list of processes in PR_SLEEP and PR_RECTIM
    remaining   \* auxiliary: clock ticks until the delay a process waits out
                \* is over, counted down one for each tick; 0 once it is over,
                \* or when a message or kill() ends the wait

clockVars == <<sleepq, remaining>>

(* The conversion of a uint32 delay to insertd()'s int32 key. *)
Int32(delay) == IF delay < WordSize \div 2 THEN delay ELSE delay - WordSize

(* insertd(currpid, sleepq, delay) and giving up the processor in state s. *)
SleepFor(delay, s) ==
    LET keys == InsertdKeys(sleepq, qkey, currpid, Int32(delay))
    IN  /\ sleepq' = Insertd(sleepq, qkey, currpid, Int32(delay))
        /\ remaining' = [remaining EXCEPT ![currpid] = delay]
        /\ Block(s, keys)

(* sleepms(0) only yields: see Yield. *)
Sleepms(delay) ==
    /\ Calling("sleepms")
    /\ SleepFor(delay, "SLEEP")
    /\ UNCHANGED <<tableVars, frame>>

(***************************************************************************)
(* clkhandler(): it runs on the stack of the interrupted process, so the   *)
(* tail of the handler waits there while wakeup() gives the processor to   *)
(* others.                                                                 *)
(***************************************************************************)
(* Mutant: ticks are not charged to the sleepers while the system idles. *)
Clkhandler_IdleStops ==
    LET first == Head(sleepq)
        due   == sleepq # <<>> /\ qkey[first] - 1 <= 0
    IN  /\ ~halted
        /\ frame[currpid] = User
        /\ qkey' = IF sleepq = <<>> \/ currpid = NULLPROC THEN qkey
                   ELSE [qkey EXCEPT ![first] = @ - 1]
        /\ remaining' = [p \in Pid |-> IF remaining[p] > 0 THEN remaining[p] - 1
                                                           ELSE 0]
        /\ frame' = [frame EXCEPT ![currpid] =
                        Frame(IF due THEN "wakeup" ELSE "clk", 0, 0)]
        /\ UNCHANGED <<prstate, readylist, currpid, preempt, defer, tableVars, sleepq>>

Clkhandler ==
    LET first == Head(sleepq)
        due   == sleepq # <<>> /\ qkey[first] - 1 <= 0
    IN  /\ ~halted
        /\ frame[currpid] = User
        /\ qkey' = IF sleepq = <<>> THEN qkey ELSE [qkey EXCEPT ![first] = @ - 1]
        /\ remaining' = [p \in Pid |-> IF remaining[p] > 0 THEN remaining[p] - 1
                                                           ELSE 0]
        /\ frame' = [frame EXCEPT ![currpid] =
                        Frame(IF due THEN "wakeup" ELSE "clk", 0, 0)]
        /\ UNCHANGED <<prstate, readylist, currpid, preempt, defer, tableVars, sleepq>>

(* Mutant: off by one, a process is woken one tick early. *)
WakeupLoop_Early ==
    LET first == Head(sleepq)
    IN  /\ At("wakeup")
        /\ sleepq # <<>>
        /\ qkey[first] <= 1
        /\ sleepq' = Tail(sleepq)
        /\ ReadyOnly(first, qkey)
        /\ UNCHANGED <<tableVars, frame, remaining>>

WakeupLoop ==
    LET first == Head(sleepq)
    IN  /\ At("wakeup")
        /\ sleepq # <<>>
        /\ qkey[first] <= 0
        /\ sleepq' = Tail(sleepq)
        /\ ReadyOnly(first, qkey)
        /\ UNCHANGED <<tableVars, frame, remaining>>

(* Mutant: wakeup() does not reschedule at its end. *)
WakeupDone_NoResched ==
    /\ At("wakeup")
    /\ sleepq # <<>> => qkey[Head(sleepq)] > 0
    /\ frame' = [frame EXCEPT ![currpid] = Frame("clk", 0, 0)]
    /\ UNCHANGED <<schedVars, tableVars, clockVars>>

WakeupDone ==
    /\ At("wakeup")
    /\ sleepq # <<>> => qkey[Head(sleepq)] > 0
    /\ frame' = [frame EXCEPT ![currpid] = Frame("clk", 0, 0)]
    /\ Resched(prstate, readylist, qkey, preempt)
    /\ UNCHANGED <<tableVars, clockVars>>

(* Mutant: the time slice is renewed only when another process is chosen. *)
ClkPreempt_NotRenewed ==
    /\ At("clk")
    /\ Return
    /\ IF preempt - 1 <= 0
       THEN Resched(prstate, readylist, qkey, preempt - 1)
       ELSE /\ preempt' = preempt - 1
            /\ UNCHANGED <<prstate, qkey, readylist, currpid, defer>>
    /\ UNCHANGED <<tableVars, clockVars>>

(* The end of the handler: charge the tick to the running time slice. *)
ClkPreempt ==
    /\ At("clk")
    /\ Return
    /\ IF preempt - 1 <= 0
       THEN Resched(prstate, readylist, qkey, QUANTUM)
       ELSE /\ preempt' = preempt - 1
            /\ UNCHANGED <<prstate, qkey, readylist, currpid, defer>>
    /\ UNCHANGED <<tableVars, clockVars>>

(* unsleep(p): p leaves the sleep queue, and its delay is given up.  What   *)
(* becomes of the keys is UnsleepKeys.                                      *)
Unsleep(p) ==
    /\ sleepq' = Getitem(sleepq, p)
    /\ remaining' = [remaining EXCEPT ![p] = 0]

ClockStep ==
    \/ \E delay \in Delays : Sleepms(delay)
    \/ Clkhandler
    \/ WakeupLoop
    \/ WakeupDone
    \/ ClkPreempt

ClockInit ==
    /\ sleepq = <<>>
    /\ remaining = [p \in Pid |-> 0]
=============================================================================
