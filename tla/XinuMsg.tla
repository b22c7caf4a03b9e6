------------------------------ MODULE XinuMsg ------------------------------
(***************************************************************************)
(* One-message mailboxes: send, receive, recvclr and recvtime.  What is    *)
(* in a message is left out; whether there is one is prhasmsg.             *)
(***************************************************************************)
EXTENDS XinuClock

CONSTANT MaxWaits   \* the waits recvtime() is called with, in ticks

ASSUME MsgAssumption == MaxWaits \subseteq 0 .. WordSize \div 2 - 1

VARIABLE prhasmsg   \* proctab[].prhasmsg

(* send() refuses a free slot and a mailbox that is full. *)
Sendable(p) == ~Isbadpid(p) /\ ~prhasmsg[p]

(* Mutant: a process in recvtime() is not taken off the sleep queue. *)
Deliver_StaysAsleep(p) ==
    /\ prhasmsg' = [prhasmsg EXCEPT ![p] = TRUE]
    /\ UNCHANGED clockVars
    /\ IF prstate[p] \in {"RECV", "RECTIM"}
       THEN ReadyResched(p, qkey)
       ELSE UNCHANGED schedVars

(* Mutant: the state PR_RECTIM is forgotten. *)
Deliver_OnlyRecv(p) ==
    /\ prhasmsg' = [prhasmsg EXCEPT ![p] = TRUE]
    /\ UNCHANGED clockVars
    /\ IF prstate[p] = "RECV" THEN ReadyResched(p, qkey) ELSE UNCHANGED schedVars

(* What send(p, msg) does to the recipient, from any caller. *)
Deliver(p) ==
    /\ prhasmsg' = [prhasmsg EXCEPT ![p] = TRUE]
    /\ CASE prstate[p] = "RECV"   -> ReadyResched(p, qkey) /\ UNCHANGED clockVars
         [] prstate[p] = "RECTIM" -> /\ Unsleep(p)
                                     /\ ReadyResched(p, UnsleepKeys(sleepq, qkey, p))
         [] OTHER                 -> UNCHANGED <<schedVars, clockVars>>

Send(p) ==
    /\ Calling("send")
    /\ Sendable(p)
    /\ Deliver(p)
    /\ UNCHANGED <<tableVars, frame>>

(* receive(): the message is taken after the resched(), unconditionally. *)
Receive ==
    /\ Calling("receive")
    /\ frame' = [frame EXCEPT ![currpid] = Frame("receive", 0, 0)]
    /\ IF prhasmsg[currpid] THEN UNCHANGED schedVars ELSE Block("RECV", qkey)
    /\ UNCHANGED <<tableVars, clockVars, prhasmsg>>

ReceiveTake ==
    /\ At("receive")
    /\ prhasmsg' = [prhasmsg EXCEPT ![currpid] = FALSE]
    /\ Return
    /\ UNCHANGED <<schedVars, tableVars, clockVars>>

Recvtime(maxwait) ==
    /\ Calling("recvtime")
    /\ frame' = [frame EXCEPT ![currpid] = Frame("recvtime", 0, 0)]
    /\ IF prhasmsg[currpid] THEN UNCHANGED <<schedVars, clockVars>>
                            ELSE SleepFor(maxwait, "RECTIM")
    /\ UNCHANGED <<tableVars, prhasmsg>>

(* Either a message arrived or the timer expired: TIMEOUT is returned. *)
RecvtimeTake ==
    /\ At("recvtime")
    /\ prhasmsg' = [prhasmsg EXCEPT ![currpid] = FALSE]
    /\ Return
    /\ UNCHANGED <<schedVars, tableVars, clockVars>>

Recvclr ==
    /\ Calling("recvclr")
    /\ prhasmsg[currpid]
    /\ prhasmsg' = [prhasmsg EXCEPT ![currpid] = FALSE]
    /\ UNCHANGED <<schedVars, tableVars, clockVars, frame>>

MsgCall ==
    \/ \E p \in Pid : Send(p)
    \/ Receive
    \/ ReceiveTake
    \/ \E maxwait \in MaxWaits : Recvtime(maxwait)
    \/ RecvtimeTake
    \/ Recvclr

MsgInit == prhasmsg = [p \in Pid |-> FALSE]
=============================================================================
