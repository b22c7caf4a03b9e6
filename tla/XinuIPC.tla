------------------------------ MODULE XinuIPC ------------------------------
(***************************************************************************)
(* The interprocess communication added in lab 3: sendb() and receiveb(),  *)
(* where a sender waits while the mailbox is full, and senda() with        *)
(* registercb(), a call-back that runs in the sender.                      *)
(*                                                                         *)
(* create() also takes two queues from the queue table for each process,   *)
(* and kill() never gives them back: the instances create no more          *)
(* processes than the table has queues for (NPROC \div 2 in the code).     *)
(***************************************************************************)
EXTENDS XinuKernel

CONSTANTS
    MaxMsgs,    \* bound: the number of messages sent
    Mailboxes,  \* bound: the processes that are sent messages, and register call-backs
    Stacks      \* bound: what create() gets from getstk(): a stack, or none

ASSUME IPCAssumption ==
    MaxMsgs \in Nat /\ Mailboxes \subseteq Pid /\ Stacks \subseteq BOOLEAN

VARIABLES
    receivelist,    \* proctab[].receivelist: senders that wait for p's mailbox
    prmsg,          \* proctab[].prmsg, as a number of the message in `sent`
    func,           \* proctab[].func: was a call-back registered?
    sent,           \* auxiliary: the messages in the order of the calls to sendb()
    stored,         \* auxiliary: those that were put in a mailbox
    got,            \* auxiliary: the messages in the order they were received
    waited,         \* auxiliary: the messages whose sender had to wait
    bypassed,       \* auxiliary: who took a message with recvtime(), which
                    \* knows nothing of the senders that wait
    unwoken         \* auxiliary: who was left asleep by a released sender that
                    \* put its message in the mailbox

history == <<sent, stored, got, waited, bypassed, unwoken>>
ipcVars == <<receivelist, prmsg, func, history>>

(* The next message, from the process that runs to p. *)
Message(p) == [from |-> currpid, to |-> p]

Sending(p) ==
    /\ Calling("sendb")
    /\ ~Isbadpid(p)
    /\ Len(sent) < MaxMsgs
    /\ sent' = Append(sent, Message(p))

(* An empty mailbox: as send() does. *)
SendbDirect(p) ==
    LET m == Len(sent) + 1
    IN  /\ Sending(p)
        /\ ~prhasmsg[p]
        /\ Deliver(p)
        /\ prmsg' = [prmsg EXCEPT ![p] = m]
        /\ stored' = stored \cup {m}
        /\ UNCHANGED <<tableVars, frame, semVars, receivelist, func, got, waited,
                       bypassed, unwoken>>

(* Mutant: the sender waits on its own list instead of the recipient's. *)
SendbBlock_OwnList(p) ==
    LET m == Len(sent) + 1
    IN  /\ Sending(p)
        /\ prhasmsg[p]
        /\ frame' = [frame EXCEPT ![currpid] = Frame("sendb", p, m)]
        /\ receivelist' = [receivelist EXCEPT ![currpid] = Append(@, currpid)]
        /\ waited' = waited \cup {m}
        /\ Block("SND", qkey)
        /\ UNCHANGED <<tableVars, semVars, clockVars, prhasmsg, prmsg, func, stored, got,
                       bypassed, unwoken>>

(* A full one: the sender waits behind those that came before it. *)
SendbBlock(p) ==
    LET m == Len(sent) + 1
    IN  /\ Sending(p)
        /\ prhasmsg[p]
        /\ frame' = [frame EXCEPT ![currpid] = Frame("sendb", p, m)]
        /\ receivelist' = [receivelist EXCEPT ![p] = Append(@, currpid)]
        /\ waited' = waited \cup {m}
        /\ Block("SND", qkey)
        /\ UNCHANGED <<tableVars, semVars, clockVars, prhasmsg, prmsg, func, stored, got,
                       bypassed, unwoken>>

(* In receiveb() or recvtime(), until somebody makes it ready. *)
Asleep(p) == prstate[p] \in {"RECV", "RECTIM"}

(* Mutant: the sender looks at nothing and overwrites what is there. *)
SendbResume_Overwrites ==
    LET p == frame[currpid].arg
        m == frame[currpid].num
    IN  /\ At("sendb")
        /\ prmsg' = [prmsg EXCEPT ![p] = m]
        /\ prhasmsg' = [prhasmsg EXCEPT ![p] = TRUE]
        /\ stored' = stored \cup {m}
        /\ unwoken' = IF Asleep(p) THEN unwoken \cup {p} ELSE unwoken
        /\ Return
        /\ UNCHANGED <<schedVars, tableVars, semVars, clockVars, receivelist, func, sent,
                       got, waited, bypassed>>

(* Released, the sender looks at the mailbox once more, and returns OK     *)
(* whether it could put its message there or not: a message that finds the *)
(* mailbox full again is dropped.  A recipient that went back to sleep in  *)
(* the meantime is not made ready.                                         *)
SendbResume ==
    LET p == frame[currpid].arg
        m == frame[currpid].num
    IN  /\ At("sendb")
        /\ IF prhasmsg[p]
           THEN UNCHANGED <<prmsg, prhasmsg, stored, unwoken>>
           ELSE /\ prmsg' = [prmsg EXCEPT ![p] = m]
                /\ prhasmsg' = [prhasmsg EXCEPT ![p] = TRUE]
                /\ stored' = stored \cup {m}
                /\ unwoken' = IF Asleep(p) THEN unwoken \cup {p} ELSE unwoken
        /\ Return
        /\ UNCHANGED <<schedVars, tableVars, semVars, clockVars, receivelist, func, sent,
                       got, waited, bypassed>>

(* receiveb() waits for a message as receive() does. *)
Receiveb ==
    /\ Calling("receiveb")
    /\ frame' = [frame EXCEPT ![currpid] = Frame("receiveb", 0, 0)]
    /\ IF prhasmsg[currpid] THEN UNCHANGED schedVars ELSE Block("RECV", qkey)
    /\ UNCHANGED <<tableVars, semVars, clockVars, prhasmsg, ipcVars>>

(* Mutant: nobody is released. *)
ReceivebTake_NoRelease ==
    /\ At("receiveb")
    /\ got' = Append(got, [msg |-> prmsg[currpid], by |-> currpid])
    /\ prhasmsg' = [prhasmsg EXCEPT ![currpid] = FALSE]
    /\ Return
    /\ UNCHANGED <<receivelist, schedVars, tableVars, semVars, clockVars, prmsg, func,
                   sent, stored, waited, bypassed, unwoken>>

(* The message is taken and the first sender that waits is made ready. *)
ReceivebTake ==
    /\ At("receiveb")
    /\ got' = Append(got, [msg |-> prmsg[currpid], by |-> currpid])
    /\ prhasmsg' = [prhasmsg EXCEPT ![currpid] = FALSE]
    /\ Return
    /\ IF receivelist[currpid] = <<>>
       THEN UNCHANGED <<receivelist, schedVars>>
       ELSE /\ receivelist' = [receivelist EXCEPT ![currpid] = Tail(@)]
            /\ IF Isbadpid(Head(receivelist[currpid]))
               THEN UNCHANGED schedVars
               ELSE Ready(Head(receivelist[currpid]), qkey, RESCHED_YES)
    /\ UNCHANGED <<tableVars, semVars, clockVars, prmsg, func, sent, stored, waited,
                   bypassed, unwoken>>

(* recvtime() is the kernel's own: see XinuMsg. *)
TimedTake ==
    /\ RecvtimeTake
    /\ IF prhasmsg[currpid]
       THEN /\ got' = Append(got, [msg |-> prmsg[currpid], by |-> currpid])
            /\ bypassed' = bypassed \cup {currpid}
       ELSE UNCHANGED <<got, bypassed>>
    /\ UNCHANGED <<semVars, receivelist, prmsg, func, sent, stored, waited, unwoken>>

Registercb ==
    /\ Calling("registercb")
    /\ func' = [func EXCEPT ![currpid] = TRUE]
    /\ UNCHANGED <<schedVars, tableVars, frame, semVars, clockVars, prhasmsg,
                   receivelist, prmsg, history>>

(* Mutant: the recipient is readied where it sleeps. *)
Senda_StaysAsleep(p) ==
    /\ Calling("senda")
    /\ Sendable(p)
    /\ func[p]
    /\ IF prstate[p] = "RECTIM" THEN ReadyResched(p, qkey) ELSE UNCHANGED schedVars
    /\ UNCHANGED <<clockVars, tableVars, frame, semVars, prhasmsg, ipcVars>>

(* senda() runs the recipient's call-back in the sender and leaves the     *)
(* message nowhere; a recipient in recvtime() is woken without one.        *)
Senda(p) ==
    /\ Calling("senda")
    /\ Sendable(p)
    /\ func[p]
    /\ IF prstate[p] = "RECTIM"
       THEN Unsleep(p) /\ ReadyResched(p, UnsleepKeys(sleepq, qkey, p))
       ELSE UNCHANGED <<schedVars, clockVars>>
    /\ UNCHANGED <<tableVars, frame, semVars, prhasmsg, ipcVars>>

(* Nothing tests whether there is a call-back: without one the sender      *)
(* calls address 0, and exception() stops the system.                      *)
SendaCrash(p) ==
    /\ Calling("senda")
    /\ Sendable(p)
    /\ ~func[p]
    /\ halted' = TRUE
    /\ UNCHANGED <<schedVars, frame, prprio, prparent, prcount, nextpid, clockVars,
                   semVars, prhasmsg, ipcVars>>

(* create() gives the new process an empty list; its call-back is whatever *)
(* the last process in the slot had registered.                            *)
CreateWithList(p, prio, stack) ==
    /\ CreateProcess(p, prio, stack)
    /\ receivelist' = IF stack THEN [receivelist EXCEPT ![p] = <<>>] ELSE receivelist
    /\ UNCHANGED <<prmsg, func, history>>

IPCCall ==
    \/ \E p \in Mailboxes : SendbDirect(p)
    \/ \E p \in Mailboxes : SendbBlock(p)
    \/ SendbResume
    \/ Receiveb
    \/ ReceivebTake
    \/ \E maxwait \in MaxWaits : Recvtime(maxwait) /\ UNCHANGED <<semVars, ipcVars>>
    \/ TimedTake
    \/ currpid \in Mailboxes /\ Registercb
    \/ \E p \in Mailboxes : Senda(p)
    \/ \E p \in Mailboxes : SendaCrash(p)

IPCInit ==
    /\ Init
    /\ receivelist = [p \in Pid |-> <<>>]
    /\ prmsg = [p \in Pid |-> 0]
    /\ func = [p \in Pid |-> FALSE]
    /\ sent = <<>>
    /\ stored = {}
    /\ got = <<>>
    /\ waited = {}
    /\ bypassed = {}
    /\ unwoken = {}

IPCNext ==
    \/ IPCCall
    \/ \E p \in Pid, prio \in Prios, stack \in Stacks : CreateWithList(p, prio, stack)
    \/ SchedCall /\ UNCHANGED <<semVars, clockVars, prhasmsg, ipcVars>>
    \/ ClockStep /\ UNCHANGED <<semVars, prhasmsg, ipcVars>>
    \/ Halt /\ UNCHANGED ipcVars

IPCSpec == IPCInit /\ [][IPCNext]_<<vars, ipcVars>>
----------------------------------------------------------------------------
(* A process is in PR_SND exactly while it stands on the list of the one    *)
(* process it is sending to; what receiveb() takes off a list is a sender   *)
(* it can release.                                                          *)
SendersWait ==
    \A p, r \in Pid :
        OnQueue(receivelist[r], p,
                /\ prstate[p] = "SND"
                /\ frame[p].at = "sendb" /\ frame[p].arg = r)

(* Nobody waits in sendb() for what will not come: while senders wait for  *)
(* a mailbox, it holds a message that its owner is awake to take, or a     *)
(* sender was released and is about to look.  Nobody sleeps on a full      *)
(* mailbox.  Both end for an owner that used recvtime() meanwhile, and for *)
(* one that a released sender left asleep: then they wait for ever.        *)
ReleaseGoesOn ==
    /\ \A r \in Pid \ unwoken : ~(prhasmsg[r] /\ Asleep(r))
    /\ \A r \in Pid \ (bypassed \cup unwoken) :
           receivelist[r] # <<>> =>
               \/ prhasmsg[r] /\ ~Asleep(r)
               \/ \E p \in Pid : /\ frame[p].at = "sendb" /\ frame[p].arg = r
                                /\ prstate[p] \in {"CURR", "READY", "SUSP"}

(* Of the messages that reach a mailbox: each stays there until it is      *)
(* received, whoever sends meanwhile, and is received once, by the process *)
(* it was sent to; the messages of one sender are received in the order it *)
(* sent them; of several senders, only a message whose sender had to wait  *)
(* can be received after one that was sent later.                          *)
ReceivedInOrder ==
    /\ \A m \in stored :
           \/ \E i \in DOMAIN got : got[i].msg = m
           \/ prhasmsg[sent[m].to] /\ prmsg[sent[m].to] = m
    /\ \A j \in DOMAIN got :
           /\ got[j].msg \in DOMAIN sent
           /\ sent[got[j].msg].to = got[j].by
           /\ \A i \in 1 .. j - 1 :
                  /\ got[i].msg # got[j].msg
                  /\ sent[got[i].msg] = sent[got[j].msg] => got[i].msg < got[j].msg
                  /\ got[i].by = got[j].by /\ got[j].msg \notin waited =>
                         got[i].msg < got[j].msg

(* Every message whose sendb() has returned, with OK, is or was in the     *)
(* mailbox: what the tests of lab 3 ask for first.  A released sender that *)
(* finds the mailbox full again gives its message up.                      *)
EverySentArrives ==
    \A m \in DOMAIN sent :
        \/ m \in stored
        \/ \E p \in Pid : frame[p].at = "sendb" /\ frame[p].num = m
=============================================================================
