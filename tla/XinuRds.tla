------------------------------ MODULE XinuRds ------------------------------
(***************************************************************************)
(* The remote disk driver (device/rds): processes read and write blocks    *)
(* through a queue of requests and a cache, a process of the driver        *)
(* exchanges messages with the server, and the network loses some.         *)
(*                                                                         *)
(* The driver uses no mutual exclusion, but its calls run with interrupts  *)
(* off, so a call is cut only where it waits: for a buffer after it has    *)
(* searched the lists, and for the answer.  The driver's process has a     *)
(* higher priority than its callers, so what it does between two waits is  *)
(* one step.                                                               *)
(*                                                                         *)
(* Processes may share blocks, but the disk is opened and closed while no  *)
(* other call is in progress.  A device is open from rdsOpen() on until    *)
(* rdsClose() has returned OK.                                             *)
(***************************************************************************)
EXTENDS SemValue, RdServer

CONSTANTS
    Procs,
    RDSPROC,        \* the driver's process
    RD_BUFFS,       \* the buffers
    RD_RETRIES,
    Uses,           \* the blocks that each process reads and writes
    Unused,         \* the block number of a sync request
    Late,           \* may a message outlive the time limit of its exchange?
    MaxCalls,       \* bound: the calls made
    MaxLost         \* bound: the messages lost

ASSUME RdsAssumption ==
    /\ RDSPROC \notin Procs
    /\ {RD_BUFFS, RD_RETRIES} \subseteq Nat \ {0} /\ {MaxCalls, MaxLost} \subseteq Nat
    /\ Uses \in [Procs -> SUBSET Blocks] /\ Late \in BOOLEAN

VARIABLES
    rdstate, rdseq,
    buf,            \* the fields of each buffer, and
    reqq,           \* the lists it is on: the request queue,
    cache,          \* the cache, newest first,
    free,           \* and the free list
    availsem, reqsem,
    mail,           \* the message each process has
    pc,             \* the calls in progress
    comm,           \* the exchanges, rdscomm(), in progress
    requests, responses \* the network

VARIABLES
    returned,       \* auxiliary: the block each process read last, until it is written
    wrote,          \* auxiliary: what was written last to each block
    calls,          \* auxiliary: the number of calls
    lost,           \* auxiliary: the number of messages lost
    crossed,        \* auxiliary: the requests made for a block while a write of it, or
                    \* for a write any other, was waiting for its buffer or its answer
    fault           \* auxiliary: what the driver came to grief on

lists == <<buf, reqq, cache, free>>
sems == <<availsem, reqsem>>
net == <<requests, responses>>
aux == <<wrote, calls, lost, crossed, fault>>
vars == <<rdstate, rdseq, lists, sems, mail, pc, comm, net, returned, aux, server>>

Buffers == 1 .. RD_BUFFS
Actors == Procs \cup {RDSPROC}

Idle == [at |-> "user", call |-> "none", blk |-> Unused, data |-> None]
NoComm == [at |-> "none", type |-> "none", seq |-> 0, blk |-> Unused, data |-> None, i |-> 0, xmit |-> TRUE]

(* A buffer that cannot be had, lists whose links are crossed, a caller    *)
(* that loops for ever, panic(), and a disk that rdsClose() could not      *)
(* close: the model stops there.                                           *)
Faults == {"no buffer", "links", "spin", "panic", "half closed"}
Sane == fault = "none"

FirstFor(list, blk) == SelectInSeq(list, LAMBDA b : buf[b].blk = blk)
LastFor(list, blk) == SelectLastInSeq(list, LAMBDA b : buf[b].blk = blk)
QueuedWrite(blk) == SelectInSeq(reqq, LAMBDA b : buf[b].blk = blk /\ buf[b].op = "write")

(* The buffer in which a read finds its block without the server, or 0:    *)
(* the first in the cache if it is valid, which only written ones are, or  *)
(* else the last request for the block if it is a write.                   *)
Copy(blk) ==
    LET c == FirstFor(cache, blk)
        q == LastFor(reqq, blk)
    IN  IF c # 0 /\ buf[cache[c]].valid THEN cache[c]
        ELSE IF q # 0 /\ buf[reqq[q]].op = "write" THEN reqq[q] ELSE 0

(* The message each process has after one was sent to p. *)
Sent(p, msg) == [mail EXCEPT ![p] = IF @ = None THEN msg ELSE @]
----------------------------------------------------------------------------
(***************************************************************************)
(* rdsRead(), rdsWrite() and rdsControl(RDS_CTL_SYNC).                     *)
(***************************************************************************)
Calls(p) ==
    /\ Sane
    /\ pc[p] = Idle /\ comm[p] = NoComm
    /\ \A q \in Procs : comm[q] = NoComm
    /\ calls < MaxCalls
    /\ calls' = calls + 1

Forgotten(blk) ==
    [p \in Procs |-> IF returned[p] # None /\ returned[p].blk = blk THEN None ELSE returned[p]]

(* The request is put at the tail of the queue.  A sync does not signal.   *)
Queue(p, b, call, blk, data) ==
    /\ buf' = [buf EXCEPT ![b] =
                [op |-> call, refcnt |-> IF call = "write" THEN 0 ELSE 1, blk |-> blk,
                 valid |-> call = "write", pid |-> p, data |-> IF call = "write" THEN data ELSE @.data]]
    /\ reqq' = Append(reqq, b)
    /\ wrote' = IF call = "write" THEN [wrote EXCEPT ![blk] = data] ELSE wrote
    /\ returned' = IF call = "write" THEN Forgotten(blk) ELSE returned
    /\ reqsem' = IF call = "sync" THEN reqsem ELSE reqsem + 1
    /\ mail' = IF call = "write" THEN mail ELSE [mail EXCEPT ![p] = None]
    /\ pc' = [pc EXCEPT ![p] =
                IF call = "write" THEN Idle ELSE [at |-> "receive", call |-> call, blk |-> blk, data |-> None]]

(* The oldest buffer of the cache that nobody reads. *)
Oldest == SelectLastInSeq(cache, LAMBDA b : buf[b].refcnt <= 0)

(* rdsbufalloc() after its wait(), and the rest of the call.               *)
Request(p, call, blk, data) ==
    \/ /\ free # <<>>
       /\ free' = Tail(free)
       /\ Queue(p, Head(free), call, blk, data)
       /\ UNCHANGED <<cache, fault>>
    \/ /\ free = <<>> /\ Oldest # 0
       /\ cache' = RemoveAt(cache, Oldest)
       /\ Queue(p, cache[Oldest], call, blk, data)
       /\ UNCHANGED <<free, fault>>
    \/ /\ free = <<>> /\ Oldest = 0
       /\ fault' = "no buffer"
       /\ UNCHANGED <<lists, reqsem, mail, pc, wrote, returned>>

(* A call that needs a buffer waits in rdsbufalloc() if there is no token. *)
Alloc(p, call, blk, data) ==
    IF availsem.count > 0
    THEN availsem' = Take(availsem) /\ Request(p, call, blk, data)
    ELSE /\ availsem' = WaitOn(availsem, p)
         /\ pc' = [pc EXCEPT ![p] = [at |-> "wait", call |-> call, blk |-> blk, data |-> data]]
         /\ UNCHANGED <<lists, reqsem, mail, wrote, returned, fault>>

(* Whether the call asks for a buffer or takes a cached one while another  *)
(* process waits for a request of the same block.                          *)
Meets(call, blk) ==
    LET others == {"read", "write"} \cap {pc[q].call : q \in {q \in Procs : pc[q].blk = blk}}
    IN  crossed' = crossed \cup IF call = "write" THEN others
                                ELSE IF "write" \in others THEN {"read"} ELSE {}

Read(p, blk) ==
    /\ Calls(p) /\ rdstate = "open"
    /\ IF Copy(blk) # 0
       THEN /\ returned' = [returned EXCEPT ![p] = [blk |-> blk, data |-> buf[Copy(blk)].data]]
            /\ UNCHANGED <<lists, sems, mail, pc, wrote, crossed, fault>>
       ELSE /\ Alloc(p, "read", blk, None)
            /\ Meets("read", blk)
    /\ UNCHANGED <<rdstate, rdseq, comm, net, lost, server>>

(* A write that is in the queue is overwritten.                            *)
Rewrite(p, blk, data) ==
    /\ Calls(p) /\ rdstate = "open"
    /\ QueuedWrite(blk) # 0
    /\ buf' = [buf EXCEPT ![reqq[QueuedWrite(blk)]].data = data]
    /\ wrote' = [wrote EXCEPT ![blk] = data] /\ returned' = Forgotten(blk)
    /\ UNCHANGED <<rdstate, rdseq, reqq, cache, free, sems, mail, pc, comm, net, lost, crossed, fault, server>>

(* Mutant: a new buffer is taken although the block is in the cache. *)
Reusable_Never(blk) == FALSE

Reusable(blk) == FirstFor(cache, blk) # 0 /\ buf[cache[FirstFor(cache, blk)]].refcnt <= 0

(* A cached buffer that nobody reads is taken, and its token taken back,   *)
(* unless there is none: semreset() to a negative count does nothing.      *)
WriteCached(p, blk, data) ==
    /\ Calls(p) /\ rdstate = "open"
    /\ QueuedWrite(blk) = 0
    /\ Reusable(blk)
    /\ cache' = RemoveAt(cache, FirstFor(cache, blk))
    /\ availsem' = IF availsem.count > 0 THEN Take(availsem) ELSE availsem
    /\ Queue(p, cache[FirstFor(cache, blk)], "write", blk, data)
    /\ Meets("write", blk)
    /\ UNCHANGED <<rdstate, rdseq, free, comm, net, lost, fault, server>>

WriteNew(p, blk, data) ==
    /\ Calls(p) /\ rdstate = "open"
    /\ QueuedWrite(blk) = 0
    /\ ~Reusable(blk)
    /\ Alloc(p, "write", blk, data)
    /\ Meets("write", blk)
    /\ UNCHANGED <<rdstate, rdseq, comm, net, lost, server>>

Sync(p) ==
    /\ Calls(p) /\ rdstate = "open"
    /\ Alloc(p, "sync", Unused, None)
    /\ UNCHANGED <<rdstate, rdseq, comm, net, lost, crossed, server>>

(* A process that waited in rdsbufalloc() goes on. *)
Got(p) ==
    /\ Sane
    /\ pc[p].at = "woken"
    /\ Request(p, pc[p].call, pc[p].blk, pc[p].data)
    /\ UNCHANGED <<rdstate, rdseq, availsem, comm, net, calls, lost, crossed, server>>

(* The end of a read: the search for an older copy never moves from the    *)
(* head of the cache.                                                      *)
Received(p) ==
    /\ Sane
    /\ pc[p].at = "receive" /\ mail[p] # None
    /\ mail' = [mail EXCEPT ![p] = None]
    /\ IF pc[p].call = "sync"
       THEN pc' = [pc EXCEPT ![p] = Idle] /\ UNCHANGED <<buf, returned, fault>>
       ELSE LET b == mail[p]
            IN  /\ buf' = [buf EXCEPT ![b].refcnt = @ - 1]
                /\ IF buf[b].refcnt = 1 /\ (cache = <<>> \/ Head(cache) # b)
                   THEN fault' = "spin" /\ UNCHANGED <<pc, returned>>
                   ELSE /\ pc' = [pc EXCEPT ![p] = Idle]
                        /\ returned' = [returned EXCEPT ![p] = [blk |-> pc[p].blk, data |-> buf[b].data]]
                        /\ UNCHANGED fault
    /\ UNCHANGED <<rdstate, rdseq, reqq, cache, free, sems, comm, net, wrote, calls, lost, crossed, server>>
----------------------------------------------------------------------------
(***************************************************************************)
(* rdscomm(): an exchange of messages with the server.                     *)
(***************************************************************************)
Exchange(a, type, blk, data) ==
    /\ rdseq' = rdseq + 1
    /\ comm' = [comm EXCEPT ![a] =
                  [at |-> "send", type |-> type, seq |-> rdseq, blk |-> blk, data |-> data,
                   i |-> 0, xmit |-> TRUE]]

Message(c) == [type |-> c.type, seq |-> c.seq, try |-> c.i, blk |-> c.blk, data |-> c.data]

CommSend(a) ==
    /\ Sane
    /\ comm[a].at = "send"
    /\ requests' = IF comm[a].xmit THEN requests \cup {Message(comm[a])} ELSE requests
    /\ comm' = [comm EXCEPT ![a].at = "recv", ![a].xmit = TRUE]
    /\ UNCHANGED <<rdstate, rdseq, lists, sems, mail, pc, responses, returned, aux, server>>

(* Another try, or none is left: the driver's process panics, the caller   *)
(* of rdsOpen() or rdsClose() has SYSERR, and rd_state stays as it is,     *)
(* after rdsClose() even if the server has closed the disk.                *)
Retry(a, xmit) ==
    IF comm[a].i + 1 < RD_RETRIES
    THEN comm' = [comm EXCEPT ![a].at = "send", ![a].i = @ + 1, ![a].xmit = xmit] /\ UNCHANGED fault
    ELSE /\ comm' = [comm EXCEPT ![a] = NoComm]
         /\ fault' = IF a = RDSPROC THEN "panic"
                     ELSE IF comm[a].type = "close" THEN "half closed" ELSE fault

InFlight(seq) == {m \in requests \cup responses : m.seq = seq}

(* Mutant: a reply is waited for without a time limit. *)
CommTimeout_Never(a) == FALSE /\ a \in Actors /\ UNCHANGED vars

CommTimeout(a) ==
    /\ Sane
    /\ comm[a].at = "recv"
    /\ Late \/ InFlight(comm[a].seq) = {}
    /\ Retry(a, TRUE)
    /\ UNCHANGED <<rdstate, rdseq, lists, sems, mail, pc, net, returned, wrote, calls, lost, crossed, server>>

(* "Verify that sequence in reply matches request": a reply to an earlier  *)
(* request is refused only if its type is another one.                     *)
Accepted(c, r) == r.seq <= c.seq /\ r.type = c.type

Refused(a, r) ==
    /\ Sane
    /\ comm[a].at = "recv"
    /\ ~Accepted(comm[a], r)
    /\ responses' = responses \ {r}
    /\ Retry(a, ~(r.seq < comm[a].seq))
    /\ UNCHANGED <<rdstate, rdseq, lists, sems, mail, pc, requests, returned, wrote, calls, lost, crossed, server>>

(* rdsOpen() and rdsClose() go on. *)
DoneByCaller(p, r) ==
    /\ Sane
    /\ comm[p].at = "recv"
    /\ Accepted(comm[p], r)
    /\ responses' = responses \ {r}
    /\ comm' = [comm EXCEPT ![p] = NoComm]
    /\ rdstate' = IF comm[p].type = "open" THEN "open" ELSE "free"
    /\ UNCHANGED <<rdseq, lists, sems, mail, pc, requests, returned, aux, server>>

(* rdsOpen(): a failed one leaves RD_PEND, and no other one can succeed.   *)
Open(p) ==
    /\ Calls(p) /\ \A q \in Procs : pc[q] = Idle
    /\ rdstate = "free"
    /\ rdstate' = "pend"
    /\ Exchange(p, "open", Unused, None)
    /\ UNCHANGED <<lists, sems, mail, pc, net, returned, wrote, lost, crossed, fault, server>>

(* Mutant: the buffers stay in the cache. *)
Close_CacheKept(p) ==
    /\ Calls(p) /\ \A q \in Procs : pc[q] = Idle
    /\ rdstate = "open" /\ reqq = <<>>
    /\ free' = Reverse(cache) \o free
    /\ buf' = [b \in Buffers |-> IF b \in ToSet(cache) THEN [buf[b] EXCEPT !.valid = FALSE] ELSE buf[b]]
    /\ Exchange(p, "close", Unused, None)
    /\ UNCHANGED <<rdstate, reqq, cache, sems, mail, pc, net, returned, wrote, lost, crossed, fault, server>>

(* Mutant: the request queue is not looked at. *)
Close_Pending(p) ==
    /\ Calls(p) /\ \A q \in Procs : pc[q] = Idle
    /\ rdstate = "open"
    /\ free' = Reverse(cache) \o free
    /\ cache' = <<>>
    /\ buf' = [b \in Buffers |-> IF b \in ToSet(cache) THEN [buf[b] EXCEPT !.valid = FALSE] ELSE buf[b]]
    /\ Exchange(p, "close", Unused, None)
    /\ UNCHANGED <<rdstate, reqq, sems, mail, pc, net, returned, wrote, lost, crossed, fault, server>>

(* rdsClose(): the request queue must be empty, but the driver's process   *)
(* may not have finished its last write.                                   *)
Close(p) ==
    /\ Calls(p) /\ \A q \in Procs : pc[q] = Idle
    /\ rdstate = "open" /\ reqq = <<>>
    /\ free' = Reverse(cache) \o free
    /\ cache' = <<>>
    /\ buf' = [b \in Buffers |-> IF b \in ToSet(cache) THEN [buf[b] EXCEPT !.valid = FALSE] ELSE buf[b]]
    /\ Exchange(p, "close", Unused, None)
    /\ UNCHANGED <<rdstate, reqq, sems, mail, pc, net, returned, wrote, lost, crossed, fault, server>>
----------------------------------------------------------------------------
(***************************************************************************)
(* rdsprocess(), the driver's process.                                     *)
(***************************************************************************)
TakesRequest ==
    /\ Sane
    /\ comm[RDSPROC] = NoComm
    /\ reqsem > 0
    /\ reqsem' = reqsem - 1

(* A read stays in the queue until it is answered. *)
StartRead ==
    /\ TakesRequest /\ buf[Head(reqq)].op = "read"
    /\ Exchange(RDSPROC, "read", buf[Head(reqq)].blk, None)
    /\ UNCHANGED <<rdstate, lists, availsem, mail, pc, net, returned, aux, server>>

MakeAvailable ==
    /\ availsem' = SignalnOn(availsem, 1)
    /\ pc' = Wake(pc, Released(availsem, 1))

(* Mutant: the buffer of a write may be used again only when it is done.   *)
StartWrite_Unsignalled ==
    /\ TakesRequest /\ buf[Head(reqq)].op = "write"
    /\ reqq' = Tail(reqq) /\ cache' = <<Head(reqq)>> \o cache
    /\ Exchange(RDSPROC, "write", buf[Head(reqq)].blk, buf[Head(reqq)].data)
    /\ UNCHANGED <<rdstate, buf, free, availsem, pc, mail, net, returned, aux, server>>

(* A write is cached, and may be used again, before it is sent. *)
StartWrite ==
    /\ TakesRequest /\ buf[Head(reqq)].op = "write"
    /\ LET b == Head(reqq)
       IN  /\ reqq' = Tail(reqq) /\ cache' = <<b>> \o cache
           /\ buf' = [buf EXCEPT ![b].refcnt = 0]
           /\ Exchange(RDSPROC, "write", buf[b].blk, buf[b].data)
    /\ MakeAvailable
    /\ UNCHANGED <<rdstate, free, mail, net, returned, aux, server>>

DoSync ==
    /\ TakesRequest /\ buf[Head(reqq)].op = "sync"
    /\ mail' = Sent(buf[Head(reqq)].pid, "OK")
    /\ reqq' = Tail(reqq) /\ free' = <<Head(reqq)>> \o free
    /\ MakeAvailable
    /\ UNCHANGED <<rdstate, rdseq, buf, cache, comm, net, returned, aux, server>>

EndWrite(r) ==
    /\ Sane
    /\ comm[RDSPROC].at = "recv" /\ comm[RDSPROC].type = "write" /\ Accepted(comm[RDSPROC], r)
    /\ responses' = responses \ {r}
    /\ comm' = [comm EXCEPT ![RDSPROC] = NoComm]
    /\ UNCHANGED <<rdstate, rdseq, lists, sems, mail, pc, requests, returned, aux, server>>

(* The data goes to the cache and to the reader.  A second request for the *)
(* block is removed with the links of the first one, which now are those   *)
(* of the cache.                                                           *)
EndRead(r) ==
    /\ Sane
    /\ comm[RDSPROC].at = "recv" /\ comm[RDSPROC].type = "read" /\ Accepted(comm[RDSPROC], r)
    /\ responses' = responses \ {r}
    /\ comm' = [comm EXCEPT ![RDSPROC] = NoComm]
    /\ LET b == Head(reqq)
       IN  /\ buf' = [buf EXCEPT ![b].data = r.data, ![b].refcnt = 1]
           /\ reqq' = Tail(reqq) /\ cache' = <<b>> \o cache
           /\ mail' = Sent(buf[b].pid, b)
           /\ fault' = IF FirstFor(Tail(reqq), buf[b].blk) # 0 THEN "links" ELSE fault
    /\ MakeAvailable
    /\ UNCHANGED <<rdstate, rdseq, free, reqsem, requests, returned, wrote, calls, lost, crossed, server>>
----------------------------------------------------------------------------
(* The network and the server. *)
Handle(m) ==
    /\ Sane
    /\ requests' = requests \ {m}
    /\ IF Ignored(m) THEN UNCHANGED <<responses, server>>
       ELSE Serve(m) /\ responses' = responses \cup {Response(m)}
    /\ UNCHANGED <<rdstate, rdseq, lists, sems, mail, pc, comm, returned, aux>>

Lose(m) ==
    /\ Sane
    /\ lost < MaxLost
    /\ lost' = lost + 1
    /\ requests' = requests \ {m} /\ responses' = responses \ {m}
    /\ UNCHANGED <<rdstate, rdseq, lists, sems, mail, pc, comm, returned, wrote, calls, crossed, fault, server>>

RdsInit ==
    /\ ServerInit
    /\ rdstate = "free" /\ rdseq = 1
    /\ buf = [b \in Buffers |-> [op |-> "none", refcnt |-> 0, blk |-> Unused, valid |-> FALSE,
                                 pid |-> None, data |-> Garbage]]
    /\ reqq = <<>> /\ cache = <<>> /\ free = [i \in Buffers |-> i]
    /\ availsem = SemWith(RD_BUFFS) /\ reqsem = 0
    /\ mail = [p \in Procs |-> None] /\ pc = [p \in Procs |-> Idle]
    /\ comm = [a \in Actors |-> NoComm]
    /\ requests = {} /\ responses = {}
    /\ returned = [p \in Procs |-> None] /\ wrote = disk
    /\ calls = 0 /\ lost = 0 /\ crossed = {} /\ fault = "none"

Driver == StartRead \/ StartWrite \/ DoSync

Reply(r) ==
    \/ EndRead(r) \/ EndWrite(r)
    \/ \E p \in Procs : DoneByCaller(p, r)
    \/ \E a \in Actors : Refused(a, r)

RdsNext ==
    \/ \E p \in Procs :
           \/ \E blk \in Uses[p] :
                  \/ Read(p, blk)
                  \/ \E data \in Data : Rewrite(p, blk, data) \/ WriteCached(p, blk, data) \/ WriteNew(p, blk, data)
           \/ Sync(p) \/ Got(p) \/ Received(p) \/ Open(p) \/ Close(p)
    \/ Driver
    \/ \E a \in Actors : CommSend(a) \/ CommTimeout(a)
    \/ \E r \in responses : Reply(r)
    \/ \E m \in requests : Handle(m)
    \/ \E m \in requests \cup responses : Lose(m)

(* The driver's process, its clock, the network and the server go on. *)
Fairness ==
    /\ WF_vars(Driver)
    /\ WF_vars(CommSend(RDSPROC)) /\ WF_vars(CommTimeout(RDSPROC))
    /\ WF_vars(\E r \in responses : Reply(r))
    /\ WF_vars(\E m \in requests : Handle(m))

RdsSpec == RdsInit /\ [][RdsNext]_vars /\ Fairness
----------------------------------------------------------------------------
Disk == INSTANCE RemoteDisk WITH contents <- wrote

(* The driver behaves as a disk: a read returns what was written last to   *)
(* its block, though rdsWrite() returns when the request is queued, later  *)
(* writes overwrite queued ones, reads are answered from buffers on their  *)
(* way, messages are lost and requests are sent and handled twice.  It     *)
(* does so until a write and another request of its block have waited at   *)
(* the same time: a buffer of an older write, or of none, may then stand   *)
(* before or remain behind the newest in the cache.                        *)
ActsAsDisk == Disk!Init /\ [][Disk!Next \/ crossed # {}]_<<wrote, returned>>

(* Where the driver and the server keep the data of a block: the write     *)
(* that is queued, or else the one being sent, or else the file.           *)
Contents(blk) ==
    IF QueuedWrite(blk) # 0 THEN buf[reqq[QueuedWrite(blk)]].data
    ELSE IF comm[RDSPROC].type = "write" /\ comm[RDSPROC].blk = blk THEN comm[RDSPROC].data
    ELSE disk[blk]

(* No write is lost or undone, by a cache that is emptied, an exchange     *)
(* that is repeated or a disk that is closed, until the driver comes to    *)
(* grief, or two writes of a block have waited for buffers at the same     *)
(* time: both are then queued, and a third one overwrites the first.       *)
NoWriteLost == Sane /\ "write" \notin crossed => \A blk \in Blocks : Contents(blk) = wrote[blk]

(* Types; every buffer is on one list, once.                               *)
RdsTypeOK ==
    /\ fault \in Faults \cup {"none"} /\ crossed \subseteq {"read", "write"} /\ rdstate \in {"free", "pend", "open"}
    /\ LET all == reqq \o cache \o free
       IN  Len(all) = RD_BUFFS /\ ToSet(all) = Buffers
    /\ reqsem \in 0 .. Len(reqq)

(* No buffer is lost to its semaphore: there is a token, given out or not, *)
(* for every buffer that is free or cached.                                *)
BuffersAvailable ==
    Sane => Tokens(availsem) + Cardinality({p \in Procs : pc[p].at = "woken"})
                >= Len(free) + Len(cache)

(* A request for which there is a signal is handled in the end, or the     *)
(* driver comes to grief.  A sync is queued without a signal: the last     *)
(* requests behind it wait for later ones.                                 *)
RequestsServed ==
    \A b \in Buffers :
        (\E i \in 1 .. Len(reqq) : i <= reqsem /\ reqq[i] = b) ~> (b \notin ToSet(reqq) \/ ~Sane)
=============================================================================
