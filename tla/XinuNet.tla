------------------------------ MODULE XinuNet ------------------------------
(***************************************************************************)
(* UDP and ICMP endpoints (net/udp.c, net/icmp.c) and the process that     *)
(* reads the network (net/netin.c).  Packets that arrive are put, in their *)
(* buffers, into the ring of an endpoint; a process reads the ring with a  *)
(* time limit and is told of a packet by a message.                        *)
(*                                                                         *)
(* netin has the highest priority, so what it does between two waits is    *)
(* one step; the calls that keep interrupts off are one step up to their   *)
(* wait.  Registration and icmp_send() do neither: netin or another        *)
(* process may run between any two of their loads and stores, which are in *)
(* the order of the statements (the Makefile compiles with -O0).  Which    *)
(* buffer a packet lies in does not matter, so the pool is its semaphore   *)
(* and a place of a ring has a buffer in it or not.                        *)
(*                                                                         *)
(* A process reads from, and releases, the endpoints it registered.        *)
(***************************************************************************)
EXTENDS SemValue

CONSTANTS
    Procs,                  \* the processes that use endpoints
    UDP_SLOTS, UDP_QSIZ,    \* endpoints, and places in the ring of each
    ICMP_SLOTS, ICMP_QSIZ, ICMP_OQSIZ,
    Ports, Hosts,           \* local ports, remote addresses
    AnyHost,                    \* remote address 0: "don't care"
    Nobody,
    MaxPackets,             \* bound: the packets that arrive
    MaxRegisters            \* bound: the endpoints registered

ASSUME NetAssumption ==
    /\ {UDP_SLOTS, UDP_QSIZ, ICMP_SLOTS, ICMP_QSIZ, ICMP_OQSIZ} \subseteq Nat \ {0}
    /\ {MaxPackets, MaxRegisters} \subseteq Nat
    /\ AnyHost \notin Hosts /\ {Nobody, "netin", "icmp_out"} \cap Procs = {}

VARIABLES
    tab,        \* udptab and icmptab
    pool,       \* the semaphore of netbufpool
    icoutq,     \* the ring of packets for icmp_out: queue, head, tail
    icosem,     \* counts the packets in icoutq
    icmpmutex,  \* who holds it
    hasmsg,     \* prhasmsg: is there a message, OK, for the process?
    pc,         \* what the processes, netin and icmp_out are doing
    mine        \* the endpoints each process has registered

VARIABLES
    arrived,    \* auxiliary: the number of packets put into a ring
    registered, \* auxiliary: the number of registrations
    leaked,     \* auxiliary: packets a registration forgot
    fault       \* auxiliary: what went wrong with a ring or a slot

vars == <<tab, pool, icoutq, icosem, icmpmutex, hasmsg, pc, mine, arrived, registered, leaked, fault>>

Protos == {"udp", "icmp"}
Slots(proto) == IF proto = "udp" THEN 1 .. UDP_SLOTS ELSE 1 .. ICMP_SLOTS
QSize(proto) == IF proto = "udp" THEN UDP_QSIZ ELSE ICMP_QSIZ

(* Mutant: the places of icoutq are forgotten. *)
PoolSize_NoOut == UDP_SLOTS * UDP_QSIZ + ICMP_SLOTS * ICMP_QSIZ + 1

(* netin makes the pool: a buffer for every place, and one to read into. *)
PoolSize == UDP_SLOTS * UDP_QSIZ + ICMP_SLOTS * ICMP_QSIZ + ICMP_OQSIZ + 1

Actors == Procs \cup {"netin", "icmp_out"}
Idle == [at |-> "user", call |-> "none", ep |-> <<>>, key |-> <<>>]

(* struct udpentry and struct icmpentry.                                   *)
FreeEntry(proto) ==
    [state |-> "free", key |-> IF proto = "udp" THEN <<AnyHost, 0>> ELSE <<AnyHost>>,
     count |-> 0, head |-> 0, tail |-> 0, pid |-> Nobody,
     queue |-> [i \in 0 .. QSize(proto) - 1 |-> FALSE]]

Entry(ep) == tab[ep[1]][ep[2]]

(* The places of a ring with a buffer in them. *)
Filled(ring) == {i \in DOMAIN ring.queue : ring.queue[i]}

(* Once a buffer is stored over another or beside the ring, or two         *)
(* processes are given one slot, or a place is read that has no buffer, or *)
(* is somebody else's, buffers are lost or used twice; the model stops.    *)
Faults == {"overrun", "slot shared", "wrong read"}
FaultIf(what, cond) == fault' = IF cond THEN what ELSE fault
Sane == fault = "none"

(* netin goes on at once when it can. *)
Runs(a) == Sane /\ (pc["netin"].at = "woken" => a = "netin")

Send(p, place) ==
    /\ hasmsg' = [hasmsg EXCEPT ![p] = TRUE]
    /\ pc' = IF pc[p].at = "recv" THEN Wake(place, {p}) ELSE place
----------------------------------------------------------------------------
(***************************************************************************)
(* Packets that arrive.                                                    *)
(***************************************************************************)
Enqueued(e, proto) ==
    [e EXCEPT !.count = @ + 1,
              !.queue[e.tail] = TRUE,
              !.tail = IF @ + 1 >= QSize(proto) THEN 0 ELSE @ + 1]

(* The reader that waits is told. *)
Tell(ep, e, place) ==
    IF e.state = "recv"
    THEN tab' = [tab EXCEPT ![ep[1]][ep[2]] = [e EXCEPT !.state = "used"]] /\ Send(e.pid, place)
    ELSE tab' = [tab EXCEPT ![ep[1]][ep[2]] = e] /\ pc' = place /\ UNCHANGED hasmsg

(* The packet is queued, then a new buffer is got for the next one, and    *)
(* only then is the reader told.                                           *)
Deliver(ep) ==
    /\ arrived' = arrived + 1
    /\ FaultIf("overrun", Entry(ep).tail \in Filled(Entry(ep)))
    /\ IF pool.count > 0
       THEN pool' = Take(pool) /\ Tell(ep, Enqueued(Entry(ep), ep[1]), pc)
       ELSE /\ pool' = WaitOn(pool, "netin")
            /\ pc' = [pc EXCEPT !["netin"] = [Idle EXCEPT !.at = "wait", !.call = "next", !.ep = ep]]
            /\ tab' = [tab EXCEPT ![ep[1]][ep[2]] = Enqueued(@, ep[1])]
            /\ UNCHANGED hasmsg
    /\ UNCHANGED <<icoutq, icosem, icmpmutex, mine, registered, leaked>>

Reading == Sane /\ pc["netin"] = Idle

Matches(e, src, port) ==
    e.state # "free" /\ e.key[2] = port /\ e.key[1] \in {AnyHost, src}

(* udp_in(): the first endpoint that matches and has room.                 *)
UdpIn(src, port) ==
    /\ Reading
    /\ arrived < MaxPackets
    /\ \E i \in Slots("udp") :
           /\ Matches(tab["udp"][i], src, port) /\ tab["udp"][i].count < UDP_QSIZ
           /\ \A j \in 1 .. i - 1 :
                  ~(Matches(tab["udp"][j], src, port) /\ tab["udp"][j].count < UDP_QSIZ)
           /\ Deliver(<<"udp", i>>)

(* icmp_in() of an echo reply: its identifier is the slot.  There is no    *)
(* test for room.                                                          *)
IcmpIn(src, i) ==
    /\ Reading
    /\ arrived < MaxPackets
    /\ tab["icmp"][i].state # "free"
    /\ tab["icmp"][i].key = <<src>>
    /\ Deliver(<<"icmp", i>>)

(* Mutant: the reader is forgotten when a buffer had to be waited for. *)
NetinNext_Untold ==
    /\ Sane
    /\ pc["netin"].at = "woken" /\ pc["netin"].call = "next"
    /\ pc' = [pc EXCEPT !["netin"] = Idle]
    /\ UNCHANGED <<tab, hasmsg, pool, icoutq, icosem, icmpmutex, mine, arrived, registered, leaked, fault>>

(* netin goes on with its new buffer. *)
NetinNext ==
    /\ Sane
    /\ pc["netin"].at = "woken" /\ pc["netin"].call = "next"
    /\ Tell(pc["netin"].ep, Entry(pc["netin"].ep), [pc EXCEPT !["netin"] = Idle])
    /\ UNCHANGED <<pool, icoutq, icosem, icmpmutex, mine, arrived, registered, leaked, fault>>

(* A buffer is stored in place i, without a test for room. *)
Stored(i) == [j \in DOMAIN icoutq.queue |-> j = i \/ icoutq.queue[j]]
NoRoom(i) == i \notin DOMAIN icoutq.queue \/ i \in Filled(icoutq)

(* netin queues its packet without being interrupted. *)
QueueOut(place) ==
    /\ FaultIf("overrun", NoRoom(icoutq.tail))
    /\ icoutq' = [icoutq EXCEPT !.queue = Stored(icoutq.tail),
                                !.tail = IF @ + 1 >= ICMP_OQSIZ THEN 0 ELSE @ + 1]
    /\ icosem' = SignalnOn(icosem, 1)
    /\ pc' = Wake(place, Released(icosem, 1))

(* icmp_in() of an echo request. *)
EchoReply ==
    /\ Reading
    /\ arrived < MaxPackets
    /\ arrived' = arrived + 1
    /\ IF pool.count > 0
       THEN pool' = Take(pool) /\ QueueOut(pc)
       ELSE /\ pool' = WaitOn(pool, "netin")
            /\ pc' = [pc EXCEPT !["netin"] = [Idle EXCEPT !.at = "wait", !.call = "send"]]
            /\ UNCHANGED <<icoutq, icosem, fault>>
    /\ UNCHANGED <<tab, icmpmutex, hasmsg, mine, registered, leaked>>

EchoReplyWoken ==
    /\ Sane
    /\ pc["netin"].at = "woken" /\ pc["netin"].call = "send"
    /\ QueueOut([pc EXCEPT !["netin"] = Idle])
    /\ UNCHANGED <<tab, pool, icmpmutex, hasmsg, mine, arrived, registered, leaked>>

(* icmp_send() by a process: getbuf(), and the packet is built. *)
IcmpSend(p) ==
    /\ Runs(p)
    /\ pc[p] = Idle
    /\ arrived < MaxPackets
    /\ arrived' = arrived + 1
    /\ IF pool.count > 0
       THEN pool' = Take(pool) /\ pc' = [pc EXCEPT ![p] = [Idle EXCEPT !.at = "built", !.call = "send"]]
       ELSE /\ pool' = WaitOn(pool, p)
            /\ pc' = [pc EXCEPT ![p] = [Idle EXCEPT !.at = "wait", !.call = "send"]]
    /\ UNCHANGED <<tab, icoutq, icosem, icmpmutex, hasmsg, mine, registered, leaked, fault>>

Sends(p, places) == Runs(p) /\ pc[p].call = "send" /\ pc[p].at \in places

(* icoutq[icotail++] = pkt: icotail is loaded, *)
IcmpLoad(p) ==
    /\ Sends(p, {"woken", "built"})
    /\ pc' = [pc EXCEPT ![p] = [@ EXCEPT !.at = "loaded", !.ep = <<"icoutq", icoutq.tail>>]]
    /\ UNCHANGED <<tab, pool, icoutq, icosem, icmpmutex, hasmsg, mine, arrived, registered, leaked, fault>>

(* stored with one more, *)
IcmpAdvance(p) ==
    /\ Sends(p, {"loaded"})
    /\ icoutq' = [icoutq EXCEPT !.tail = pc[p].ep[2] + 1]
    /\ pc' = [pc EXCEPT ![p].at = "advanced"]
    /\ UNCHANGED <<tab, pool, icosem, icmpmutex, hasmsg, mine, arrived, registered, leaked, fault>>

(* and the packet is stored. *)
IcmpStore(p) ==
    /\ Sends(p, {"advanced"})
    /\ FaultIf("overrun", NoRoom(pc[p].ep[2]))
    /\ icoutq' = [icoutq EXCEPT !.queue = Stored(pc[p].ep[2])]
    /\ pc' = [pc EXCEPT ![p].at = "stored"]
    /\ UNCHANGED <<tab, pool, icosem, icmpmutex, hasmsg, mine, arrived, registered, leaked>>

(* The test whether icotail is past the ring, and its store. *)
IcmpTest(p) ==
    /\ Sends(p, {"stored"})
    /\ pc' = [pc EXCEPT ![p].at = IF icoutq.tail >= ICMP_OQSIZ THEN "wrap" ELSE "queued"]
    /\ UNCHANGED <<tab, pool, icoutq, icosem, icmpmutex, hasmsg, mine, arrived, registered, leaked, fault>>

IcmpWrap(p) ==
    /\ Sends(p, {"wrap"})
    /\ icoutq' = [icoutq EXCEPT !.tail = 0]
    /\ pc' = [pc EXCEPT ![p].at = "queued"]
    /\ UNCHANGED <<tab, pool, icosem, icmpmutex, hasmsg, mine, arrived, registered, leaked, fault>>

IcmpSignal(p) ==
    /\ Sends(p, {"queued"})
    /\ icosem' = SignalnOn(icosem, 1)
    /\ pc' = Wake([pc EXCEPT ![p] = Idle], Released(icosem, 1))
    /\ UNCHANGED <<tab, pool, icoutq, icmpmutex, hasmsg, mine, arrived, registered, leaked, fault>>

(* icmp_out() takes a packet from icoutq; it resolves the address, which   *)
(* takes its time, and whether it could or not it frees the buffer.        *)
IcmpOutTakes ==
    /\ Runs("icmp_out")
    /\ pc["icmp_out"].at = "woken"
    /\ FaultIf("wrong read", icoutq.head \notin Filled(icoutq))
    /\ icoutq' = [icoutq EXCEPT !.queue = [i \in DOMAIN @ |-> @[i] /\ i # icoutq.head],
                                !.head = IF @ + 1 >= ICMP_OQSIZ THEN 0 ELSE @ + 1]
    /\ pc' = [pc EXCEPT !["icmp_out"].at = "sending"]
    /\ UNCHANGED <<tab, pool, icosem, icmpmutex, hasmsg, mine, arrived, registered, leaked>>

(* Mutant: the buffer of an address that cannot be resolved is not freed. *)
IcmpOutSent_Kept ==
    /\ Runs("icmp_out")
    /\ pc["icmp_out"].at = "sending"
    /\ IF icosem.count > 0
       THEN icosem' = Take(icosem) /\ pc' = [pc EXCEPT !["icmp_out"].at = "woken"]
       ELSE icosem' = WaitOn(icosem, "icmp_out") /\ pc' = [pc EXCEPT !["icmp_out"].at = "wait"]
    /\ UNCHANGED <<tab, pool, icoutq, icmpmutex, hasmsg, mine, arrived, registered, leaked, fault>>

IcmpOutSent ==
    /\ Runs("icmp_out")
    /\ pc["icmp_out"].at = "sending"
    /\ pool' = SignalnOn(pool, 1)
    /\ LET woken == Wake(pc, Released(pool, 1))
       IN  IF icosem.count > 0
           THEN icosem' = Take(icosem) /\ pc' = [woken EXCEPT !["icmp_out"].at = "woken"]
           ELSE /\ icosem' = WaitOn(icosem, "icmp_out")
                /\ pc' = [woken EXCEPT !["icmp_out"].at = "wait"]
    /\ UNCHANGED <<tab, icoutq, icmpmutex, hasmsg, mine, arrived, registered, leaked, fault>>
----------------------------------------------------------------------------
(***************************************************************************)
(* Registering, reading and releasing an endpoint.                         *)
(***************************************************************************)
AtUser(p) == Runs(p) /\ pc[p] = Idle

Registered(proto, key) ==
    \E i \in Slots(proto) : tab[proto][i].state # "free" /\ tab[proto][i].key = key

FirstFree(proto, i) ==
    /\ tab[proto][i].state = "free"
    /\ \A j \in 1 .. i - 1 : tab[proto][j].state # "free"

(* The two searches of udp_register(). *)
UdpSearch(p, key) ==
    /\ AtUser(p)
    /\ registered < MaxRegisters
    /\ registered' = registered + 1
    /\ ~Registered("udp", key)
    /\ \E i \in Slots("udp") :
           /\ FirstFree("udp", i)
           /\ pc' = [pc EXCEPT ![p] = [at |-> "claim", call |-> "register", ep |-> <<"udp", i>>, key |-> key]]
    /\ UNCHANGED <<tab, pool, icoutq, icosem, icmpmutex, hasmsg, mine, arrived, leaked, fault>>

(* The slot is marked; its other fields are still those of its last user.  *)
UdpClaim(p) ==
    /\ Runs(p)
    /\ pc[p].at = "claim"
    /\ LET ep == pc[p].ep
       IN  /\ FaultIf("slot shared", Entry(ep).state # "free")
           /\ tab' = [tab EXCEPT ![ep[1]][ep[2]].state = "used"]
    /\ pc' = [pc EXCEPT ![p].at = "port"]
    /\ UNCHANGED <<pool, icoutq, icosem, icmpmutex, hasmsg, mine, arrived, registered, leaked>>

(* icmp_register() searches and marks under its mutex. *)
IcmpClaim(p, host) ==
    /\ AtUser(p)
    /\ registered < MaxRegisters
    /\ registered' = registered + 1
    /\ icmpmutex = Nobody
    /\ icmpmutex' = p
    /\ ~Registered("icmp", <<host>>)
    /\ \E i \in Slots("icmp") :
           /\ FirstFree("icmp", i)
           /\ tab' = [tab EXCEPT !["icmp"][i].state = "used"]
           /\ pc' = [pc EXCEPT ![p] = [at |-> "host", call |-> "register", ep |-> <<"icmp", i>>, key |-> <<host>>]]
    /\ UNCHANGED <<pool, icoutq, icosem, hasmsg, mine, arrived, leaked, fault>>

(* The other fields are stored one after the other: the port, *)
Filling == {"port", "host", "count", "heads"}

FillPort(p) ==
    /\ Runs(p)
    /\ pc[p].at = "port"
    /\ LET ep == pc[p].ep
       IN  tab' = [tab EXCEPT ![ep[1]][ep[2]].key = [@ EXCEPT ![2] = pc[p].key[2]]]
    /\ pc' = [pc EXCEPT ![p].at = "host"]
    /\ UNCHANGED <<pool, icoutq, icosem, icmpmutex, hasmsg, mine, arrived, registered, leaked, fault>>

(* the remote address, *)
FillHost(p) ==
    /\ Runs(p)
    /\ pc[p].at = "host"
    /\ LET ep == pc[p].ep
       IN  tab' = [tab EXCEPT ![ep[1]][ep[2]].key = [@ EXCEPT ![1] = pc[p].key[1]]]
    /\ pc' = [pc EXCEPT ![p].at = "count"]
    /\ UNCHANGED <<pool, icoutq, icosem, icmpmutex, hasmsg, mine, arrived, registered, leaked, fault>>

Emptied(e) == [e EXCEPT !.count = 0, !.queue = [i \in DOMAIN @ |-> FALSE]]

(* the count, which forgets the packets that came in since the claim, with *)
(* their buffers,                                                          *)
FillCount(p) ==
    /\ Runs(p)
    /\ pc[p].at = "count"
    /\ LET ep == pc[p].ep
       IN  /\ tab' = [tab EXCEPT ![ep[1]][ep[2]] = Emptied(@)]
           /\ leaked' = leaked + Entry(ep).count
    /\ pc' = [pc EXCEPT ![p].at = "heads"]
    /\ UNCHANGED <<pool, icoutq, icosem, icmpmutex, hasmsg, mine, arrived, registered, fault>>

(* and the indices: a packet that came in since is counted, and lies where *)
(* the last user's tail was.                                               *)
FillHeads(p) ==
    /\ Runs(p)
    /\ pc[p].at = "heads"
    /\ LET ep == pc[p].ep
       IN  /\ tab' = [tab EXCEPT ![ep[1]][ep[2]] = [@ EXCEPT !.head = 0, !.tail = 0, !.pid = Nobody]]
           /\ mine' = [mine EXCEPT ![p] = @ \cup {ep}]
           /\ icmpmutex' = IF ep[1] = "icmp" THEN Nobody ELSE icmpmutex
    /\ pc' = [pc EXCEPT ![p] = Idle]
    /\ UNCHANGED <<pool, icoutq, icosem, hasmsg, arrived, registered, leaked, fault>>

(* The search for the key of ep finds another entry first, since two       *)
(* processes registered one key at once, or one of them is filling its     *)
(* entry.  udp_release() passes over entries that are not in use.          *)
Hidden(ep, states) ==
    /\ ep[1] = "udp"
    /\ \E j \in 1 .. ep[2] - 1 : tab["udp"][j].state \in states /\ tab["udp"][j].key = Entry(ep).key

(* "Packet has arrived -- dequeue it".  The head of a ring is wrapped at   *)
(* the number of slots, its tail at the size of the ring.                  *)
Dequeued(e, proto) ==
    [e EXCEPT !.head = IF @ + 1 >= Cardinality(Slots(proto)) THEN 0 ELSE @ + 1,
              !.count = @ - 1,
              !.queue = [i \in DOMAIN @ |-> @[i] /\ i # e.head]]

(* udp_recv(), udp_recvaddr() and icmp_recv() with a packet in the ring. *)
Recv(p, ep) ==
    /\ AtUser(p)
    /\ Entry(ep).count # 0
    /\ FaultIf("wrong read", Hidden(ep, {"free", "used", "recv"}) \/ Entry(ep).head \notin Filled(Entry(ep)))
    /\ tab' = [tab EXCEPT ![ep[1]][ep[2]] = Dequeued(@, ep[1])]
    /\ pool' = SignalnOn(pool, 1)
    /\ pc' = Wake(pc, Released(pool, 1))
    /\ UNCHANGED <<icoutq, icosem, icmpmutex, hasmsg, mine, arrived, registered, leaked>>

(* And with none: old messages are dropped, and p waits. *)
RecvWait(p, ep) ==
    /\ AtUser(p)
    /\ Entry(ep).count = 0
    /\ FaultIf("wrong read", Hidden(ep, {"free", "used", "recv"}))
    /\ tab' = [tab EXCEPT ![ep[1]][ep[2]] = [@ EXCEPT !.state = "recv", !.pid = p]]
    /\ hasmsg' = [hasmsg EXCEPT ![p] = FALSE]
    /\ pc' = [pc EXCEPT ![p] = [Idle EXCEPT !.at = "recv", !.call = "recv", !.ep = ep]]
    /\ UNCHANGED <<pool, icoutq, icosem, icmpmutex, mine, arrived, registered, leaked>>

(* The time limit passes; a message may still come before p runs. *)
Timeout(p) ==
    /\ Runs(p)
    /\ pc[p].at = "recv"
    /\ pc' = Wake(pc, {p})
    /\ UNCHANGED <<tab, pool, icoutq, icosem, icmpmutex, hasmsg, mine, arrived, registered, leaked, fault>>

(* Mutant: the entry is left as if p still waited. *)
ReadAfterWait_StillWaiting(p, e) == IF hasmsg[p] THEN [e EXCEPT !.state = "used"] ELSE e

(* udstate when the wait is over, however it ended. *)
ReadAfterWait(p, e) == [e EXCEPT !.state = "used"]

(* The end of recvtime(): the packet is read, or the call returns TIMEOUT. *)
RecvWoken(p) ==
    /\ Runs(p)
    /\ pc[p].at = "woken" /\ pc[p].call = "recv"
    /\ hasmsg' = [hasmsg EXCEPT ![p] = FALSE]
    /\ LET ep    == pc[p].ep
           e     == ReadAfterWait(p, Entry(ep))
           reads == hasmsg[p] /\ e.count > 0
       IN  /\ FaultIf("wrong read", hasmsg[p] /\ (e.count = 0 \/ e.head \notin Filled(e)))
           /\ tab' = [tab EXCEPT ![ep[1]][ep[2]] = IF reads THEN Dequeued(e, ep[1]) ELSE e]
           /\ pool' = IF reads THEN SignalnOn(pool, 1) ELSE pool
           /\ pc' = [Wake(pc, IF reads THEN Released(pool, 1) ELSE {}) EXCEPT ![p] = Idle]
    /\ UNCHANGED <<icoutq, icosem, icmpmutex, mine, arrived, registered, leaked>>

(* udp_release() and icmp_release(), with rescheduling deferred. *)
Release(p, ep) ==
    /\ AtUser(p)
    /\ ep[1] = "icmp" => icmpmutex = Nobody
    /\ LET e     == Entry(ep)
           After(n) == (e.head + n) % Cardinality(Slots(ep[1]))
       IN  /\ FaultIf("wrong read", Hidden(ep, {"used"}) \/ {After(n) : n \in 0 .. e.count - 1} # Filled(e))
           /\ tab' = [tab EXCEPT ![ep[1]][ep[2]] =
                        [Emptied(@) EXCEPT !.state = "free", !.head = After(e.count)]]
           /\ pool' = SignalnOn(pool, e.count)
           /\ pc' = Wake(pc, Released(pool, e.count))
    /\ mine' = [mine EXCEPT ![p] = @ \ {ep}]
    /\ UNCHANGED <<icoutq, icosem, icmpmutex, hasmsg, arrived, registered, leaked>>

NetInit ==
    /\ tab = [proto \in Protos |-> [i \in Slots(proto) |-> FreeEntry(proto)]]
    /\ pool = SemWith(PoolSize - 1)
    /\ icoutq = [queue |-> [i \in 0 .. ICMP_OQSIZ - 1 |-> FALSE], head |-> 0, tail |-> 0]
    /\ icosem = WaitOn(SemWith(0), "icmp_out")
    /\ icmpmutex = Nobody
    /\ hasmsg = [p \in Procs |-> FALSE]
    /\ pc = [a \in Actors |-> IF a = "icmp_out" THEN [Idle EXCEPT !.at = "wait"] ELSE Idle]
    /\ mine = [p \in Procs |-> {}]
    /\ arrived = 0 /\ registered = 0 /\ leaked = 0 /\ fault = "none"

NetNext ==
    \/ \E src \in Hosts : \/ \E port \in Ports : UdpIn(src, port)
                          \/ \E i \in Slots("icmp") : IcmpIn(src, i)
    \/ NetinNext
    \/ EchoReply \/ EchoReplyWoken
    \/ IcmpOutTakes \/ IcmpOutSent
    \/ \E p \in Procs :
           \/ \E rem \in Hosts \cup {AnyHost}, port \in Ports : UdpSearch(p, <<rem, port>>)
           \/ \E host \in Hosts : IcmpClaim(p, host)
           \/ UdpClaim(p) \/ FillPort(p) \/ FillHost(p) \/ FillCount(p) \/ FillHeads(p)
           \/ Timeout(p) \/ RecvWoken(p)
           \/ IcmpSend(p) \/ IcmpLoad(p) \/ IcmpAdvance(p) \/ IcmpStore(p) \/ IcmpTest(p)
           \/ IcmpWrap(p) \/ IcmpSignal(p)
           \/ \E ep \in mine[p] : Recv(p, ep) \/ RecvWait(p, ep) \/ Release(p, ep)

NetSpec == NetInit /\ [][NetNext]_vars
----------------------------------------------------------------------------
Endpoints == UNION {{proto} \X Slots(proto) : proto \in Protos}

(* Types; a ring has as many buffers as its entry counts; an entry in use  *)
(* has an owner, or somebody who is registering it; and a message is only  *)
(* ever there for a reader whose wait is over.                             *)
NetTypeOK ==
    /\ fault \in Faults \cup {"none"}
    /\ icoutq.head \in 0 .. ICMP_OQSIZ - 1 /\ icoutq.tail \in Nat
    /\ \A ep \in Endpoints :
           LET e == Entry(ep)
           IN  /\ e.state \in {"free", "used", "recv"} /\ e.count \in 0 .. QSize(ep[1]) + 1
               /\ {e.head, e.tail} \subseteq 0 .. QSize(ep[1]) - 1
               /\ Sane => e.count = Cardinality(Filled(e))
               /\ e.state # "free" /\ Sane =>
                      \E p \in Procs : ep \in mine[p] \/ (pc[p].at \in Filling /\ pc[p].ep = ep)
    /\ \A p \in Procs : hasmsg[p] => pc[p].at = "woken" /\ pc[p].call = "recv"

(* The packets in the rings, each with its distance from the tail. *)
InRings == UNION {{ep} \X (1 .. Entry(ep).count) : ep \in Endpoints}

(* Those that were given a buffer and have not put it anywhere. *)
Holding ==
    {a \in Actors : /\ pc[a].call \in {"next", "send"}
                   /\ pc[a].at \in {"woken", "built", "loaded", "advanced"}}

(* Every buffer of the pool is in it, in a ring, in a place of icoutq,     *)
(* with icmp_out, netin or a sender, promised to somebody who waited for   *)
(* one, or was forgotten by a registration: time limits, releases, late    *)
(* packets and senders that overtake each other free each one exactly      *)
(* once, until one of the faults.                                          *)
BuffersAccounted ==
    Sane =>
    Tokens(pool)
        + Cardinality(Holding) + Cardinality(InRings) + Cardinality(Filled(icoutq))
        + (IF pc["icmp_out"].at = "sending" THEN 1 ELSE 0)
        + (IF pc["netin"].call = "next" THEN 0 ELSE 1)
        + leaked = PoolSize

(* Nobody sleeps on a packet: a process that waits for one is the one its  *)
(* endpoint will tell, and its ring is empty unless netin is on its way to *)
(* tell it.                                                                *)
ReaderTold ==
    Sane => \A p \in Procs : pc[p].at = "recv" =>
        /\ Entry(pc[p].ep).state = "recv" /\ Entry(pc[p].ep).pid = p
        /\ Entry(pc[p].ep).count > 0 => pc["netin"].call = "next" /\ pc["netin"].ep = pc[p].ep

(* netin waits for a buffer only while icmp_out has one that it will give  *)
(* back, or a process is about to queue one for it, or after one was       *)
(* forgotten: the pool is large enough for every ring to be full, and no   *)
(* packet is left in icoutq that icmp_out was not told of.                 *)
NetinGoesOn ==
    Sane /\ pc["netin"].at = "wait" =>
        \/ leaked > 0
        \/ pc["icmp_out"].at # "wait"
        \/ \E p \in Procs : pc[p].call = "send" /\ pc[p].at # "wait"
=============================================================================
