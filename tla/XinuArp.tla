------------------------------ MODULE XinuArp ------------------------------
(***************************************************************************)
(* The ARP cache (net/arp.c): processes resolve addresses, with retries,   *)
(* and netin stores what the packets that arrive say.                      *)
(*                                                                         *)
(* arp_resolve() holds the cache, with interrupts off, while it searches   *)
(* and while it reads the answer, and releases it in between: netin and    *)
(* other processes run there.  netin handles a packet in one step.         *)
(***************************************************************************)
EXTENDS Integers, FiniteSetsExt

CONSTANTS
    Procs, Addrs, Macs,
    ARP_SIZ, ARP_RETRY,
    None,           \* no process, no address, no hardware address
    MaxPackets,     \* bound: the ARP packets that arrive
    MaxResolves,    \* bound: the calls of arp_resolve()
    MaxStrays       \* bound: the messages from elsewhere

ASSUME ArpAssumption ==
    /\ {ARP_SIZ, ARP_RETRY} \subseteq Nat \ {0}
    /\ {MaxPackets, MaxResolves, MaxStrays} \subseteq Nat
    /\ None \notin Procs \cup Addrs \cup Macs

VARIABLES
    arpcache,
    nextslot,   \* of arp_alloc()
    hasmsg,     \* is there a message for the process?
    pc,         \* where in arp_resolve() each process is

    packets,    \* auxiliary: the number of packets that arrived
    resolves,   \* auxiliary: the number of calls
    strays,     \* auxiliary: the number of messages from elsewhere
    last        \* auxiliary: what each address said last of its hardware

vars == <<arpcache, nextslot, hasmsg, pc, packets, resolves, strays, last>>

Slots == 0 .. ARP_SIZ - 1
Free == [state |-> "free", addr |-> None, pid |-> None, mac |-> None]
Idle == [at |-> "user", addr |-> None, slot |-> 0, i |-> 0]

(* The entry of an address, as arp_resolve() and arp_in() search it. *)
Holds(s, addr) == arpcache[s].state # "free" /\ arpcache[s].addr = addr
Cached(addr) == \E s \in Slots : Holds(s, addr)
SlotOf(addr) == Min({s \in Slots : Holds(s, addr)})

(* arp_alloc(): the first free slot from nextslot on, or else the first    *)
(* resolved one.                                                           *)
FirstFrom(n, S) == (n + Min({(s - n) % ARP_SIZ : s \in S})) % ARP_SIZ

InState(state) == {s \in Slots : arpcache[s].state = state}

AllocFails == InState("free") \cup InState("resolved") = {}
Allocated ==
    IF InState("free") # {} THEN FirstFrom(nextslot, InState("free"))
    ELSE FirstFrom(nextslot, InState("resolved"))

NextSlot(slot) == (slot + 1) % ARP_SIZ

----------------------------------------------------------------------------
(***************************************************************************)
(* arp_resolve().                                                          *)
(***************************************************************************)
Calls(p) ==
    /\ pc[p] = Idle
    /\ resolves < MaxResolves
    /\ resolves' = resolves + 1

(* The address is in the cache: answered, or "only one request can be      *)
(* pending for an address".                                                *)
ResolveCached(p, addr) ==
    /\ Calls(p)
    /\ Cached(addr)
    /\ UNCHANGED <<arpcache, nextslot, hasmsg, pc, packets, strays, last>>

ResolveNew(p, addr) ==
    /\ Calls(p)
    /\ ~Cached(addr)
    /\ IF AllocFails
       THEN UNCHANGED <<arpcache, nextslot, pc>>
       ELSE /\ arpcache' = [arpcache EXCEPT ![Allocated] =
                                [@ EXCEPT !.state = "pending", !.addr = addr, !.pid = p]]
            /\ nextslot' = NextSlot(Allocated)
            /\ pc' = [pc EXCEPT ![p] = [at |-> "clear", addr |-> addr, slot |-> Allocated, i |-> 0]]
    /\ UNCHANGED <<hasmsg, packets, strays, last>>

(* The cache is released; old messages are dropped before the first try.   *)
Recvclr(p) ==
    /\ pc[p].at = "clear"
    /\ pc' = [pc EXCEPT ![p].at = "try"]
    /\ hasmsg' = [hasmsg EXCEPT ![p] = FALSE]
    /\ UNCHANGED <<arpcache, nextslot, packets, resolves, strays, last>>

(* A message ends the tries, whoever sent it.                              *)
Try(p) ==
    /\ pc[p].at = "try"
    /\ hasmsg' = [hasmsg EXCEPT ![p] = FALSE]
    /\ pc' = [pc EXCEPT ![p].at = IF hasmsg[p] THEN "check" ELSE "wait"]
    /\ UNCHANGED <<arpcache, nextslot, packets, resolves, strays, last>>

Timeout(p) ==
    /\ pc[p].at = "wait"
    /\ pc' = [pc EXCEPT ![p].at = "woken"]
    /\ UNCHANGED <<arpcache, nextslot, hasmsg, packets, resolves, strays, last>>

Tried(i) == i + 1

(* The end of recvtime().                                                  *)
Woken(p) ==
    /\ pc[p].at = "woken"
    /\ hasmsg' = [hasmsg EXCEPT ![p] = FALSE]
    /\ pc' = [pc EXCEPT ![p] =
                IF hasmsg[p] THEN [@ EXCEPT !.at = "check"]
                ELSE [@ EXCEPT !.at = IF Tried(pc[p].i) < ARP_RETRY THEN "try" ELSE "check",
                                    !.i = Tried(pc[p].i)]]
    /\ UNCHANGED <<arpcache, nextslot, packets, resolves, strays, last>>

(* Mutant: the entry of an address that did not answer is left pending. *)
Expired_Left(slot) == arpcache

(* The entry of an address that did not answer is given up. *)
Expired(slot) == [arpcache EXCEPT ![slot].state = "free"]

(* Mutant: the entry is not looked at again. *)
Verified_Always(p) == TRUE

(* "Verify that entry has not changed": only its address is looked at. *)
Verified(p) == arpcache[pc[p].slot].addr = pc[p].addr

(* Then answer or give up. *)
Check(p) ==
    /\ pc[p].at = "check"
    /\ arpcache' = IF Verified(p) /\ pc[p].i >= ARP_RETRY
                   THEN Expired(pc[p].slot) ELSE arpcache
    /\ pc' = [pc EXCEPT ![p] = Idle]
    /\ UNCHANGED <<nextslot, hasmsg, packets, resolves, strays, last>>
----------------------------------------------------------------------------
(***************************************************************************)
(* Packets and messages that arrive.                                       *)
(***************************************************************************)
(* send(): dropped if there is a message already. *)
Send(p) ==
    /\ hasmsg' = [hasmsg EXCEPT ![p] = TRUE]
    /\ pc' = IF pc[p].at = "wait" THEN [pc EXCEPT ![p].at = "woken"] ELSE pc

(* Whatever the state, the sender's hardware address is updated. *)
Updated(e, mac) == [e EXCEPT !.mac = mac, !.state = "resolved"]

(* Mutant: netin looks for pending entries only. *)
Found_Pending(addr) == \E s \in Slots : Holds(s, addr) /\ arpcache[s].state = "pending"

Found(addr) == Cached(addr)

(* arp_in(): a reply or a request, to this machine or to another one.      *)
ArpIn(addr, mac, request) ==
    /\ packets < MaxPackets
    /\ packets' = packets + 1
    /\ last' = [last EXCEPT ![addr] = mac]
    /\ IF Found(addr)
       THEN LET slot == SlotOf(addr)
            IN  /\ arpcache' = [arpcache EXCEPT ![slot] = Updated(@, mac)]
                /\ IF arpcache[slot].state = "pending"
                   THEN Send(arpcache[slot].pid) ELSE UNCHANGED <<hasmsg, pc>>
                /\ UNCHANGED nextslot
       ELSE /\ IF request /\ ~AllocFails
               THEN /\ arpcache' = [arpcache EXCEPT ![Allocated] =
                            [@ EXCEPT !.state = "resolved", !.addr = addr, !.mac = mac]]
                    /\ nextslot' = NextSlot(Allocated)
               ELSE UNCHANGED <<arpcache, nextslot>>
            /\ UNCHANGED <<hasmsg, pc>>
    /\ UNCHANGED <<resolves, strays>>

(* A message from elsewhere: a child of p ends, or a process sends to p.   *)
Stray(p) ==
    /\ strays < MaxStrays
    /\ strays' = strays + 1
    /\ Send(p)
    /\ UNCHANGED <<arpcache, nextslot, packets, resolves, last>>

ArpInit ==
    /\ arpcache = [s \in Slots |-> Free]
    /\ nextslot = 0
    /\ hasmsg = [p \in Procs |-> FALSE]
    /\ pc = [p \in Procs |-> Idle]
    /\ packets = 0 /\ resolves = 0 /\ strays = 0
    /\ last = [a \in Addrs |-> None]

Step(p) == Recvclr(p) \/ Try(p) \/ Timeout(p) \/ Woken(p) \/ Check(p)

ArpNext ==
    \/ \E p \in Procs :
           \/ Step(p)
           \/ Stray(p)
           \/ \E a \in Addrs : ResolveCached(p, a) \/ ResolveNew(p, a)
    \/ \E a \in Addrs, mac \in Macs, request \in BOOLEAN : ArpIn(a, mac, request)

(* The processor gets to every process that can go on, and the clock runs. *)
ArpSpec == ArpInit /\ [][ArpNext]_vars /\ \A p \in Procs : WF_vars(Step(p))
----------------------------------------------------------------------------
(* An address has at most one entry, and the entry of an address that was  *)
(* resolved holds what that address said last, though entries are evicted, *)
(* given up by processes that held them, and allocated by netin while      *)
(* processes wait.                                                         *)
CacheFresh ==
    /\ \A s, t \in Slots :
           {arpcache[s].state, arpcache[t].state} \cap {"free"} = {} /\ arpcache[s].addr = arpcache[t].addr
           => s = t
    /\ \A s \in Slots : arpcache[s].state = "resolved" => arpcache[s].mac = last[arpcache[s].addr]

(* A process that was told of its address answers with what that address   *)
(* said last, though its entry may have been evicted, and used for another *)
(* address, since.  Only the address is verified, so that this fails when  *)
(* a message from elsewhere ended the wait, and when the entry was given   *)
(* up, or allocated for the same address by another process, meanwhile.    *)
AnswerFresh ==
    \A p \in Procs : pc[p].at = "check" /\ pc[p].i < ARP_RETRY /\ Verified(p) =>
        LET e == arpcache[pc[p].slot]
        IN  e.mac = last[pc[p].addr] \/ strays > 0 \/ e.state = "free" \/ e.pid # p

(* A pending entry ends, whatever packets come or do not: while it is      *)
(* pending no other process can resolve its address.                       *)
PendingEnds ==
    \A s \in Slots : (arpcache[s].state = "pending" /\ strays = 0) ~> (arpcache[s].state # "pending" \/ strays > 0)
=============================================================================
