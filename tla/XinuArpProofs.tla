--------------------------- MODULE XinuArpProofs ----------------------------
(***************************************************************************)
(* The ARP cache, for every size of it, every number of processes and      *)
(* addresses, and any packets and messages: an address has one entry, and  *)
(* a resolved entry holds what its address said last.                      *)
(***************************************************************************)
EXTENDS XinuArp, WellFoundedInduction, TLAPS

Entries == [state : {"free", "pending", "resolved"}, addr : Addrs \cup {None},
            pid : Procs \cup {None}, mac : Macs \cup {None}]
Points == {"user", "clear", "try", "wait", "woken", "check"}
Places == [at : Points, addr : Addrs \cup {None}, slot : Slots, i : Int]

ArpTypes ==
    /\ arpcache \in [Slots -> Entries]
    /\ nextslot \in Slots
    /\ pc \in [Procs -> Places]
    /\ last \in [Addrs -> Macs \cup {None}]

(* An address is that of at most one entry that is not free. *)
OneEntry ==
    \A s, t \in Slots :
        arpcache[s].state # "free" /\ arpcache[t].state # "free" /\ arpcache[s].addr = arpcache[t].addr
        => s = t

Latest ==
    \A s \in Slots : arpcache[s].state = "resolved" =>
        arpcache[s].addr \in Addrs /\ arpcache[s].mac = last[arpcache[s].addr]

ArpInv == ArpTypes /\ OneEntry /\ Latest

(* The order of the natural numbers as a relation. *)
LessThan == {ss \in Nat \X Nat : ss[1] < ss[2]}

(* A nonempty set of natural numbers has a least element. *)
LEMMA MinIsIn ==
    ASSUME NEW S, S \subseteq Nat, S # {}
    PROVE  Min(S) \in S
<1>1. IsWellFoundedOn(LessThan, Nat)
  BY NatLessThanWellFounded, Zenon DEF OpToRel, LessThan
<1>2. \E x \in S : \A y \in S : ~(<<y, x>> \in LessThan)
  BY <1>1, WFMin, Zenon
<1>3. \A x, y \in S : ~(<<y, x>> \in LessThan) => x <= y
  BY DEF LessThan
<1> QED BY <1>2, <1>3 DEF Min

(* Going around a ring of n from a, by the distance to s, leads to s. *)
LEMMA AroundTo ==
    ASSUME NEW n \in Nat \ {0}, NEW a \in 0 .. n - 1, NEW s \in 0 .. n - 1
    PROVE  /\ (s - a) % n \in Nat
           /\ (a + ((s - a) % n)) % n = s
<1>1. CASE s >= a
  <2>1. (s - a) % n = s - a BY <1>1
  <2>2. s % n = s OBVIOUS
  <2> QED BY <1>1, <2>1, <2>2
<1>2. CASE s < a
  <2>1. (s - a) % n = s - a + n BY <1>2
  <2>2. (s + n) % n = s OBVIOUS
  <2> QED BY <1>2, <2>1, <2>2
<1> QED BY <1>1, <1>2

LEMMA FirstFromIsIn ==
    ASSUME NEW n \in Slots, NEW S, S \subseteq Slots, S # {}
    PROVE  FirstFrom(n, S) \in S
<1> DEFINE D == {(s - n) % ARP_SIZ : s \in S}
<1>1. ARP_SIZ \in Nat \ {0} /\ Slots = 0 .. ARP_SIZ - 1 BY ArpAssumption DEF Slots
<1>2. D \subseteq Nat /\ D # {}
  <2>1. \A s \in S : s \in 0 .. ARP_SIZ - 1 /\ n \in 0 .. ARP_SIZ - 1 BY <1>1
  <2>2. \A s \in S : (s - n) % ARP_SIZ \in Nat BY <2>1, <1>1, AroundTo
  <2> QED BY <2>2
<1>3. PICK s \in S : Min(D) = (s - n) % ARP_SIZ BY <1>2, MinIsIn
<1>4. (n + ((s - n) % ARP_SIZ)) % ARP_SIZ = s BY <1>1, AroundTo
<1>5. FirstFrom(n, S) = (n + Min(D)) % ARP_SIZ BY DEF FirstFrom
<1>6. FirstFrom(n, S) = s
  <2> DEFINE m == Min(D)
  <2>1. m = (s - n) % ARP_SIZ /\ FirstFrom(n, S) = (n + m) % ARP_SIZ BY <1>3, <1>5, Zenon
  <2> HIDE DEF m
  <2>2. (n + m) % ARP_SIZ = s BY <2>1, <1>4, Zenon
  <2> QED BY <2>1, <2>2
<1> QED BY <1>6

(* arp_alloc() takes a slot that no process waits for. *)
LEMMA AllocatedSlot ==
    ASSUME ArpTypes, ~AllocFails
    PROVE  Allocated \in Slots /\ arpcache[Allocated].state # "pending"
<1>1. InState("free") \subseteq Slots /\ InState("resolved") \subseteq Slots BY DEF InState
<1>2. CASE InState("free") # {}
  <2>1. Allocated \in InState("free") BY <1>1, <1>2, FirstFromIsIn DEF Allocated, ArpTypes
  <2> QED BY <2>1 DEF InState
<1>3. CASE InState("free") = {}
  <2>1. InState("resolved") # {} BY <1>3 DEF AllocFails
  <2>2. Allocated \in InState("resolved")
    BY <1>1, <1>3, <2>1, FirstFromIsIn DEF Allocated, ArpTypes
  <2> QED BY <2>2 DEF InState
<1> QED BY <1>2, <1>3

(* The search for a cached address finds its entry. *)
LEMMA SlotFound ==
    ASSUME NEW addr, Cached(addr)
    PROVE  SlotOf(addr) \in Slots /\ Holds(SlotOf(addr), addr)
<1> DEFINE S == {s \in Slots : Holds(s, addr)}
<1>1. S # {} BY DEF Cached
<1>2. S \subseteq Nat BY ArpAssumption DEF Slots
<1>3. Min(S) \in S BY <1>1, <1>2, MinIsIn
<1> QED BY <1>3 DEF SlotOf

LEMMA NextSlotIsSlot ==
    ASSUME NEW slot \in Slots
    PROVE  NextSlot(slot) \in Slots
<1>1. ARP_SIZ \in Nat \ {0} BY ArpAssumption
<1>2. slot + 1 \in Nat BY <1>1 DEF Slots
<1>3. (slot + 1) % ARP_SIZ \in 0 .. ARP_SIZ - 1 BY <1>1, <1>2
<1> QED BY <1>3 DEF Slots, NextSlot

LEMMA ArpInitInv == ArpInit => ArpInv
<1> SUFFICES ASSUME ArpInit PROVE ArpInv OBVIOUS
<1>1. 0 \in Slots BY ArpAssumption DEF Slots
<1>2. Free \in Entries BY DEF Free, Entries
<1>3. Idle \in Places BY <1>1 DEF Idle, Places, Points
<1>4. ArpTypes BY <1>1, <1>2, <1>3 DEF ArpInit, ArpTypes
<1>5. \A s \in Slots : arpcache[s].state = "free" BY DEF ArpInit, Free
<1> QED BY <1>4, <1>5 DEF ArpInv, OneEntry, Latest

(* What resolve, a time limit and a message change besides the places. *)
LEMMA SameCache ==
    ASSUME ArpInv, UNCHANGED <<arpcache, nextslot, last>>, pc' \in [Procs -> Places]
    PROVE  ArpInv'
BY DEF ArpInv, ArpTypes, OneEntry, Latest

(* One entry is changed: freed, or kept for its address, or given to an    *)
(* address that no entry holds.                                            *)
LEMMA EntryChanged ==
    ASSUME ArpInv, NEW slot \in Slots, NEW e \in Entries,
           arpcache' = [arpcache EXCEPT ![slot] = e],
           \/ e.state = "free"
           \/ \A s \in Slots \ {slot} : ~Holds(s, e.addr)
    PROVE  OneEntry'
<1>1. \A s \in Slots : arpcache'[s] = IF s = slot THEN e ELSE arpcache[s]
  BY DEF ArpInv, ArpTypes
<1>2. SUFFICES ASSUME NEW s \in Slots, NEW t \in Slots,
                      arpcache'[s].state # "free", arpcache'[t].state # "free",
                      arpcache'[s].addr = arpcache'[t].addr, s # t
               PROVE  FALSE
  BY DEF OneEntry
<1>3. CASE s # slot /\ t # slot BY <1>1, <1>2, <1>3 DEF ArpInv, OneEntry
<1>4. CASE s = slot BY <1>1, <1>2, <1>4 DEF Holds
<1>5. CASE t = slot BY <1>1, <1>2, <1>5 DEF Holds
<1> QED BY <1>3, <1>4, <1>5

LEMMA ResolveNewInv ==
    ASSUME ArpInv, NEW p \in Procs, NEW addr \in Addrs, ResolveNew(p, addr)
    PROVE  ArpInv'
<1>1. CASE AllocFails
  <2>1. pc' \in [Procs -> Places] BY <1>1 DEF ResolveNew, ArpInv, ArpTypes
  <2> QED BY <1>1, <2>1, SameCache DEF ResolveNew
<1>2. CASE ~AllocFails
  <2> DEFINE slot == Allocated
             e == [arpcache[slot] EXCEPT !.state = "pending", !.addr = addr, !.pid = p]
  <2>1. slot \in Slots BY <1>2, AllocatedSlot DEF ArpInv
  <2>2. /\ arpcache' = [arpcache EXCEPT ![slot] = e]
        /\ nextslot' = NextSlot(slot)
        /\ pc' = [pc EXCEPT ![p] = [at |-> "clear", addr |-> addr, slot |-> slot, i |-> 0]]
        /\ last' = last /\ ~Cached(addr)
    BY <1>2 DEF ResolveNew
  <2>3. arpcache[slot] \in Entries BY <2>1 DEF ArpInv, ArpTypes
  <2> HIDE DEF slot
  <2>4. e \in Entries /\ e.state = "pending" /\ e.addr = addr BY <2>3 DEF Entries
  <2> HIDE DEF e
  <2>5. [at |-> "clear", addr |-> addr, slot |-> slot, i |-> 0] \in Places BY <2>1 DEF Places, Points
  <2>6. ArpTypes' BY <2>1, <2>2, <2>4, <2>5, NextSlotIsSlot DEF ArpInv, ArpTypes
  <2>7. OneEntry' BY <2>1, <2>2, <2>4, EntryChanged DEF Cached
  <2>8. Latest' BY <2>1, <2>2, <2>4 DEF ArpInv, ArpTypes, Latest
  <2> QED BY <2>6, <2>7, <2>8 DEF ArpInv
<1> QED BY <1>1, <1>2

(* The steps that wait and look for a message. *)
LEMMA WaitingInv ==
    ASSUME ArpInv, NEW p \in Procs, Recvclr(p) \/ Try(p) \/ Timeout(p) \/ Woken(p)
    PROVE  ArpInv'
<1>1. UNCHANGED <<arpcache, nextslot, last>> BY DEF Recvclr, Try, Timeout, Woken
<1>2. pc[p] \in Places /\ pc \in [Procs -> Places] BY DEF ArpInv, ArpTypes
<1>3. \A at \in Points : [pc[p] EXCEPT !.at = at] \in Places BY <1>2 DEF Places
<1>4. \A at \in Points : [pc[p] EXCEPT !.at = at, !.i = Tried(pc[p].i)] \in Places
  <2>1. \A i \in Int : \A at \in Points : [pc[p] EXCEPT !.at = at, !.i = i] \in Places
    BY <1>2 DEF Places
  <2>2. Tried(pc[p].i) \in Int BY <1>2 DEF Places, Tried
  <2> QED BY <2>1, <2>2
<1>5. pc' \in [Procs -> Places]
  <2>1. CASE Recvclr(p) BY <2>1, <1>2, <1>3 DEF Recvclr, Points
  <2>2. CASE Try(p) BY <2>2, <1>2, <1>3 DEF Try, Points
  <2>3. CASE Timeout(p) BY <2>3, <1>2, <1>3 DEF Timeout, Points
  <2>4. CASE Woken(p)
    <3>1. pc' = [pc EXCEPT ![p] =
                   IF hasmsg[p] THEN [@ EXCEPT !.at = "check"]
                   ELSE [@ EXCEPT !.at = IF Tried(pc[p].i) < ARP_RETRY THEN "try" ELSE "check",
                                  !.i = Tried(pc[p].i)]]
      BY <2>4 DEF Woken
    <3>2. [pc[p] EXCEPT !.at = "check"] \in Places
          /\ [pc[p] EXCEPT !.at = "try", !.i = Tried(pc[p].i)] \in Places
          /\ [pc[p] EXCEPT !.at = "check", !.i = Tried(pc[p].i)] \in Places
      BY <1>3, <1>4 DEF Points
    <3> QED BY <3>1, <3>2, <1>2
  <2> QED BY <2>1, <2>2, <2>3, <2>4
<1> QED BY <1>1, <1>5, SameCache

(* The entry of an address that did not answer becomes free. *)
LEMMA CheckInv ==
    ASSUME ArpInv, NEW p \in Procs, Check(p)
    PROVE  ArpInv'
<1> DEFINE slot == pc[p].slot
           e == [arpcache[slot] EXCEPT !.state = "free"]
<1>1. pc[p] \in Places /\ slot \in Slots BY DEF ArpInv, ArpTypes, Places
<1>2. UNCHANGED <<nextslot, last>> /\ pc' = [pc EXCEPT ![p] = Idle] BY DEF Check
<1>3. 0 \in Slots BY ArpAssumption DEF Slots
<1>4. Idle \in Places BY <1>3 DEF Idle, Places, Points
<1>5. pc' \in [Procs -> Places] BY <1>2, <1>4 DEF ArpInv, ArpTypes
<1>6. CASE arpcache' = arpcache BY <1>2, <1>5, <1>6, SameCache
<1>7. CASE arpcache' = [arpcache EXCEPT ![slot] = e]
  <2>1. arpcache[slot] \in Entries BY <1>1 DEF ArpInv, ArpTypes
  <2> HIDE DEF slot
  <2>2. e \in Entries /\ e.state = "free" BY <2>1 DEF Entries
  <2> HIDE DEF e
  <2>3. ArpTypes' BY <1>1, <1>2, <1>5, <1>7, <2>2 DEF ArpInv, ArpTypes
  <2>4. OneEntry' BY <1>1, <1>7, <2>2, EntryChanged
  <2>5. Latest' BY <1>1, <1>2, <1>7, <2>2 DEF ArpInv, ArpTypes, Latest
  <2> QED BY <2>3, <2>4, <2>5 DEF ArpInv
<1>8. arpcache' = arpcache \/ arpcache' = [arpcache EXCEPT ![slot] = e]
  BY DEF Check, Expired
<1> QED BY <1>6, <1>7, <1>8

LEMMA SendPlaces ==
    ASSUME ArpTypes, NEW p, Send(p)
    PROVE  pc' \in [Procs -> Places]
<1>1. CASE pc[p].at = "wait" /\ p \in Procs
  <2>1. pc[p] \in Places BY <1>1 DEF ArpTypes
  <2>2. [pc[p] EXCEPT !.at = "woken"] \in Places BY <2>1 DEF Places, Points
  <2> QED BY <1>1, <2>2 DEF ArpTypes, Send
<1>2. CASE ~(pc[p].at = "wait" /\ p \in Procs) BY <1>2 DEF ArpTypes, Send
<1> QED BY <1>1, <1>2

LEMMA ArpInInv ==
    ASSUME ArpInv, NEW addr \in Addrs, NEW mac \in Macs, NEW request \in BOOLEAN,
           ArpIn(addr, mac, request)
    PROVE  ArpInv'
<1> USE DEF Found
<1>1. last' = [last EXCEPT ![addr] = mac] /\ last' \in [Addrs -> Macs \cup {None}]
  BY DEF ArpIn, ArpInv, ArpTypes
<1>2. CASE Cached(addr)
  <2> DEFINE slot == SlotOf(addr)
             e == [arpcache[slot] EXCEPT !.mac = mac, !.state = "resolved"]
  <2>1. slot \in Slots /\ Holds(slot, addr) BY <1>2, SlotFound
  <2>2. /\ arpcache' = [arpcache EXCEPT ![slot] = e] /\ nextslot' = nextslot
        /\ Send(arpcache[slot].pid) \/ pc' = pc
    BY <1>2 DEF ArpIn, Updated
  <2>3. pc' \in [Procs -> Places] BY <2>2, SendPlaces DEF ArpInv, ArpTypes
  <2>4. arpcache[slot] \in Entries BY <2>1 DEF ArpInv, ArpTypes
  <2> HIDE DEF slot
  <2>5. e \in Entries /\ e.state = "resolved" /\ e.mac = mac /\ e.addr = addr
    BY <2>1, <2>4 DEF Entries, Holds
  <2> HIDE DEF e
  <2>6. \A s \in Slots \ {slot} : ~Holds(s, addr)
    BY <2>1 DEF Holds, ArpInv, OneEntry
  <2>7. ArpTypes' BY <1>1, <2>1, <2>2, <2>3, <2>5 DEF ArpInv, ArpTypes
  <2>8. OneEntry' BY <2>1, <2>2, <2>5, <2>6, EntryChanged
  <2>9. Latest'
    BY <1>1, <2>1, <2>2, <2>5, <2>6 DEF ArpInv, ArpTypes, Latest, Holds
  <2> QED BY <2>7, <2>8, <2>9 DEF ArpInv
<1>3. CASE ~Cached(addr) /\ request /\ ~AllocFails
  <2> DEFINE slot == Allocated
             e == [arpcache[slot] EXCEPT !.state = "resolved", !.addr = addr, !.mac = mac]
  <2>1. slot \in Slots BY <1>3, AllocatedSlot DEF ArpInv
  <2>2. arpcache' = [arpcache EXCEPT ![slot] = e] /\ nextslot' = NextSlot(slot) /\ pc' = pc
    BY <1>3 DEF ArpIn
  <2>3. arpcache[slot] \in Entries BY <2>1 DEF ArpInv, ArpTypes
  <2> HIDE DEF slot
  <2>4. e \in Entries /\ e.state = "resolved" /\ e.mac = mac /\ e.addr = addr
    BY <2>3 DEF Entries
  <2> HIDE DEF e
  <2>5. \A s \in Slots \ {slot} : ~Holds(s, addr) BY <1>3 DEF Cached
  <2>6. ArpTypes' BY <1>1, <2>1, <2>2, <2>4, NextSlotIsSlot DEF ArpInv, ArpTypes
  <2>7. OneEntry' BY <2>1, <2>2, <2>4, <2>5, EntryChanged
  <2>8. Latest'
    BY <1>1, <2>1, <2>2, <2>4, <2>5 DEF ArpInv, ArpTypes, Latest, Holds
  <2> QED BY <2>6, <2>7, <2>8 DEF ArpInv
<1>4. CASE ~Cached(addr) /\ ~(request /\ ~AllocFails)
  <2>1. UNCHANGED <<arpcache, nextslot, pc>> BY <1>4 DEF ArpIn
  <2>2. ArpTypes' /\ OneEntry' BY <1>1, <2>1 DEF ArpInv, ArpTypes, OneEntry
  <2>3. Latest' BY <1>1, <1>4, <2>1 DEF ArpInv, ArpTypes, Latest, Cached, Holds
  <2> QED BY <2>2, <2>3 DEF ArpInv
<1> QED BY <1>2, <1>3, <1>4

(* Every step keeps the invariant. *)
LEMMA ArpStep == ArpInv /\ [ArpNext]_vars => ArpInv'
<1> SUFFICES ASSUME ArpInv, [ArpNext]_vars PROVE ArpInv' OBVIOUS
<1>1. CASE UNCHANGED vars
  <2>1. UNCHANGED <<arpcache, nextslot, last>> /\ pc' \in [Procs -> Places]
    BY <1>1 DEF vars, ArpInv, ArpTypes
  <2> QED BY <2>1, SameCache
<1>2. ASSUME NEW p \in Procs, Step(p) PROVE ArpInv'
  BY <1>2, WaitingInv, CheckInv DEF Step
<1>3. ASSUME NEW p \in Procs, Stray(p) PROVE ArpInv'
  <2>1. UNCHANGED <<arpcache, nextslot, last>> /\ pc' \in [Procs -> Places]
    BY <1>3, SendPlaces DEF Stray, ArpInv
  <2> QED BY <2>1, SameCache
<1>4. ASSUME NEW p \in Procs, NEW a \in Addrs, ResolveCached(p, a) PROVE ArpInv'
  <2>1. UNCHANGED <<arpcache, nextslot, last>> /\ pc' \in [Procs -> Places]
    BY <1>4 DEF ResolveCached, ArpInv, ArpTypes
  <2> QED BY <2>1, SameCache
<1>5. ASSUME NEW p \in Procs, NEW a \in Addrs, ResolveNew(p, a) PROVE ArpInv'
  BY <1>5, ResolveNewInv
<1>6. ASSUME NEW a \in Addrs, NEW mac \in Macs, NEW request \in BOOLEAN, ArpIn(a, mac, request)
      PROVE ArpInv'
  BY <1>6, ArpInInv
<1> QED BY <1>1, <1>2, <1>3, <1>4, <1>5, <1>6 DEF ArpNext

(* Whatever arrives and whoever resolves (arp.c), an address has one entry *)
(* and a resolved entry is what its address said last.                     *)
THEOREM CacheIsFresh == ArpSpec => []CacheFresh
<1>1. ArpInv => CacheFresh
  BY DEF ArpInv, ArpTypes, OneEntry, Latest, CacheFresh
<1> QED BY <1>1, ArpInitInv, ArpStep, PTL DEF ArpSpec
=============================================================================
