--------------------------- MODULE XinuNetProofs ---------------------------
(***************************************************************************)
(* Theorems about the network process.  Every buffer is in one place, so   *)
(* the pool cannot be empty with nobody to give one back; a process that   *)
(* waits for a packet is the one its endpoint tells.  The invariant says   *)
(* more: an entry in use has exactly one owner, an entry with a reader     *)
(* names an owner that reads, and the queue of each semaphore lists        *)
(* exactly the actors that wait for it.                                    *)
(***************************************************************************)
EXTENDS XinuNet, XinuQueueProofs

USE DEF Filling

(* Records with the fields of an entry and of a place. *)
IsEntry(e, proto) ==
    /\ e = [state |-> e.state, key |-> e.key, count |-> e.count, head |-> e.head,
            tail |-> e.tail, pid |-> e.pid, queue |-> e.queue]
    /\ e.state \in {"free", "used", "recv"}
    /\ e.count \in 0 .. QSize(proto) + 1
    /\ e.head \in Nat /\ (e.head < QSize(proto) \/ e.head < Cardinality(Slots(proto)))
    /\ e.tail \in 0 .. QSize(proto) - 1
    /\ e.queue \in [0 .. QSize(proto) - 1 -> BOOLEAN]

IsTable(t) ==
    /\ t = [proto \in Protos |-> t[proto]]
    /\ \A proto \in Protos :
           /\ t[proto] = [i \in Slots(proto) |-> t[proto][i]]
           /\ \A i \in Slots(proto) : IsEntry(t[proto][i], proto)

IsPlace(x) == x = [at |-> x.at, call |-> x.call, ep |-> x.ep, key |-> x.key]

Placed(place) ==
    place = [a \in Actors |-> place[a]] /\ \A a \in Actors : IsPlace(place[a])

OutTyped ==
    /\ icoutq = [queue |-> icoutq.queue, head |-> icoutq.head, tail |-> icoutq.tail]
    /\ icoutq.queue \in [0 .. ICMP_OQSIZ - 1 -> BOOLEAN]
    /\ icoutq.head \in 0 .. ICMP_OQSIZ - 1 /\ icoutq.tail \in Nat

(* Where the code of each actor can be. *)
ProcAt(p) ==
    \/ pc[p].at = "user" /\ pc[p].call = "none"
    \/ pc[p].at \in {"claim"} \cup Filling /\ pc[p].call = "register" /\ pc[p].ep \in Endpoints
    \/ pc[p].at \in {"recv", "woken"} /\ pc[p].call = "recv" /\ pc[p].ep \in mine[p]
    \/ pc[p].at \in {"wait", "woken", "built", "stored", "wrap", "queued"} /\ pc[p].call = "send"
    \/ pc[p].at \in {"loaded", "advanced"} /\ pc[p].call = "send" /\ pc[p].ep[2] \in Nat

NetinAt ==
    \/ pc["netin"].at = "user" /\ pc["netin"].call = "none"
    \/ pc["netin"].at \in {"wait", "woken"} /\ pc["netin"].call = "next"
       /\ pc["netin"].ep \in Endpoints
    \/ pc["netin"].at \in {"wait", "woken"} /\ pc["netin"].call = "send"

IcmpOutAt == pc["icmp_out"].at \in {"wait", "woken", "sending"} /\ pc["icmp_out"].call = "none"

MessageFor(p) == hasmsg[p] => pc[p].at = "woken" /\ pc[p].call = "recv"

Types ==
    /\ fault \in Faults \cup {"none"}
    /\ IsTable(tab) /\ OutTyped
    /\ Placed(pc)
    /\ hasmsg \in [Procs -> BOOLEAN] /\ mine \in [Procs -> SUBSET Endpoints]
    /\ leaked \in Nat
    /\ \A p \in Procs : ProcAt(p) /\ MessageFor(p)
    /\ NetinAt /\ IcmpOutAt

(* The owner of an endpoint registered it, or is about to have done so. *)
Fills(p, ep) == pc[p].at \in Filling /\ pc[p].ep = ep
Owns(p, ep) == ep \in mine[p] \/ Fills(p, ep)

Owned ==
    /\ \A ep \in Endpoints, p, q \in Procs : Owns(p, ep) /\ Owns(q, ep) => p = q
    /\ \A ep \in Endpoints : Entry(ep).state # "free" <=> \E p \in Procs : Owns(p, ep)
    /\ \A p \in Procs : pc[p].at \in Filling => pc[p].ep \notin mine[p]

(* The process of an entry that expects a reader is in recvtime(). *)
Reads(p, ep) == pc[p].at \in {"recv", "woken"} /\ pc[p].call = "recv" /\ pc[p].ep = ep

PidReads(ep) ==
    Entry(ep).state = "recv" => Entry(ep).pid \in Procs /\ Reads(Entry(ep).pid, ep)

(* Who waits for a buffer, who was given one and has not told icmp_out of  *)
(* it, and who of them has put it into icoutq.                             *)
Asks(x) == x.at = "wait" /\ x.call \in {"next", "send"}
Gets(x) == x.at # "wait" /\ x.call \in {"next", "send"}
Unsent(x) == x.at \in {"stored", "wrap", "queued"} /\ x.call = "send"
AskIn(place) == {a \in Actors : Asks(place[a])}
GetIn(place) == {a \in Actors : Gets(place[a])}
UnsentIn(place) == {a \in Actors : Unsent(place[a])}
WaitsForOut == {a \in {"icmp_out"} : pc[a].at = "wait"}

Sems ==
    /\ Holds(pool, AskIn(pc)) /\ Holds(icosem, WaitsForOut)
    /\ IsFiniteSet(GetIn(pc))

(* The packets that icmp_out was told of. *)
InOutq == Tokens(icosem) + (IF pc["icmp_out"].at = "woken" THEN 1 ELSE 0)

(* There is a buffer in icoutq for each of them, and for each sender that  *)
(* has stored its own and not told of it.                                  *)
OutRing == Cardinality(Filled(icoutq)) = InOutq + Cardinality(UnsentIn(pc))

Full(e) == e.count = Cardinality(Filled(e))

Room == OutRing /\ \A ep \in Endpoints : Full(Entry(ep))

(* Every buffer is in one place. *)
Sending == IF pc["icmp_out"].at = "sending" THEN 1 ELSE 0
Spare == IF pc["netin"].call = "next" THEN 0 ELSE 1

Summed ==
    Sane =>
    Tokens(pool) + Cardinality(GetIn(pc)) + Cardinality(InRings) + InOutq + Sending + Spare
        + leaked = PoolSize

NetInv ==
    /\ Types
    /\ Sane => Sems /\ Owned /\ Room /\ \A ep \in Endpoints : PidReads(ep)
    /\ Summed
    /\ ReaderTold
----------------------------------------------------------------------------
(***************************************************************************)
(* The table, and the places of the actors.                                *)
(***************************************************************************)
LEMMA Constants ==
    /\ UDP_SLOTS \in Nat \ {0} /\ UDP_QSIZ \in Nat \ {0}
    /\ ICMP_SLOTS \in Nat \ {0} /\ ICMP_QSIZ \in Nat \ {0} /\ ICMP_OQSIZ \in Nat \ {0}
    /\ "netin" \notin Procs /\ "icmp_out" \notin Procs /\ Nobody \notin Procs
    /\ "netin" \in Actors /\ "icmp_out" \in Actors
BY NetAssumption DEF Actors

LEMMA OneProto ==
    ASSUME NEW proto \in Protos
    PROVE  /\ QSize(proto) \in Nat \ {0}
           /\ IsFiniteSet(Slots(proto))
           /\ Cardinality(Slots(proto)) \in Nat \ {0}
           /\ \A i \in Slots(proto) : <<proto, i>> \in Endpoints
<1>1. QSize(proto) \in Nat \ {0} BY Constants DEF QSize
<1>2. PICK n \in Nat \ {0} : Slots(proto) = 1 .. n BY Constants DEF Slots
<1>3. IsFiniteSet(1 .. n) /\ Cardinality(1 .. n) = n
  <2>1. 1 \in Int /\ n \in Int /\ ~(1 > n) /\ n - 1 + 1 = n OBVIOUS
  <2> QED BY <2>1, FS_Interval
<1>4. \A i \in Slots(proto) : <<proto, i>> \in Endpoints BY DEF Endpoints
<1> QED BY <1>1, <1>2, <1>3, <1>4

LEMMA OneEndpoint ==
    ASSUME NEW ep \in Endpoints
    PROVE  ep[1] \in Protos /\ ep[2] \in Slots(ep[1]) /\ ep = <<ep[1], ep[2]>>
BY DEF Endpoints

LEMMA EntryTyped ==
    ASSUME Types, NEW ep \in Endpoints
    PROVE  IsEntry(Entry(ep), ep[1])
BY OneEndpoint DEF Types, IsTable, Entry

(* A statement changes one entry. *)
LEMMA OneEntry ==
    ASSUME Types, NEW ep \in Endpoints, NEW e, IsEntry(e, ep[1]),
           tab' = [tab EXCEPT ![ep[1]][ep[2]] = e]
    PROVE  /\ IsTable(tab') /\ Entry(ep)' = e
           /\ \A d \in Endpoints \ {ep} : Entry(d)' = Entry(d)
<1>0. PICK proto \in Protos : ep[1] = proto BY OneEndpoint
<1>1. PICK i \in Slots(proto) : ep[1] = proto /\ ep[2] = i /\ ep = <<proto, i>>
  BY <1>0, OneEndpoint
<1>2. tab' = [tab EXCEPT ![proto][i] = e] BY <1>1
<1>3. tab = [q \in Protos |-> tab[q]] /\ \A q \in Protos : tab[q] = [j \in Slots(q) |-> tab[q][j]]
  BY DEF Types, IsTable
<1>4. tab'[proto][i] = e BY <1>2, <1>3
<1>5. /\ tab' = [q \in Protos |-> tab'[q]]
      /\ \A q \in Protos : tab'[q] = [j \in Slots(q) |-> tab'[q][j]]
  BY <1>2, <1>3
<1>6. ASSUME NEW q \in Protos, NEW j \in Slots(q), q # proto \/ j # i
      PROVE  tab'[q][j] = tab[q][j]
  BY <1>2, <1>3, <1>6
<1>7. ASSUME NEW q \in Protos, NEW j \in Slots(q) PROVE IsEntry(tab'[q][j], q)
  <2>1. IsEntry(tab[q][j], q) BY DEF Types, IsTable
  <2>2. CASE q = proto /\ j = i BY <2>2, <1>1, <1>4
  <2>3. CASE q # proto \/ j # i BY <2>1, <2>3, <1>6
  <2> QED BY <2>2, <2>3
<1>8. ASSUME NEW d \in Endpoints \ {ep} PROVE Entry(d)' = Entry(d)
  <2>1. d[1] \in Protos /\ d[2] \in Slots(d[1]) /\ d = <<d[1], d[2]>> BY OneEndpoint
  <2>2. d[1] # proto \/ d[2] # i BY <2>1, <1>1
  <2> QED BY <2>1, <2>2, <1>6 DEF Entry
<1> QED BY <1>1, <1>4, <1>5, <1>7, <1>8 DEF IsTable, Entry

(* One actor gets to another place. *)
Moves(place, a, x, new) == new = [place EXCEPT ![a] = x]

LEMMA Moved ==
    ASSUME NEW place, Placed(place), NEW a \in Actors, NEW x, IsPlace(x),
           NEW new, Moves(place, a, x, new)
    PROVE  /\ Placed(new) /\ new[a] = x
           /\ \A b \in Actors \ {a} : new[b] = place[b]
BY DEF Placed, Moves

(* Those that a signal made ready have the buffer they waited for. *)
LEMMA Woken ==
    ASSUME NEW place, Placed(place), NEW R, NEW new, new = Wake(place, R)
    PROVE  /\ Placed(new)
           /\ \A a \in Actors : new[a].call = place[a].call /\ new[a].ep = place[a].ep
           /\ \A a \in Actors \ R : new[a] = place[a]
           /\ \A a \in Actors \cap R : new[a].at = "woken"
<1>1. new = [a \in Actors |-> IF a \in R THEN [place[a] EXCEPT !.at = "woken"] ELSE place[a]]
  BY DEF Placed, Wake
<1>2. ASSUME NEW a \in Actors
      PROVE  /\ IsPlace(new[a]) /\ new[a].call = place[a].call /\ new[a].ep = place[a].ep
             /\ a \notin R => new[a] = place[a]
             /\ a \in R => new[a].at = "woken"
  <2>1. IsPlace(place[a]) BY DEF Placed
  <2>2. CASE a \notin R BY <2>1, <2>2, <1>1
  <2>3. CASE a \in R
    <3>1. new[a] = [place[a] EXCEPT !.at = "woken"] BY <2>3, <1>1
    <3>2. new[a] = [at |-> "woken", call |-> place[a].call, ep |-> place[a].ep, key |-> place[a].key]
      BY <2>1, <3>1 DEF IsPlace
    <3> QED BY <3>2, <2>3 DEF IsPlace
  <2> QED BY <2>2, <2>3
<1>3. new = [a \in Actors |-> new[a]] BY <1>1
<1> QED BY <1>2, <1>3 DEF Placed

(* Who waits and who was given a buffer when one actor has moved. *)
LEMMA MovedAsks ==
    ASSUME NEW place, Placed(place), NEW a \in Actors, NEW x, IsPlace(x),
           NEW new, Moves(place, a, x, new)
    PROVE  /\ AskIn(new) = IF Asks(x) THEN AskIn(place) \cup {a} ELSE AskIn(place) \ {a}
           /\ GetIn(new) = IF Gets(x) THEN GetIn(place) \cup {a} ELSE GetIn(place) \ {a}
<1>1. new[a] = x /\ \A b \in Actors \ {a} : new[b] = place[b] BY Moved
<1>2. \A b \in Actors : Asks(new[b]) <=> IF b = a THEN Asks(x) ELSE Asks(place[b]) BY <1>1
<1>3. \A b \in Actors : Gets(new[b]) <=> IF b = a THEN Gets(x) ELSE Gets(place[b]) BY <1>1
<1>4. AskIn(new) = IF Asks(x) THEN AskIn(place) \cup {a} ELSE AskIn(place) \ {a}
  <2>1. CASE Asks(x) BY <1>2, <2>1 DEF AskIn
  <2>2. CASE ~Asks(x) BY <1>2, <2>2 DEF AskIn
  <2> QED BY <2>1, <2>2
<1>5. GetIn(new) = IF Gets(x) THEN GetIn(place) \cup {a} ELSE GetIn(place) \ {a}
  <2>1. CASE Gets(x) BY <1>3, <2>1 DEF GetIn
  <2>2. CASE ~Gets(x) BY <1>3, <2>2 DEF GetIn
  <2> QED BY <2>1, <2>2
<1> QED BY <1>4, <1>5

(* Buffers that are freed are free, or go to those that waited for them. *)
LEMMA Freed ==
    ASSUME NEW place, Placed(place), NEW sem, Holds(sem, AskIn(place)), IsFiniteSet(GetIn(place)),
           NEW n \in Nat, NEW new, new = Wake(place, Released(sem, n)),
           NEW left, left = SignalnOn(sem, n)
    PROVE  /\ Placed(new)
           /\ Holds(left, AskIn(new)) /\ IsFiniteSet(GetIn(new)) /\ UnsentIn(new) = UnsentIn(place)
           /\ Tokens(left) + Cardinality(GetIn(new)) = Tokens(sem) + Cardinality(GetIn(place)) + n
           /\ \A a \in Actors :
                  \/ new[a] = place[a]
                  \/ /\ Asks(place[a]) /\ Gets(new[a]) /\ new[a].at = "woken"
                     /\ new[a].call = place[a].call /\ new[a].ep = place[a].ep
<1> DEFINE R == Released(sem, n)
<1>1. /\ R \subseteq AskIn(place) /\ IsFiniteSet(R) /\ Cardinality(R) \in Nat
      /\ Holds(left, AskIn(place) \ R)
      /\ Tokens(left) + Cardinality(R) = Tokens(sem) + n
      /\ Tokens(left) \in Nat /\ Tokens(sem) \in Nat
  BY SignalnHolds
<1>2. /\ Placed(new)
      /\ \A a \in Actors : new[a].call = place[a].call /\ new[a].ep = place[a].ep
      /\ \A a \in Actors \ R : new[a] = place[a]
      /\ \A a \in Actors \cap R : new[a].at = "woken"
  BY Woken
<1> HIDE DEF R
<1>3. \A a \in Actors : a \in R => Asks(place[a]) /\ Gets(new[a]) BY <1>1, <1>2 DEF AskIn, Asks, Gets
<1>4. AskIn(new) = AskIn(place) \ R
  <2>1. \A a \in Actors : Asks(new[a]) <=> Asks(place[a]) /\ a \notin R
    BY <1>2, <1>3 DEF Asks, Gets
  <2> QED BY <2>1 DEF AskIn
<1>5. GetIn(new) = GetIn(place) \cup R
  <2>1. \A a \in Actors : Gets(new[a]) <=> Gets(place[a]) \/ a \in R
    BY <1>2, <1>3 DEF Asks, Gets
  <2>2. R \subseteq Actors BY <1>1 DEF AskIn
  <2> QED BY <2>1, <2>2 DEF GetIn
<1>6. GetIn(place) \cap R = {} BY <1>3 DEF GetIn, Asks, Gets
<1>7. /\ IsFiniteSet(GetIn(new))
      /\ Cardinality(GetIn(new)) = Cardinality(GetIn(place)) + Cardinality(R)
      /\ Cardinality(GetIn(place)) \in Nat
  BY <1>1, <1>5, <1>6, CardinalityOfBoth
<1>8. Tokens(left) + Cardinality(GetIn(new)) = Tokens(sem) + Cardinality(GetIn(place)) + n
  BY <1>1, <1>7
<1>9. UnsentIn(new) = UnsentIn(place)
  <2>1. \A a \in Actors : Unsent(new[a]) <=> Unsent(place[a])
    BY <1>2, <1>3 DEF Asks, Unsent
  <2> QED BY <2>1 DEF UnsentIn
<1> QED BY <1>1, <1>2, <1>3, <1>4, <1>7, <1>8, <1>9

(* The buffer that somebody waited for is used. *)
LEMMA Used ==
    ASSUME NEW place, Placed(place), IsFiniteSet(GetIn(place)), NEW a \in Actors, Gets(place[a]),
           NEW x, IsPlace(x), ~Asks(x), ~Gets(x), NEW new, Moves(place, a, x, new)
    PROVE  /\ AskIn(new) = AskIn(place) /\ IsFiniteSet(GetIn(new))
           /\ Cardinality(GetIn(new)) + 1 = Cardinality(GetIn(place))
           /\ UnsentIn(new) = UnsentIn(place) \ {a}
<1>1. AskIn(new) = AskIn(place) \ {a} /\ GetIn(new) = GetIn(place) \ {a} BY MovedAsks
<1>2. a \notin AskIn(place) /\ a \in GetIn(place) BY DEF AskIn, GetIn, Asks, Gets
<1>3. IsFiniteSet(GetIn(new)) /\ Cardinality(GetIn(new)) = Cardinality(GetIn(place)) - 1
  BY <1>1, <1>2, FS_RemoveElement
<1>4. Cardinality(GetIn(place)) \in Nat BY FS_CardinalityType
<1>5. Cardinality(GetIn(new)) + 1 = Cardinality(GetIn(place)) BY <1>3, <1>4
<1>6. AskIn(new) = AskIn(place) BY <1>1, <1>2
<1>7. UnsentIn(new) = UnsentIn(place) \ {a}
  <2>1. new[a] = x /\ \A b \in Actors \ {a} : new[b] = place[b] BY Moved
  <2>2. ~Unsent(x) BY DEF Gets, Unsent
  <2> QED BY <2>1, <2>2 DEF UnsentIn
<1> QED BY <1>3, <1>5, <1>6, <1>7

(* A move that is not about a buffer. *)
LEMMA MovedElsewhere ==
    ASSUME NEW place, Placed(place), NEW a \in Actors, ~Asks(place[a]),
           NEW x, IsPlace(x), ~Asks(x), Gets(x) <=> Gets(place[a]), NEW new, Moves(place, a, x, new)
    PROVE  /\ AskIn(new) = AskIn(place) /\ GetIn(new) = GetIn(place)
           /\ (Gets(x) => (Unsent(x) <=> Unsent(place[a]))) => UnsentIn(new) = UnsentIn(place)
<1>1. /\ AskIn(new) = AskIn(place) \ {a}
      /\ GetIn(new) = IF Gets(x) THEN GetIn(place) \cup {a} ELSE GetIn(place) \ {a}
  BY MovedAsks
<1>2. a \notin AskIn(place) /\ (a \in GetIn(place) <=> Gets(x)) BY DEF AskIn, GetIn
<1>3. ASSUME Gets(x) => (Unsent(x) <=> Unsent(place[a])) PROVE UnsentIn(new) = UnsentIn(place)
  <2>1. new[a] = x /\ \A b \in Actors \ {a} : new[b] = place[b] BY Moved
  <2>2. Unsent(x) <=> Unsent(place[a])
    <3>1. (Unsent(x) => Gets(x)) /\ (Unsent(place[a]) => Gets(place[a])) BY DEF Unsent, Gets
    <3> QED BY <1>3, <3>1
  <2> QED BY <2>1, <2>2 DEF UnsentIn
<1>4. GetIn(new) = GetIn(place)
  <2>1. CASE Gets(x) BY <1>1, <1>2, <2>1
  <2>2. CASE ~Gets(x) BY <1>1, <1>2, <2>2
  <2> QED BY <2>1, <2>2
<1> QED BY <1>1, <1>2, <1>3, <1>4

(* A buffer is got, or waited for. *)
LEMMA Asked ==
    ASSUME NEW place, Placed(place), NEW a \in Actors, ~Asks(place[a]), ~Gets(place[a]),
           NEW x, IsPlace(x), Asks(x), NEW new, Moves(place, a, x, new),
           NEW sem, Holds(sem, AskIn(place)), sem.count <= 0
    PROVE  /\ Holds(WaitOn(sem, a), AskIn(new)) /\ GetIn(new) = GetIn(place)
           /\ Tokens(WaitOn(sem, a)) = Tokens(sem) /\ UnsentIn(new) = UnsentIn(place)
<1>1. ~Gets(x) BY DEF Asks, Gets
<1>2. AskIn(new) = AskIn(place) \cup {a} /\ GetIn(new) = GetIn(place) \ {a} BY <1>1, MovedAsks
<1>3. a \notin AskIn(place) /\ a \notin GetIn(place) BY DEF AskIn, GetIn
<1>4. Holds(WaitOn(sem, a), AskIn(place) \cup {a}) /\ Tokens(WaitOn(sem, a)) = Tokens(sem)
  BY <1>3, WaitOnHolds
<1>5. GetIn(new) = GetIn(place) BY <1>2, <1>3
<1>6. UnsentIn(new) = UnsentIn(place)
  <2>1. new[a] = x /\ \A b \in Actors \ {a} : new[b] = place[b] BY Moved
  <2>2. ~Unsent(x) /\ ~Unsent(place[a]) BY DEF Asks, Gets, Unsent
  <2> QED BY <2>1, <2>2 DEF UnsentIn
<1> QED BY <1>2, <1>4, <1>5, <1>6

LEMMA Got ==
    ASSUME NEW place, Placed(place), NEW a \in Actors, ~Asks(place[a]), ~Gets(place[a]),
           NEW x, IsPlace(x), ~Asks(x), Gets(x), ~Unsent(x), NEW new, Moves(place, a, x, new),
           NEW sem, Holds(sem, AskIn(place)), sem.count > 0, IsFiniteSet(GetIn(place))
    PROVE  /\ Holds(Take(sem), AskIn(new)) /\ IsFiniteSet(GetIn(new))
           /\ Tokens(Take(sem)) + Cardinality(GetIn(new)) = Tokens(sem) + Cardinality(GetIn(place))
           /\ UnsentIn(new) = UnsentIn(place)
<1>1. AskIn(new) = AskIn(place) \ {a} /\ GetIn(new) = GetIn(place) \cup {a} BY MovedAsks
<1>2. a \notin AskIn(place) /\ a \notin GetIn(place) BY DEF AskIn, GetIn
<1>3. AskIn(new) = AskIn(place) BY <1>1, <1>2
<1>4. /\ Holds(Take(sem), AskIn(place)) /\ Tokens(Take(sem)) = Tokens(sem) - 1
      /\ Tokens(sem) \in Nat
  BY TakeHolds
<1>5. IsFiniteSet(GetIn(new)) /\ Cardinality(GetIn(new)) = Cardinality(GetIn(place)) + 1
  BY <1>1, <1>2, FS_AddElement
<1>6. Cardinality(GetIn(place)) \in Nat BY FS_CardinalityType
<1>7. Tokens(Take(sem)) + Cardinality(GetIn(new)) = Tokens(sem) + Cardinality(GetIn(place))
  BY <1>4, <1>5, <1>6
<1>8. UnsentIn(new) = UnsentIn(place)
  <2>1. new[a] = x /\ \A b \in Actors \ {a} : new[b] = place[b] BY Moved
  <2>2. ~Unsent(place[a]) BY DEF Gets, Unsent
  <2> QED BY <2>1, <2>2 DEF UnsentIn
<1> QED BY <1>3, <1>4, <1>5, <1>7, <1>8

(* At most icmp_out() is woken. *)
OutWoken(place, new) ==
    /\ \A a \in Actors \ {"icmp_out"} : new[a] = place[a]
    /\ new["icmp_out"].call = "none"
    /\ \/ new["icmp_out"] = place["icmp_out"]
       \/ place["icmp_out"].at = "wait" /\ new["icmp_out"].at = "woken"

(* icmp_send() adds a packet to those in icoutq, and wakes icmp_out(). *)
LEMMA QueuedOut ==
    ASSUME NEW place, Placed(place), NEW sem,
           Holds(sem, {a \in {"icmp_out"} : place[a].at = "wait"}),
           place["icmp_out"].call = "none",
           NEW new, new = Wake(place, Released(sem, 1))
    PROVE  /\ Placed(new)
           /\ Holds(SignalnOn(sem, 1), {a \in {"icmp_out"} : new[a].at = "wait"})
           /\ Tokens(SignalnOn(sem, 1)) + (IF new["icmp_out"].at = "woken" THEN 1 ELSE 0)
                  = Tokens(sem) + (IF place["icmp_out"].at = "woken" THEN 1 ELSE 0) + 1
           /\ AskIn(new) = AskIn(place) /\ GetIn(new) = GetIn(place)
           /\ UnsentIn(new) = UnsentIn(place)
           /\ OutWoken(place, new)
<1> DEFINE R == Released(sem, 1)
           W == {a \in {"icmp_out"} : place[a].at = "wait"}
<1>0. 1 \in Nat OBVIOUS
<1>1. /\ R \subseteq W /\ IsFiniteSet(R) /\ Cardinality(R) \in Nat
      /\ Holds(SignalnOn(sem, 1), W \ R)
      /\ Tokens(SignalnOn(sem, 1)) + Cardinality(R) = Tokens(sem) + 1
      /\ Tokens(SignalnOn(sem, 1)) \in Nat /\ Tokens(sem) \in Nat
  BY <1>0, SignalnHolds
<1>2. /\ Placed(new)
      /\ \A a \in Actors : new[a].call = place[a].call /\ new[a].ep = place[a].ep
      /\ \A a \in Actors \ R : new[a] = place[a]
      /\ \A a \in Actors \cap R : new[a].at = "woken"
  BY Woken
<1>3. "icmp_out" \in Actors BY Constants
<1> HIDE DEF R
<1>4. R = {} \/ (R = {"icmp_out"} /\ place["icmp_out"].at = "wait") BY <1>1
<1>5. \A a \in Actors \ {"icmp_out"} : new[a] = place[a] BY <1>2, <1>4
<1>6. new["icmp_out"].call = "none" BY <1>2, <1>3
<1>7. AskIn(new) = AskIn(place) /\ GetIn(new) = GetIn(place) /\ UnsentIn(new) = UnsentIn(place)
  <2>1. \A a \in Actors : /\ (Asks(new[a]) <=> Asks(place[a]))
                           /\ (Gets(new[a]) <=> Gets(place[a]))
                           /\ (Unsent(new[a]) <=> Unsent(place[a]))
    BY <1>5, <1>6 DEF Asks, Gets, Unsent
  <2> QED BY <2>1 DEF AskIn, GetIn, UnsentIn
<1>8. {a \in {"icmp_out"} : new[a].at = "wait"} = W \ R
  <2>1. CASE R = {} BY <2>1, <1>2, <1>3
  <2>2. CASE R # {} BY <2>2, <1>2, <1>3, <1>4
  <2> QED BY <2>1, <2>2
<1>9. CASE R = {}
  <2>1. Cardinality(R) = 0 BY <1>9, FS_EmptySet
  <2>2. new["icmp_out"] = place["icmp_out"] BY <1>9, <1>2, <1>3
  <2>3. Tokens(SignalnOn(sem, 1)) = Tokens(sem) + 1 BY <1>1, <2>1
  <2>4. Tokens(SignalnOn(sem, 1)) + (IF new["icmp_out"].at = "woken" THEN 1 ELSE 0)
            = Tokens(sem) + (IF place["icmp_out"].at = "woken" THEN 1 ELSE 0) + 1
    BY <1>1, <2>2, <2>3
  <2>5. OutWoken(place, new) BY <1>5, <1>6, <2>2 DEF OutWoken
  <2> QED BY <1>1, <1>2, <1>7, <1>8, <2>4, <2>5
<1>10. CASE R # {}
  <2>1. Cardinality(R) = 1 BY <1>10, <1>4, FS_Singleton
  <2>2. place["icmp_out"].at = "wait" /\ new["icmp_out"].at = "woken" BY <1>10, <1>2, <1>3, <1>4
  <2>3. Tokens(SignalnOn(sem, 1)) = Tokens(sem) BY <1>1, <2>1
  <2>4. Tokens(SignalnOn(sem, 1)) + (IF new["icmp_out"].at = "woken" THEN 1 ELSE 0)
            = Tokens(sem) + (IF place["icmp_out"].at = "woken" THEN 1 ELSE 0) + 1
    BY <1>1, <2>2, <2>3
  <2>5. OutWoken(place, new) BY <1>5, <1>6, <2>2 DEF OutWoken
  <2> QED BY <1>1, <1>2, <1>7, <1>8, <2>4, <2>5
<1> QED BY <1>9, <1>10
----------------------------------------------------------------------------
(***************************************************************************)
(* The packets in the rings are counted.                                   *)
(***************************************************************************)
Rings(f) == UNION {{ep} \X (1 .. f[ep]) : ep \in Endpoints}
Counts == [ep \in Endpoints |-> Entry(ep).count]
MostPackets == UDP_QSIZ + ICMP_QSIZ + 1

LEMMA SomePlaces ==
    ASSUME NEW n \in Nat, NEW x
    PROVE  IsFiniteSet({x} \X (1 .. n)) /\ Cardinality({x} \X (1 .. n)) = n
<1>1. IsFiniteSet({x}) /\ Cardinality({x}) = 1 BY FS_Singleton
<1>2. IsFiniteSet(1 .. n) /\ Cardinality(1 .. n) = n
  <2>1. 1 \in Int /\ n \in Int /\ (IF 1 > n THEN 0 ELSE n - 1 + 1) = n OBVIOUS
  <2> QED BY <2>1, FS_Interval
<1>3. IsFiniteSet({x} \X (1 .. n))
      /\ Cardinality({x} \X (1 .. n)) = Cardinality({x}) * Cardinality(1 .. n)
  BY <1>1, <1>2, FS_Product
<1> QED BY <1>1, <1>2, <1>3

(* Those of the places of a ring that have a buffer. *)
Marked(q) == {i \in DOMAIN q : q[i]}

LEMMA MarkedFinite ==
    ASSUME NEW n \in Nat, NEW q \in [0 .. n - 1 -> BOOLEAN]
    PROVE  IsFiniteSet(Marked(q)) /\ Cardinality(Marked(q)) \in Nat /\ Cardinality(Marked(q)) <= n
<1>1. IsFiniteSet(0 .. n - 1) /\ Cardinality(0 .. n - 1) = n
  <2>1. 0 \in Int /\ n - 1 \in Int /\ (IF 0 > n - 1 THEN 0 ELSE n - 1 - 0 + 1) = n OBVIOUS
  <2> QED BY <2>1, FS_Interval
<1>2. Marked(q) \in SUBSET (0 .. n - 1) BY DEF Marked
<1> QED BY <1>1, <1>2, FS_Subset, FS_CardinalityType

LEMMA OneMarked ==
    ASSUME NEW n \in Nat, NEW q \in [0 .. n - 1 -> BOOLEAN], NEW r \in [0 .. n - 1 -> BOOLEAN],
           NEW i \in 0 .. n - 1, ~q[i], \A j \in 0 .. n - 1 : r[j] <=> j = i \/ q[j]
    PROVE  Cardinality(Marked(r)) = Cardinality(Marked(q)) + 1
<1>1. Marked(r) = Marked(q) \cup {i} /\ i \notin Marked(q) BY DEF Marked
<1> QED BY <1>1, MarkedFinite, FS_AddElement

LEMMA NoneMarked ==
    ASSUME NEW n \in Nat, NEW q \in [0 .. n - 1 -> BOOLEAN], \A j \in 0 .. n - 1 : ~q[j]
    PROVE  Cardinality(Marked(q)) = 0
<1>1. Marked(q) = {} BY DEF Marked
<1> QED BY <1>1, FS_EmptySet

LEMMA RingFilled ==
    ASSUME NEW proto \in Protos, NEW e, IsEntry(e, proto)
    PROVE  /\ QSize(proto) \in Nat /\ e.queue \in [0 .. QSize(proto) - 1 -> BOOLEAN]
           /\ Filled(e) = Marked(e.queue)
           /\ Cardinality(Filled(e)) \in Nat /\ Cardinality(Filled(e)) <= QSize(proto)
<1>1. QSize(proto) \in Nat /\ e.queue \in [0 .. QSize(proto) - 1 -> BOOLEAN]
  BY OneProto DEF IsEntry
<1>2. Filled(e) = Marked(e.queue) BY DEF Filled, Marked
<1> QED BY <1>1, <1>2, MarkedFinite

(* A bound for the packets that are in some of the places. *)
Places == ({"udp"} \X Slots("udp")) \X (1 .. UDP_QSIZ)
          \cup ({"icmp"} \X Slots("icmp")) \X (1 .. ICMP_QSIZ)

LEMMA OneProtoPlaces ==
    ASSUME NEW proto \in Protos, NEW n \in Nat
    PROVE  /\ IsFiniteSet(({proto} \X Slots(proto)) \X (1 .. n))
           /\ Cardinality(({proto} \X Slots(proto)) \X (1 .. n)) = Cardinality(Slots(proto)) * n
<1> DEFINE E == {proto} \X Slots(proto)
<1>1. PICK m \in Nat : Slots(proto) = 1 .. m /\ m = Cardinality(Slots(proto))
  <2>1. PICK m \in Nat : Slots(proto) = 1 .. m BY Constants DEF Slots
  <2>2. 1 \in Int /\ m \in Int /\ (IF 1 > m THEN 0 ELSE m - 1 + 1) = m OBVIOUS
  <2>3. Cardinality(1 .. m) = m BY <2>2, FS_Interval
  <2> QED BY <2>1, <2>3
<1>2. IsFiniteSet(E) /\ Cardinality(E) = m BY <1>1, SomePlaces
<1>3. IsFiniteSet(1 .. n) /\ Cardinality(1 .. n) = n
  <2>1. 1 \in Int /\ n \in Int /\ (IF 1 > n THEN 0 ELSE n - 1 + 1) = n OBVIOUS
  <2> QED BY <2>1, FS_Interval
<1> HIDE DEF E
<1>4. IsFiniteSet(E \X (1 .. n)) /\ Cardinality(E \X (1 .. n)) = Cardinality(E) * Cardinality(1 .. n)
  BY <1>2, <1>3, FS_Product
<1> QED BY <1>1, <1>2, <1>3, <1>4 DEF E

LEMMA PlacesCounted ==
    /\ IsFiniteSet(Places) /\ Cardinality(Places) \in Nat
    /\ Cardinality(Places) <= UDP_SLOTS * UDP_QSIZ + ICMP_SLOTS * ICMP_QSIZ
<1> DEFINE U == ({"udp"} \X Slots("udp")) \X (1 .. UDP_QSIZ)
           I == ({"icmp"} \X Slots("icmp")) \X (1 .. ICMP_QSIZ)
<1>1. UDP_QSIZ \in Nat /\ ICMP_QSIZ \in Nat /\ UDP_SLOTS \in Nat /\ ICMP_SLOTS \in Nat
  BY Constants
<1>2. Cardinality(Slots("udp")) = UDP_SLOTS /\ Cardinality(Slots("icmp")) = ICMP_SLOTS
  <2>1. Cardinality(1 .. UDP_SLOTS) = UDP_SLOTS
    <3>1. 1 \in Int /\ UDP_SLOTS \in Int /\ ~(1 > UDP_SLOTS) /\ UDP_SLOTS - 1 + 1 = UDP_SLOTS
      BY Constants
    <3> QED BY <3>1, FS_Interval
  <2>2. Cardinality(1 .. ICMP_SLOTS) = ICMP_SLOTS
    <3>1. 1 \in Int /\ ICMP_SLOTS \in Int /\ ~(1 > ICMP_SLOTS) /\ ICMP_SLOTS - 1 + 1 = ICMP_SLOTS
      BY Constants
    <3> QED BY <3>1, FS_Interval
  <2> QED BY <2>1, <2>2 DEF Slots
<1>3. IsFiniteSet(U) /\ Cardinality(U) = UDP_SLOTS * UDP_QSIZ
  <2>1. "udp" \in Protos BY DEF Protos
  <2> QED BY <2>1, <1>1, <1>2, OneProtoPlaces
<1>4. IsFiniteSet(I) /\ Cardinality(I) = ICMP_SLOTS * ICMP_QSIZ
  <2>1. "icmp" \in Protos BY DEF Protos
  <2> QED BY <2>1, <1>1, <1>2, OneProtoPlaces
<1>5. U \cap I = {} OBVIOUS
<1>6. Places = U \cup I BY DEF Places
<1> HIDE DEF U, I
<1>7. IsFiniteSet(Places) /\ Cardinality(Places) = Cardinality(U) + Cardinality(I)
      /\ Cardinality(U) \in Nat /\ Cardinality(I) \in Nat
  BY <1>3, <1>4, <1>5, <1>6, CardinalityOfBoth
<1>8. Cardinality(Places) \in Nat BY <1>7
<1>9. Cardinality(Places) = UDP_SLOTS * UDP_QSIZ + ICMP_SLOTS * ICMP_QSIZ BY <1>3, <1>4, <1>7
<1> QED BY <1>7, <1>8, <1>9

LEMMA RingsFinite ==
    ASSUME NEW f, \A ep \in Endpoints : f[ep] \in 0 .. MostPackets
    PROVE  IsFiniteSet(Rings(f)) /\ Cardinality(Rings(f)) \in Nat
<1> DEFINE U == ({"udp"} \X Slots("udp")) \X (1 .. MostPackets)
           I == ({"icmp"} \X Slots("icmp")) \X (1 .. MostPackets)
<1>1. MostPackets \in Nat BY Constants DEF MostPackets
<1>2. IsFiniteSet(U) /\ IsFiniteSet(I)
  <2>1. "udp" \in Protos /\ "icmp" \in Protos BY DEF Protos
  <2> QED BY <2>1, <1>1, OneProtoPlaces
<1>3. Rings(f) \subseteq U \cup I
  <2> SUFFICES ASSUME NEW ep \in Endpoints, NEW x \in {ep} \X (1 .. f[ep]) PROVE x \in U \cup I
    BY DEF Rings
  <2>1. x = <<ep, x[2]>> /\ x[2] \in 1 .. MostPackets BY <1>1
  <2>2. ep \in {"udp"} \X Slots("udp") \/ ep \in {"icmp"} \X Slots("icmp") BY DEF Endpoints, Protos
  <2> QED BY <2>1, <2>2
<1> HIDE DEF U, I
<1>4. IsFiniteSet(U \cup I) BY <1>2, FS_Union
<1> QED BY <1>3, <1>4, FS_Subset, FS_CardinalityType

(* One entry has more packets, or fewer. *)
LEMMA OneRing ==
    ASSUME NEW f, \A d \in Endpoints : f[d] \in 0 .. MostPackets,
           NEW g, \A d \in Endpoints : g[d] \in 0 .. MostPackets,
           NEW ep \in Endpoints, \A d \in Endpoints \ {ep} : g[d] = f[d]
    PROVE  Cardinality(Rings(g)) + f[ep] = Cardinality(Rings(f)) + g[ep]
<1> DEFINE A == UNION {{d} \X (1 .. f[d]) : d \in Endpoints \ {ep}}
           B == UNION {{d} \X (1 .. g[d]) : d \in Endpoints \ {ep}}
           F == {ep} \X (1 .. f[ep])
           G == {ep} \X (1 .. g[ep])
<1>1. f[ep] \in Nat /\ g[ep] \in Nat OBVIOUS
<1>2. IsFiniteSet(F) /\ Cardinality(F) = f[ep] BY <1>1, SomePlaces
<1>3. IsFiniteSet(G) /\ Cardinality(G) = g[ep] BY <1>1, SomePlaces
<1>4. A = B
  <2>1. {{d} \X (1 .. f[d]) : d \in Endpoints \ {ep}} = {{d} \X (1 .. g[d]) : d \in Endpoints \ {ep}}
    OBVIOUS
  <2> QED BY <2>1
<1>5. Rings(f) = A \cup F BY DEF Rings
<1>6. Rings(g) = B \cup G BY DEF Rings
<1>7. A \cap F = {} /\ A \cap G = {}
  <2>1. \A x \in A : x[1] # ep OBVIOUS
  <2>2. \A x \in F : x[1] = ep OBVIOUS
  <2>3. \A x \in G : x[1] = ep OBVIOUS
  <2> QED BY <2>1, <2>2, <2>3
<1> HIDE DEF A, B, F, G
<1>8. IsFiniteSet(A)
  <2>1. IsFiniteSet(Rings(f)) BY RingsFinite
  <2>2. A \in SUBSET Rings(f) BY <1>5
  <2> QED BY <2>1, <2>2, FS_Subset
<1>9. Cardinality(Rings(f)) = Cardinality(A) + Cardinality(F) /\ Cardinality(A) \in Nat
  BY <1>2, <1>5, <1>7, <1>8, CardinalityOfBoth
<1>10. Cardinality(Rings(g)) = Cardinality(A) + Cardinality(G)
  BY <1>3, <1>4, <1>6, <1>7, <1>8, CardinalityOfBoth
<1> QED BY <1>1, <1>2, <1>3, <1>9, <1>10

LEMMA RingsNow == InRings = Rings(Counts) /\ \A ep \in Endpoints : Counts[ep] = Entry(ep).count
<1>1. \A ep \in Endpoints : Counts[ep] = Entry(ep).count BY DEF Counts
<1>2. {{ep} \X (1 .. Entry(ep).count) : ep \in Endpoints} = {{ep} \X (1 .. Counts[ep]) : ep \in Endpoints}
  BY <1>1
<1> QED BY <1>1, <1>2 DEF InRings, Rings

LEMMA CountsBounded ==
    ASSUME IsTable(tab)
    PROVE  \A ep \in Endpoints : Counts[ep] \in 0 .. MostPackets
<1> SUFFICES ASSUME NEW ep \in Endpoints PROVE Counts[ep] \in 0 .. MostPackets OBVIOUS
<1>1. ep[1] \in Protos /\ ep[2] \in Slots(ep[1]) BY OneEndpoint
<1>2. Entry(ep).count \in 0 .. QSize(ep[1]) + 1 BY <1>1 DEF IsTable, Entry, IsEntry
<1>3. QSize(ep[1]) \in Nat /\ QSize(ep[1]) + 1 <= MostPackets /\ MostPackets \in Nat
  BY <1>1, Constants DEF QSize, MostPackets
<1>4. Entry(ep).count \in 0 .. MostPackets BY <1>2, <1>3
<1> QED BY <1>4, RingsNow

LEMMA RingChanged ==
    ASSUME Types, IsTable(tab'), NEW ep \in Endpoints,
           \A d \in Endpoints \ {ep} : Entry(d)' = Entry(d),
           NEW m, Entry(ep).count = m, NEW k, Entry(ep)'.count = k
    PROVE  /\ Cardinality(InRings') + m = Cardinality(InRings) + k
           /\ Cardinality(InRings) \in Nat /\ Cardinality(InRings') \in Nat
           /\ m \in Nat /\ k \in Nat
<1>1. \A d \in Endpoints : Counts[d] \in 0 .. MostPackets BY CountsBounded DEF Types
<1>2. \A d \in Endpoints : Counts'[d] \in 0 .. MostPackets
  <2> SUFFICES ASSUME NEW d \in Endpoints PROVE Counts'[d] \in 0 .. MostPackets OBVIOUS
  <2>1. d[1] \in Protos /\ d[2] \in Slots(d[1]) BY OneEndpoint
  <2>2. Entry(d)'.count \in 0 .. QSize(d[1]) + 1 BY <2>1 DEF IsTable, Entry, IsEntry
  <2>3. QSize(d[1]) \in Nat /\ QSize(d[1]) + 1 <= MostPackets /\ MostPackets \in Nat
    BY <2>1, Constants DEF QSize, MostPackets
  <2>4. Entry(d)'.count \in 0 .. MostPackets BY <2>2, <2>3
  <2> QED BY <2>4 DEF Counts
<1>3. \A d \in Endpoints : Counts[d] = Entry(d).count /\ Counts'[d] = Entry(d)'.count
  BY DEF Counts
<1>4. InRings = Rings(Counts) BY RingsNow
<1>5. InRings' = Rings(Counts')
  <2>1. {{d} \X (1 .. Entry(d)'.count) : d \in Endpoints} = {{d} \X (1 .. Counts'[d]) : d \in Endpoints}
    BY <1>3
  <2> QED BY <2>1 DEF InRings, Rings
<1>6. PICK f, g : f = Counts /\ g = Counts' OBVIOUS
<1>7. /\ \A d \in Endpoints : f[d] \in 0 .. MostPackets
      /\ \A d \in Endpoints : g[d] \in 0 .. MostPackets
      /\ \A d \in Endpoints \ {ep} : g[d] = f[d]
      /\ f[ep] = m /\ g[ep] = k
  BY <1>1, <1>2, <1>3, <1>6
<1>8. Cardinality(Rings(g)) + f[ep] = Cardinality(Rings(f)) + g[ep] BY ONLY <1>7, ep \in Endpoints, OneRing
<1>9. Cardinality(Rings(f)) \in Nat /\ Cardinality(Rings(g)) \in Nat
  BY ONLY <1>7, RingsFinite
<1>10. m \in Nat /\ k \in Nat
  <2>1. MostPackets \in Nat BY Constants DEF MostPackets
  <2> QED BY <1>7, <2>1
<1> QED BY <1>4, <1>5, <1>6, <1>7, <1>8, <1>9, <1>10

LEMMA RingsSame ==
    ASSUME Types, UNCHANGED tab
    PROVE  Cardinality(InRings') = Cardinality(InRings) /\ Cardinality(InRings) \in Nat
<1>1. InRings' = InRings BY DEF InRings, Entry
<1>2. \A d \in Endpoints : Counts[d] \in 0 .. MostPackets BY CountsBounded DEF Types
<1>3. PICK f : f = Counts OBVIOUS
<1>4. Cardinality(Rings(f)) \in Nat BY <1>2, <1>3, RingsFinite
<1> QED BY <1>1, <1>3, <1>4, RingsNow
----------------------------------------------------------------------------
(***************************************************************************)
(* What a step leaves as it was.                                           *)
(***************************************************************************)
(* An actor that does not take the step stays where it is, or is woken.    *)
Stays(a) ==
    \/ pc'[a] = pc[a]
    \/ pc[a].at = "wait" /\ pc'[a].at = "woken" /\ pc'[a].call = pc[a].call /\ pc'[a].ep = pc[a].ep

LEMMA TypesStay ==
    ASSUME Types, NEW S,
           \A a \in Actors \ S : Stays(a),
           \A p \in Procs \ S : hasmsg'[p] = hasmsg[p] /\ mine'[p] = mine[p],
           \A p \in Procs \cap S : ProcAt(p)' /\ MessageFor(p)',
           "netin" \in S => NetinAt', "icmp_out" \in S => IcmpOutAt',
           fault' \in Faults \cup {"none"}, IsTable(tab'), Placed(pc'), icoutq' = icoutq \/ OutTyped',
           hasmsg' \in [Procs -> BOOLEAN], mine' \in [Procs -> SUBSET Endpoints], leaked' \in Nat
    PROVE  Types'
<1>1. ASSUME NEW p \in Procs PROVE ProcAt(p)' /\ MessageFor(p)'
  <2>1. CASE p \in S BY <2>1
  <2>2. CASE p \notin S
    <3>1. p \in Actors BY DEF Actors
    <3>2. ProcAt(p) /\ MessageFor(p) BY DEF Types
    <3>3. Stays(p) /\ hasmsg'[p] = hasmsg[p] /\ mine'[p] = mine[p] BY <2>2, <3>1
    <3>4. ProcAt(p)' BY <3>2, <3>3 DEF ProcAt, Stays
    <3>5. MessageFor(p)' BY <3>2, <3>3 DEF MessageFor, Stays
    <3> QED BY <3>4, <3>5
  <2> QED BY <2>1, <2>2
<1>2. NetinAt'
  <2>1. CASE "netin" \notin S
    <3>1. NetinAt /\ Stays("netin") BY <2>1, Constants DEF Types
    <3> QED BY <3>1 DEF NetinAt, Stays
  <2> QED BY <2>1
<1>3. IcmpOutAt'
  <2>1. CASE "icmp_out" \notin S
    <3>1. IcmpOutAt /\ Stays("icmp_out") BY <2>1, Constants DEF Types
    <3> QED BY <3>1 DEF IcmpOutAt, Stays
  <2> QED BY <2>1
<1>4. IsTable(tab)' /\ Placed(pc)'
  <2>1. IsTable(tab)' BY DEF IsTable
  <2>2. Placed(pc)' BY DEF Placed
  <2> QED BY <2>1, <2>2
<1>5. OutTyped'
  <2>1. OutTyped BY DEF Types
  <2>2. CASE icoutq' = icoutq BY <2>1, <2>2 DEF OutTyped
  <2> QED BY <2>2
<1> QED BY <1>1, <1>2, <1>3, <1>4, <1>5 DEF Types

(* No endpoint changes hands. *)
LEMMA OwnersStay ==
    ASSUME Owned,
           \A p \in Procs : mine'[p] = mine[p],
           \A p \in Procs : (pc'[p].at \in Filling <=> pc[p].at \in Filling),
           \A p \in Procs : pc[p].at \in Filling => pc'[p].ep = pc[p].ep,
           \A ep \in Endpoints : Entry(ep)'.state = "free" <=> Entry(ep).state = "free"
    PROVE  Owned'
<1>1. \A ep \in Endpoints, p \in Procs : Owns(p, ep)' <=> Owns(p, ep) BY DEF Owns, Fills
<1>2. \A ep \in Endpoints, p, q \in Procs : Owns(p, ep) /\ Owns(q, ep) => p = q BY DEF Owned
<1>3. \A ep \in Endpoints : Entry(ep).state # "free" <=> \E p \in Procs : Owns(p, ep) BY DEF Owned
<1>4. \A p \in Procs : pc[p].at \in Filling => pc[p].ep \notin mine[p] BY DEF Owned
<1>5. (\A ep \in Endpoints, p, q \in Procs : Owns(p, ep) /\ Owns(q, ep) => p = q)' BY <1>1, <1>2
<1>6. (\A ep \in Endpoints : Entry(ep).state # "free" <=> \E p \in Procs : Owns(p, ep))'
  BY <1>1, <1>3
<1>7. (\A p \in Procs : pc[p].at \in Filling => pc[p].ep \notin mine[p])' BY <1>4
<1> QED BY <1>5, <1>6, <1>7 DEF Owned

Told(p) ==
    pc[p].at = "recv" =>
        /\ Entry(pc[p].ep).state = "recv" /\ Entry(pc[p].ep).pid = p
        /\ Entry(pc[p].ep).count > 0 => pc["netin"].call = "next" /\ pc["netin"].ep = pc[p].ep

(* No process begins or ends to read, but for those that are woken, and no *)
(* packet comes for one that waits.                                        *)
LEMMA ReadersStay ==
    ASSUME Sane, Types, \A ep \in Endpoints : PidReads(ep), ReaderTold,
           \A p \in Procs :
               \/ pc'[p] = pc[p] \/ (pc[p].call # "recv" /\ pc'[p].call # "recv")
               \/ pc'[p].at = "woken" /\ pc'[p].call = pc[p].call /\ pc'[p].ep = pc[p].ep,
           \A p \in Procs : ProcAt(p)',
           \A ep \in Endpoints : Entry(ep)'.state = "recv" <=> Entry(ep).state = "recv",
           \A ep \in Endpoints : Entry(ep).state = "recv" =>
               Entry(ep)'.pid = Entry(ep).pid /\ (Entry(ep)'.count > 0 => Entry(ep).count > 0),
           pc["netin"].call = "next" =>
               pc'["netin"].call = "next" /\ pc'["netin"].ep = pc["netin"].ep
    PROVE  (\A ep \in Endpoints : PidReads(ep))' /\ ReaderTold'
<1>1. ASSUME NEW ep \in Endpoints PROVE PidReads(ep)'
  <2> SUFFICES ASSUME Entry(ep)'.state = "recv" PROVE PidReads(ep)' BY DEF PidReads
  <2>1. Entry(ep).state = "recv" /\ Entry(ep)'.pid = Entry(ep).pid OBVIOUS
  <2>2. PidReads(ep) OBVIOUS
  <2>3. PICK p \in Procs : p = Entry(ep).pid /\ Reads(p, ep) BY <2>1, <2>2 DEF PidReads
  <2>4. pc'[p] = pc[p] \/ (pc'[p].at = "woken" /\ pc'[p].call = pc[p].call /\ pc'[p].ep = pc[p].ep)
    BY <2>3 DEF Reads
  <2>5. Reads(p, ep)' BY <2>3, <2>4 DEF Reads
  <2>6. Entry(ep)'.pid = p BY <2>1, <2>3
  <2> QED BY <2>3, <2>5, <2>6 DEF PidReads, Reads
<1>2. (\A ep \in Endpoints : PidReads(ep))' BY <1>1
<1>3. ASSUME NEW p \in Procs PROVE Told(p)'
  <2> SUFFICES ASSUME pc'[p].at = "recv" PROVE Told(p)' BY DEF Told
  <2>1. pc'[p].call = "recv" BY DEF ProcAt
  <2>2. pc'[p] = pc[p] BY <2>1
  <2>3. pc[p].at = "recv" BY <2>2
  <2>4. pc[p].ep \in Endpoints BY <2>3 DEF Types, ProcAt
  <2>5. PICK ep \in Endpoints : ep = pc[p].ep BY <2>4
  <2>6. /\ Entry(ep).state = "recv" /\ Entry(ep).pid = p
        /\ Entry(ep).count > 0 => pc["netin"].call = "next" /\ pc["netin"].ep = ep
    BY <2>3, <2>5 DEF ReaderTold
  <2>7. /\ Entry(ep)'.state = "recv" /\ Entry(ep)'.pid = p
        /\ Entry(ep)'.count > 0 => pc'["netin"].call = "next" /\ pc'["netin"].ep = ep
    BY <2>6
  <2>8. pc'[p].ep = ep BY <2>2, <2>5
  <2> QED BY <2>7, <2>8 DEF Told, Entry
<1>4. ReaderTold' BY <1>3 DEF ReaderTold, Told
<1> QED BY <1>2, <1>4

(* The sum of the buffers, and the parts of it. *)
LEMMA SumNow ==
    ASSUME Types, Sane, Sems, Summed
    PROVE  /\ Tokens(pool) + Cardinality(GetIn(pc)) + Cardinality(InRings) + InOutq + Sending + Spare
                  + leaked = PoolSize
           /\ Tokens(pool) \in Nat /\ Cardinality(GetIn(pc)) \in Nat /\ Cardinality(InRings) \in Nat
           /\ Tokens(icosem) \in Nat /\ InOutq \in Nat /\ Sending \in {0, 1} /\ Spare \in {0, 1}
           /\ leaked \in Nat
<1>1. Tokens(pool) + Cardinality(GetIn(pc)) + Cardinality(InRings) + InOutq + Sending + Spare
          + leaked = PoolSize
  BY DEF Summed
<1>2. Tokens(pool) \in Nat /\ Tokens(icosem) \in Nat
  <2>1. pool.count \in Int /\ icosem.count \in Int BY DEF Sems, Holds
  <2> QED BY <2>1 DEF Tokens
<1>3. Cardinality(GetIn(pc)) \in Nat BY FS_CardinalityType DEF Sems
<1>4. Cardinality(InRings) \in Nat
  <2>1. PICK f : f = Counts OBVIOUS
  <2>2. \A d \in Endpoints : f[d] \in 0 .. MostPackets BY <2>1, CountsBounded DEF Types
  <2>3. Cardinality(Rings(f)) \in Nat BY <2>2, RingsFinite
  <2> QED BY <2>1, <2>3, RingsNow
<1>5. InOutq \in Nat BY <1>2 DEF InOutq
<1>6. leaked \in Nat BY DEF Types
<1>7. Sending \in {0, 1} /\ Spare \in {0, 1} BY DEF Sending, Spare
<1> QED BY <1>1, <1>2, <1>3, <1>4, <1>5, <1>6, <1>7

LEMMA SumThen ==
    ASSUME Tokens(pool') + Cardinality(GetIn(pc')) + Cardinality(InRings') + InOutq' + Sending' + Spare'
               + leaked' = PoolSize
    PROVE  Summed'
<1>1. GetIn(pc') = {a \in Actors : Gets(pc'[a])} BY DEF GetIn
<1>2. PoolSize' = PoolSize BY DEF PoolSize
<1> QED BY <1>1, <1>2 DEF Summed, Tokens, GetIn

(* Both semaphores are as they were. *)
LEMMA SemsStay ==
    ASSUME Sems, UNCHANGED <<pool, icosem>>, AskIn(pc') = AskIn(pc), GetIn(pc') = GetIn(pc),
           pc'["icmp_out"].at = "wait" <=> pc["icmp_out"].at = "wait"
    PROVE  Sems'
<1>1. Holds(pool, AskIn(pc)) /\ Holds(icosem, WaitsForOut) /\ IsFiniteSet(GetIn(pc)) BY DEF Sems
<1>2. WaitsForOut' = WaitsForOut BY DEF WaitsForOut
<1>3. Holds(pool', AskIn(pc')) /\ Holds(icosem', WaitsForOut') /\ IsFiniteSet(GetIn(pc'))
  BY <1>1, <1>2
<1> QED BY <1>3 DEF Sems, Holds, AskIn, GetIn

LEMMA InvThen ==
    ASSUME Types', Sane' => Sems' /\ Owned' /\ Room' /\ (\A ep \in Endpoints : PidReads(ep))'
                            /\ Summed' /\ ReaderTold'
    PROVE  NetInv'
BY DEF NetInv, Summed, ReaderTold

(* Only `at` changes. *)
LEMMA AtChanged ==
    ASSUME NEW y, IsPlace(y), NEW v, NEW x, x = [y EXCEPT !.at = v]
    PROVE  IsPlace(x) /\ x.at = v /\ x.call = y.call /\ x.ep = y.ep /\ x.key = y.key
<1>1. y = [at |-> y.at, call |-> y.call, ep |-> y.ep, key |-> y.key] BY DEF IsPlace
<1>2. x = [at |-> v, call |-> y.call, ep |-> y.ep, key |-> y.key] BY <1>1
<1> QED BY <1>2 DEF IsPlace

LEMMA IdlePlace ==
    /\ IsPlace(Idle) /\ Idle.at = "user" /\ Idle.call = "none" /\ ~Asks(Idle) /\ ~Gets(Idle)
BY DEF Idle, IsPlace, Asks, Gets
----------------------------------------------------------------------------
(***************************************************************************)
(* The steps that are about no buffer and no endpoint.                     *)
(***************************************************************************)
LEMMA Parts ==
    ASSUME NetInv, Sane
    PROVE  /\ Types /\ Sems /\ Owned /\ Room /\ Summed /\ ReaderTold
           /\ \A ep \in Endpoints : PidReads(ep)
           /\ Placed(pc) /\ NetinAt /\ IcmpOutAt
           /\ \A p \in Procs : IsPlace(pc[p]) /\ ProcAt(p) /\ MessageFor(p) /\ p \in Actors
BY DEF NetInv, Types, Placed, Actors

(* A process moves, and no buffer does. *)
LEMMA ProcMoves ==
    ASSUME NetInv, Sane, NEW p \in Procs, ~Asks(pc[p]),
           NEW x, IsPlace(x), ~Asks(x), Gets(x) <=> Gets(pc[p]), Moves(pc, p, x, pc'),
           UNCHANGED <<pool, icosem>>
    PROVE  /\ Placed(pc') /\ pc'[p] = x
           /\ \A b \in Actors \ {p} : pc'[b] = pc[b]
           /\ \A b \in Actors \ {p} : Stays(b)
           /\ pc'["netin"] = pc["netin"] /\ pc'["icmp_out"] = pc["icmp_out"]
           /\ "netin" \notin {p} /\ "icmp_out" \notin {p}
           /\ Sems'
           /\ Tokens(pool') = Tokens(pool) /\ Cardinality(GetIn(pc')) = Cardinality(GetIn(pc))
           /\ InOutq' = InOutq /\ Sending' = Sending /\ Spare' = Spare
           /\ (Gets(x) => (Unsent(x) <=> Unsent(pc[p]))) => UnsentIn(pc') = UnsentIn(pc)
<1>1. Placed(pc) /\ Sems /\ p \in Actors BY Parts
<1>2. Placed(pc') /\ pc'[p] = x /\ \A b \in Actors \ {p} : pc'[b] = pc[b] BY <1>1, Moved
<1>3. /\ AskIn(pc') = AskIn(pc) /\ GetIn(pc') = GetIn(pc)
      /\ (Gets(x) => (Unsent(x) <=> Unsent(pc[p]))) => UnsentIn(pc') = UnsentIn(pc)
  <2>1. PICK place, new : place = pc /\ new = pc' OBVIOUS
  <2>2. /\ Placed(place) /\ p \in Actors /\ ~Asks(place[p]) /\ IsPlace(x) /\ ~Asks(x)
        /\ (Gets(x) <=> Gets(place[p])) /\ Moves(place, p, x, new)
    BY <1>1, <2>1
  <2>3. /\ AskIn(new) = AskIn(place) /\ GetIn(new) = GetIn(place)
        /\ (Gets(x) => (Unsent(x) <=> Unsent(place[p]))) => UnsentIn(new) = UnsentIn(place)
    BY ONLY <2>2, MovedElsewhere
  <2> QED BY <2>1, <2>3
<1>4. pc'["netin"] = pc["netin"] /\ pc'["icmp_out"] = pc["icmp_out"]
      /\ "netin" \notin {p} /\ "icmp_out" \notin {p}
  BY <1>2, Constants
<1>5. Sems' BY <1>1, <1>3, <1>4, SemsStay
<1>6. \A b \in Actors \ {p} : Stays(b) BY <1>2 DEF Stays
<1>7. Tokens(pool') = Tokens(pool) /\ Cardinality(GetIn(pc')) = Cardinality(GetIn(pc)) BY <1>3
<1>8. InOutq' = InOutq /\ Sending' = Sending /\ Spare' = Spare
  BY <1>4 DEF InOutq, Sending, Spare, Tokens
<1> QED BY <1>2, <1>3, <1>4, <1>5, <1>6, <1>7, <1>8

(* The sum, when it is only the packets of rings that were forgotten. *)
LEMMA SumStays ==
    ASSUME NetInv, Sane, NEW m \in Nat, NEW k \in Nat, NEW l \in Nat,
           Cardinality(InRings') + m = Cardinality(InRings) + k, Cardinality(InRings') \in Nat,
           leaked' = leaked + l, k + l = m,
           Tokens(pool') = Tokens(pool), Cardinality(GetIn(pc')) = Cardinality(GetIn(pc)),
           InOutq' = InOutq, Sending' = Sending, Spare' = Spare
    PROVE  Summed'
<1>1. /\ Tokens(pool) + Cardinality(GetIn(pc)) + Cardinality(InRings) + InOutq + Sending + Spare
               + leaked = PoolSize
      /\ Tokens(pool) \in Nat /\ Cardinality(GetIn(pc)) \in Nat /\ Cardinality(InRings) \in Nat
      /\ InOutq \in Nat /\ Sending \in {0, 1} /\ Spare \in {0, 1} /\ leaked \in Nat
  BY Parts, SumNow
<1>2. Cardinality(InRings') + leaked' = Cardinality(InRings) + leaked BY <1>1
<1> QED BY <1>1, <1>2, SumThen

(* No entry changes. *)
LEMMA TableStays ==
    ASSUME NetInv, Sane, UNCHANGED <<tab, leaked>>
    PROVE  /\ IsTable(tab')
           /\ \A ep \in Endpoints : Entry(ep)' = Entry(ep)
           /\ Cardinality(InRings') + 0 = Cardinality(InRings) + 0 /\ Cardinality(InRings') \in Nat
           /\ leaked' = leaked + 0
           /\ \A ep \in Endpoints : Full(Entry(ep)')
<1>1. Types /\ Room /\ leaked \in Nat BY Parts DEF Types
<1>2. Cardinality(InRings') = Cardinality(InRings) /\ Cardinality(InRings) \in Nat BY <1>1, RingsSame
<1>3. \A ep \in Endpoints : Entry(ep)' = Entry(ep) BY DEF Entry
<1>4. IsTable(tab') BY <1>1 DEF Types
<1>5. \A ep \in Endpoints : Full(Entry(ep)') BY <1>1, <1>3 DEF Room
<1> QED BY <1>1, <1>2, <1>3, <1>4, <1>5

LEMMA RoomThen ==
    ASSUME Room, UNCHANGED icoutq, InOutq' = InOutq, UnsentIn(pc') = UnsentIn(pc),
           \A ep \in Endpoints : Full(Entry(ep)')
    PROVE  Room'
<1>1. (\A ep \in Endpoints : Full(Entry(ep)))' BY DEF Full, Filled
<1>2. OutRing'
  <2>1. OutRing BY DEF Room
  <2>2. UnsentIn(pc)' = UnsentIn(pc) BY DEF UnsentIn
  <2>3. Filled(icoutq)' = Filled(icoutq) BY DEF Filled
  <2> QED BY <2>1, <2>2, <2>3 DEF OutRing
<1> QED BY <1>1, <1>2 DEF Room

(* The same, when the places of icoutq change, or what is in them. *)
LEMMA RoomAgain ==
    ASSUME Cardinality(Filled(icoutq')) = InOutq' + Cardinality(UnsentIn(pc')),
           \A ep \in Endpoints : Full(Entry(ep)')
    PROVE  Room'
<1>1. (\A ep \in Endpoints : Full(Entry(ep)))' BY DEF Full, Filled
<1>2. OutRing' BY DEF OutRing, UnsentIn, Filled
<1> QED BY <1>1, <1>2 DEF Room

LEMMA UdpSearchStep ==
    ASSUME NetInv, NEW p \in Procs, NEW key, UdpSearch(p, key)
    PROVE  NetInv'
<1>1. PICK i \in Slots("udp") :
          pc' = [pc EXCEPT ![p] = [at |-> "claim", call |-> "register", ep |-> <<"udp", i>>, key |-> key]]
  BY DEF UdpSearch
<1>2. /\ Sane /\ pc[p] = Idle
      /\ UNCHANGED <<tab, pool, icoutq, icosem, icmpmutex, hasmsg, mine, arrived, leaked, fault>>
  BY DEF UdpSearch, AtUser, Runs
<1>3. PICK x : x = [at |-> "claim", call |-> "register", ep |-> <<"udp", i>>, key |-> key] OBVIOUS
<1>4. /\ IsPlace(x) /\ x.at = "claim" /\ x.call = "register" /\ x.ep \in Endpoints
      /\ ~Asks(x) /\ ~Gets(x)
  <2>1. <<"udp", i>> \in Endpoints BY OneProto DEF Protos
  <2> QED BY <1>3, <2>1 DEF IsPlace, Asks, Gets
<1>5. Moves(pc, p, x, pc') BY <1>1, <1>3 DEF Moves
<1>6. ~Asks(pc[p]) /\ ~Gets(pc[p]) /\ pc[p].at = "user" /\ pc[p].call = "none" BY <1>2, IdlePlace
<1>7. /\ Placed(pc') /\ pc'[p] = x /\ \A b \in Actors \ {p} : pc'[b] = pc[b] /\ Stays(b)
      /\ pc'["netin"] = pc["netin"] /\ "netin" \notin {p} /\ "icmp_out" \notin {p} /\ Sems'
      /\ Tokens(pool') = Tokens(pool) /\ Cardinality(GetIn(pc')) = Cardinality(GetIn(pc))
      /\ InOutq' = InOutq /\ Sending' = Sending /\ Spare' = Spare /\ UnsentIn(pc') = UnsentIn(pc)
  BY <1>2, <1>4, <1>5, <1>6, ProcMoves
<1>8. /\ Types /\ Sems /\ Owned /\ Room /\ ReaderTold /\ \A ep \in Endpoints : PidReads(ep)
      /\ MessageFor(p)
  BY <1>2, Parts
<1>9. /\ IsTable(tab') /\ \A ep \in Endpoints : Entry(ep)' = Entry(ep)
      /\ Cardinality(InRings') + 0 = Cardinality(InRings) + 0 /\ Cardinality(InRings') \in Nat
      /\ leaked' = leaked + 0 /\ \A ep \in Endpoints : Full(Entry(ep)')
  BY <1>2, TableStays
<1>10. Types'
  <2>1. ProcAt(p)' BY <1>4, <1>7 DEF ProcAt
  <2>2. MessageFor(p)' BY <1>2, <1>6, <1>8 DEF MessageFor
  <2>3. /\ fault' \in Faults \cup {"none"} /\ leaked' \in Nat
        /\ hasmsg' \in [Procs -> BOOLEAN] /\ mine' \in [Procs -> SUBSET Endpoints]
    BY <1>2, <1>8 DEF Types
  <2>4. \A q \in Procs \cap {p} : ProcAt(q)' /\ MessageFor(q)' BY <2>1, <2>2
  <2> QED BY <1>2, <1>7, <1>8, <1>9, <2>3, <2>4, TypesStay
<1>11. \A q \in Procs : q # p => pc'[q] = pc[q] BY <1>7 DEF Actors
<1>12. Owned' BY <1>2, <1>4, <1>6, <1>7, <1>8, <1>9, <1>11, OwnersStay
<1>13. (\A ep \in Endpoints : PidReads(ep))' /\ ReaderTold'
  <2>1. \A q \in Procs : ProcAt(q)' BY <1>10 DEF Types
  <2>2. \A q \in Procs : pc'[q] = pc[q] \/ (pc[q].call # "recv" /\ pc'[q].call # "recv")
    BY <1>4, <1>6, <1>7, <1>11
  <2> QED BY <1>2, <1>7, <1>8, <1>9, <2>1, <2>2, ReadersStay
<1>14. Room' BY <1>2, <1>7, <1>8, <1>9, RoomThen
<1>15. Summed'
  <2>1. 0 \in Nat /\ 0 + 0 = 0 OBVIOUS
  <2> QED BY <1>2, <1>7, <1>9, <2>1, SumStays
<1> QED BY <1>7, <1>10, <1>12, <1>13, <1>14, <1>15, InvThen

(* To be woken is to move to "woken". *)
LEMMA WokenMoves ==
    ASSUME NEW place, Placed(place), NEW a \in Actors, NEW x, x = [place[a] EXCEPT !.at = "woken"]
    PROVE  Moves(place, a, x, Wake(place, {a}))
<1>1. place = [b \in Actors |-> place[b]] BY DEF Placed
<1>2. Wake(place, {a}) = [b \in Actors |-> IF b = a THEN x ELSE place[b]]
  BY <1>1 DEF Wake
<1> QED BY <1>1, <1>2 DEF Moves

LEMMA TimeoutStep ==
    ASSUME NetInv, NEW p \in Procs, Timeout(p)
    PROVE  NetInv'
<1>1. /\ Sane /\ pc[p].at = "recv" /\ pc' = Wake(pc, {p})
      /\ UNCHANGED <<tab, pool, icoutq, icosem, icmpmutex, hasmsg, mine, arrived, registered, leaked, fault>>
  BY DEF Timeout, Runs
<1>2. /\ Types /\ Sems /\ Owned /\ Room /\ ReaderTold /\ \A ep \in Endpoints : PidReads(ep)
      /\ MessageFor(p) /\ ProcAt(p) /\ Placed(pc) /\ IsPlace(pc[p]) /\ p \in Actors
  BY <1>1, Parts
<1>3. PICK x : x = [pc[p] EXCEPT !.at = "woken"] OBVIOUS
<1>4. pc[p].call = "recv" /\ pc[p].ep \in mine[p] BY <1>1, <1>2 DEF ProcAt
<1>5. /\ IsPlace(x) /\ x.at = "woken" /\ x.call = "recv" /\ x.ep = pc[p].ep
      /\ ~Asks(x) /\ ~Gets(x) /\ ~Asks(pc[p]) /\ ~Gets(pc[p])
  BY <1>2, <1>3, <1>4, AtChanged DEF Asks, Gets
<1>6. Moves(pc, p, x, pc') BY <1>1, <1>2, <1>3, WokenMoves
<1>7. /\ Placed(pc') /\ pc'[p] = x /\ \A b \in Actors \ {p} : pc'[b] = pc[b] /\ Stays(b)
      /\ pc'["netin"] = pc["netin"] /\ "netin" \notin {p} /\ "icmp_out" \notin {p} /\ Sems'
      /\ Tokens(pool') = Tokens(pool) /\ Cardinality(GetIn(pc')) = Cardinality(GetIn(pc))
      /\ InOutq' = InOutq /\ Sending' = Sending /\ Spare' = Spare /\ UnsentIn(pc') = UnsentIn(pc)
  BY <1>1, <1>5, <1>6, ProcMoves
<1>9. /\ IsTable(tab') /\ \A ep \in Endpoints : Entry(ep)' = Entry(ep)
      /\ Cardinality(InRings') + 0 = Cardinality(InRings) + 0 /\ Cardinality(InRings') \in Nat
      /\ leaked' = leaked + 0 /\ \A ep \in Endpoints : Full(Entry(ep)')
  BY <1>1, TableStays
<1>10. Types'
  <2>1. ProcAt(p)' BY <1>1, <1>4, <1>5, <1>7 DEF ProcAt
  <2>2. MessageFor(p)' BY <1>5, <1>7 DEF MessageFor
  <2>3. /\ fault' \in Faults \cup {"none"} /\ leaked' \in Nat
        /\ hasmsg' \in [Procs -> BOOLEAN] /\ mine' \in [Procs -> SUBSET Endpoints]
    BY <1>1, <1>2 DEF Types
  <2>4. \A q \in Procs \cap {p} : ProcAt(q)' /\ MessageFor(q)' BY <2>1, <2>2
  <2> QED BY <1>1, <1>2, <1>7, <1>9, <2>3, <2>4, TypesStay
<1>11. \A q \in Procs : q # p => pc'[q] = pc[q] BY <1>7 DEF Actors
<1>12. Owned'
  <2>1. /\ \A q \in Procs : mine'[q] = mine[q]
        /\ \A q \in Procs : (pc'[q].at \in Filling <=> pc[q].at \in Filling)
        /\ \A q \in Procs : pc[q].at \in Filling => pc'[q].ep = pc[q].ep
    BY <1>1, <1>5, <1>7, <1>11
  <2> QED BY <1>2, <1>9, <2>1, OwnersStay
<1>13. (\A ep \in Endpoints : PidReads(ep))' /\ ReaderTold'
  <2>1. \A q \in Procs : ProcAt(q)' BY <1>10 DEF Types
  <2>2. \A q \in Procs :
            \/ pc'[q] = pc[q]
            \/ pc'[q].at = "woken" /\ pc'[q].call = pc[q].call /\ pc'[q].ep = pc[q].ep
    BY <1>4, <1>5, <1>7, <1>11
  <2> QED BY <1>1, <1>2, <1>7, <1>9, <2>1, <2>2, ReadersStay
<1>14. Room' BY <1>1, <1>2, <1>7, <1>9, RoomThen
<1>15. Summed'
  <2>1. 0 \in Nat /\ 0 + 0 = 0 OBVIOUS
  <2> QED BY <1>1, <1>7, <1>9, <2>1, SumStays
<1> QED BY <1>7, <1>10, <1>12, <1>13, <1>14, <1>15, InvThen
----------------------------------------------------------------------------
(***************************************************************************)
(* An endpoint gets an owner.                                              *)
(***************************************************************************)
LEMMA StateChanged ==
    ASSUME NEW proto, NEW e, IsEntry(e, proto), NEW v \in {"free", "used", "recv"},
           NEW f, f = [e EXCEPT !.state = v]
    PROVE  /\ IsEntry(f, proto) /\ f.state = v /\ f.count = e.count /\ f.pid = e.pid
           /\ f.key = e.key /\ f.queue = e.queue /\ f.head = e.head /\ f.tail = e.tail
<1>1. e = [state |-> e.state, key |-> e.key, count |-> e.count, head |-> e.head,
           tail |-> e.tail, pid |-> e.pid, queue |-> e.queue]
  BY DEF IsEntry
<1>2. f = [state |-> v, key |-> e.key, count |-> e.count, head |-> e.head,
           tail |-> e.tail, pid |-> e.pid, queue |-> e.queue]
  BY <1>1
<1>3. /\ f.state = v /\ f.count = e.count /\ f.pid = e.pid
      /\ f.key = e.key /\ f.queue = e.queue /\ f.head = e.head /\ f.tail = e.tail
  BY <1>2
<1>4. f = [state |-> f.state, key |-> f.key, count |-> f.count, head |-> f.head,
           tail |-> f.tail, pid |-> f.pid, queue |-> f.queue]
  BY <1>2, <1>3
<1> QED BY <1>3, <1>4 DEF IsEntry

(* A slot is marked, by the process that goes on to set its other fields.  *)
Claims(p, ep, x) ==
    /\ Sane
    /\ pc[p].at \in {"user", "claim"} /\ pc[p].call \in {"none", "register"}
    /\ IsPlace(x) /\ x.at \in Filling /\ x.call = "register" /\ x.ep = ep
    /\ Moves(pc, p, x, pc')
    /\ tab' = [tab EXCEPT ![ep[1]][ep[2]] = [Entry(ep) EXCEPT !.state = "used"]]
    /\ UNCHANGED <<pool, icoutq, icosem, hasmsg, mine, leaked>>
    /\ fault' \in Faults \cup {"none"}
    /\ fault' = "none" => Entry(ep).state = "free"

LEMMA ClaimStep ==
    ASSUME NetInv, NEW p \in Procs, NEW ep \in Endpoints, NEW x, Claims(p, ep, x)
    PROVE  NetInv'
<1>1. /\ Sane /\ pc[p].at \in {"user", "claim"} /\ pc[p].call \in {"none", "register"}
      /\ IsPlace(x) /\ x.at \in Filling /\ x.call = "register" /\ x.ep = ep
      /\ Moves(pc, p, x, pc')
      /\ tab' = [tab EXCEPT ![ep[1]][ep[2]] = [Entry(ep) EXCEPT !.state = "used"]]
      /\ UNCHANGED <<pool, icoutq, icosem, hasmsg, mine, leaked>>
      /\ fault' \in Faults \cup {"none"} /\ (fault' = "none" => Entry(ep).state = "free")
  BY DEF Claims
<1>2. /\ Types /\ Sems /\ Owned /\ Room /\ ReaderTold /\ \A d \in Endpoints : PidReads(d)
      /\ MessageFor(p) /\ ProcAt(p)
  BY <1>1, Parts
<1>3. ~Asks(x) /\ ~Gets(x) /\ ~Asks(pc[p]) /\ ~Gets(pc[p]) BY <1>1 DEF Asks, Gets
<1>4. /\ Placed(pc') /\ pc'[p] = x /\ \A b \in Actors \ {p} : pc'[b] = pc[b] /\ Stays(b)
      /\ pc'["netin"] = pc["netin"] /\ "netin" \notin {p} /\ "icmp_out" \notin {p} /\ Sems'
      /\ Tokens(pool') = Tokens(pool) /\ Cardinality(GetIn(pc')) = Cardinality(GetIn(pc))
      /\ InOutq' = InOutq /\ Sending' = Sending /\ Spare' = Spare /\ UnsentIn(pc') = UnsentIn(pc)
  BY <1>1, <1>3, ProcMoves
<1>5. PICK e : e = [Entry(ep) EXCEPT !.state = "used"] OBVIOUS
<1>6. /\ IsEntry(e, ep[1]) /\ e.state = "used"
      /\ e.count = Entry(ep).count /\ e.queue = Entry(ep).queue
  BY <1>2, <1>5, EntryTyped, StateChanged
<1>7. /\ IsTable(tab') /\ Entry(ep)' = e
      /\ \A d \in Endpoints \ {ep} : Entry(d)' = Entry(d)
  BY <1>1, <1>2, <1>5, <1>6, OneEntry
<1>8. Types'
  <2>1. ProcAt(p)' BY <1>1, <1>4 DEF ProcAt
  <2>2. MessageFor(p)' BY <1>1, <1>2 DEF MessageFor
  <2>3. /\ leaked' \in Nat
        /\ hasmsg' \in [Procs -> BOOLEAN] /\ mine' \in [Procs -> SUBSET Endpoints]
    BY <1>1, <1>2 DEF Types
  <2>4. \A q \in Procs \cap {p} : ProcAt(q)' /\ MessageFor(q)' BY <2>1, <2>2
  <2>5. \A q \in Procs \ {p} : hasmsg'[q] = hasmsg[q] /\ mine'[q] = mine[q] BY <1>1
  <2> QED BY <1>1, <1>2, <1>4, <1>7, <2>3, <2>4, <2>5, TypesStay
<1>9. ASSUME Sane'
      PROVE  Owned' /\ Room' /\ (\A d \in Endpoints : PidReads(d))' /\ Summed' /\ ReaderTold'
  <2>1. Entry(ep).state = "free" BY <1>1, <1>9 DEF Sane
  <2>2. \A q \in Procs : q # p => pc'[q] = pc[q] BY <1>4 DEF Actors
  <2>3. /\ \A d \in Endpoints, q, r \in Procs : Owns(q, d) /\ Owns(r, d) => q = r
        /\ \A d \in Endpoints : Entry(d).state # "free" <=> \E q \in Procs : Owns(q, d)
        /\ \A q \in Procs : pc[q].at \in Filling => pc[q].ep \notin mine[q]
    BY <1>2 DEF Owned
  <2>4. \A q \in Procs : ~Owns(q, ep) BY <2>1, <2>3
  <2>5. \A d \in Endpoints, q \in Procs : Owns(q, d)' <=> Owns(q, d) \/ (q = p /\ d = ep)
    BY <1>1, <1>4, <2>2 DEF Owns, Fills
  <2>6. Owned'
    <3>1. (\A d \in Endpoints, q, r \in Procs : Owns(q, d) /\ Owns(r, d) => q = r)'
      BY <2>3, <2>4, <2>5
    <3>2. \A d \in Endpoints : Entry(d)'.state # "free" <=> \E q \in Procs : Owns(q, d)'
      BY <1>6, <1>7, <2>3, <2>5
    <3>3. \A q \in Procs : pc'[q].at \in Filling => pc'[q].ep \notin mine'[q]
      BY <1>1, <1>4, <2>2, <2>3, <2>4 DEF Owns
    <3> QED BY <3>1, <3>2, <3>3 DEF Owned
  <2>7. (\A d \in Endpoints : PidReads(d))' /\ ReaderTold'
    <3>1. \A q \in Procs : ProcAt(q)' BY <1>8 DEF Types
    <3>2. \A q \in Procs : pc'[q] = pc[q] \/ (pc[q].call # "recv" /\ pc'[q].call # "recv")
      BY <1>1, <1>4, <2>2
    <3>3. /\ \A d \in Endpoints : Entry(d)'.state = "recv" <=> Entry(d).state = "recv"
          /\ \A d \in Endpoints : Entry(d).state = "recv" =>
                 Entry(d)'.pid = Entry(d).pid /\ (Entry(d)'.count > 0 => Entry(d).count > 0)
      BY <1>6, <1>7, <2>1
    <3> QED BY <1>1, <1>2, <1>4, <3>1, <3>2, <3>3, ReadersStay
  <2>8. Room'
    <3>1. \A d \in Endpoints : Full(Entry(d)') BY <1>2, <1>6, <1>7 DEF Room, Full, Filled
    <3> QED BY <1>1, <1>2, <1>4, <3>1, RoomThen
  <2>9. Summed'
    <3>1. PICK n : n = Entry(ep).count OBVIOUS
    <3>2. Cardinality(InRings') + n = Cardinality(InRings) + n /\ Cardinality(InRings') \in Nat /\ n \in Nat
      BY <1>2, <1>6, <1>7, <3>1, RingChanged
    <3>3. leaked' = leaked + 0 /\ n + 0 = n /\ 0 \in Nat BY <1>1, <1>2, <3>2 DEF Types
    <3> QED BY <1>1, <1>4, <3>2, <3>3, SumStays
  <2> QED BY <2>6, <2>7, <2>8, <2>9
<1> QED BY <1>4, <1>8, <1>9, InvThen

LEMMA UdpClaimStep ==
    ASSUME NetInv, NEW p \in Procs, UdpClaim(p)
    PROVE  NetInv'
<1>1. PICK ep : ep = pc[p].ep OBVIOUS
<1>2. /\ Sane /\ pc[p].at = "claim"
      /\ FaultIf("slot shared", Entry(ep).state # "free")
      /\ tab' = [tab EXCEPT ![ep[1]][ep[2]].state = "used"]
      /\ pc' = [pc EXCEPT ![p].at = "port"]
      /\ UNCHANGED <<pool, icoutq, icosem, hasmsg, mine, leaked>>
  BY <1>1 DEF UdpClaim, Runs
<1>3. Types /\ ProcAt(p) /\ IsPlace(pc[p]) BY <1>2, Parts
<1>4. ep \in Endpoints /\ pc[p].call = "register" BY <1>1, <1>2, <1>3 DEF ProcAt
<1>5. PICK x : x = [pc[p] EXCEPT !.at = "port"] OBVIOUS
<1>6. IsPlace(x) /\ x.at \in Filling /\ x.call = "register" /\ x.ep = ep
  BY <1>1, <1>3, <1>4, <1>5, AtChanged
<1>7. Moves(pc, p, x, pc') BY <1>2, <1>5 DEF Moves
<1>8. tab' = [tab EXCEPT ![ep[1]][ep[2]] = [Entry(ep) EXCEPT !.state = "used"]] BY <1>2 DEF Entry
<1>9. fault' \in Faults \cup {"none"} /\ (fault' = "none" => Entry(ep).state = "free")
  <2>1. fault' = IF Entry(ep).state # "free" THEN "slot shared" ELSE fault
    BY <1>2 DEF FaultIf
  <2>2. fault = "none" BY <1>2 DEF Sane
  <2> QED BY <2>1, <2>2 DEF Faults
<1>10. Claims(p, ep, x) BY <1>2, <1>4, <1>6, <1>7, <1>8, <1>9 DEF Claims
<1> QED BY <1>4, <1>10, ClaimStep

LEMMA IcmpClaimStep ==
    ASSUME NetInv, NEW p \in Procs, NEW host, IcmpClaim(p, host)
    PROVE  NetInv'
<1>1. PICK i \in Slots("icmp") :
          /\ FirstFree("icmp", i)
          /\ tab' = [tab EXCEPT !["icmp"][i].state = "used"]
          /\ pc' = [pc EXCEPT ![p] = [at |-> "host", call |-> "register", ep |-> <<"icmp", i>>, key |-> <<host>>]]
  BY DEF IcmpClaim
<1>2. Sane /\ pc[p] = Idle /\ UNCHANGED <<pool, icoutq, icosem, hasmsg, mine, leaked, fault>>
  BY DEF IcmpClaim, AtUser, Runs
<1>3. pc[p].at = "user" /\ pc[p].call = "none" BY <1>2, IdlePlace
<1>4. PICK ep : ep = <<"icmp", i>> OBVIOUS
<1>5. ep \in Endpoints /\ ep[1] = "icmp" /\ ep[2] = i BY <1>4, OneProto DEF Protos
<1>6. PICK x : x = [at |-> "host", call |-> "register", ep |-> <<"icmp", i>>, key |-> <<host>>] OBVIOUS
<1>7. IsPlace(x) /\ x.at \in Filling /\ x.call = "register" /\ x.ep = ep BY <1>4, <1>6 DEF IsPlace
<1>8. Moves(pc, p, x, pc') BY <1>1, <1>6 DEF Moves
<1>9. tab' = [tab EXCEPT ![ep[1]][ep[2]] = [Entry(ep) EXCEPT !.state = "used"]]
  BY <1>1, <1>5 DEF Entry
<1>10. Entry(ep).state = "free" BY <1>1, <1>5 DEF FirstFree, Entry
<1>11. fault' \in Faults \cup {"none"} BY <1>2, Parts DEF Types
<1>12. Claims(p, ep, x) BY <1>2, <1>3, <1>7, <1>8, <1>9, <1>10, <1>11 DEF Claims
<1> QED BY <1>5, <1>12, ClaimStep

(* Nobody reads an endpoint whose owner is about something else. *)
LEMMA NotRead ==
    ASSUME NetInv, Sane, NEW p \in Procs, NEW ep \in Endpoints, Owns(p, ep), pc[p].call # "recv"
    PROVE  /\ Entry(ep).state = "used"
           /\ \A q \in Procs : Owns(q, ep) => q = p
<1>1. /\ Types /\ Owned /\ PidReads(ep) /\ \A q \in Procs : ProcAt(q)
  BY Parts
<1>2. Entry(ep).state # "free" BY <1>1 DEF Owned
<1>3. Entry(ep).state # "recv"
  <2> SUFFICES ASSUME Entry(ep).state = "recv" PROVE FALSE OBVIOUS
  <2>1. PICK q \in Procs : Reads(q, ep) BY <1>1 DEF PidReads
  <2>2. ep \in mine[q] BY <1>1, <2>1 DEF Reads, ProcAt
  <2>3. q = p BY <1>1, <2>2 DEF Owned, Owns
  <2> QED BY <2>1, <2>3 DEF Reads
<1>4. Entry(ep).state \in {"free", "used", "recv"} BY <1>1, EntryTyped DEF IsEntry
<1>5. \A q \in Procs : Owns(q, ep) => q = p BY <1>1 DEF Owned
<1> QED BY <1>2, <1>3, <1>4, <1>5

(* Another field of the entry is set, or the last one. *)
FillsOn(p, ep, e, x, l) ==
    /\ Sane /\ pc[p].at \in Filling /\ pc[p].ep = ep
    /\ IsEntry(e, ep[1]) /\ Full(e) /\ e.state = Entry(ep).state
    /\ l \in Nat /\ e.count + l = Entry(ep).count /\ leaked' = leaked + l
    /\ tab' = [tab EXCEPT ![ep[1]][ep[2]] = e]
    /\ Moves(pc, p, x, pc')
    /\ \/ x = Idle /\ mine' = [mine EXCEPT ![p] = @ \cup {ep}]
       \/ IsPlace(x) /\ x.at \in Filling /\ x.call = "register" /\ x.ep = ep /\ UNCHANGED mine
    /\ UNCHANGED <<pool, icoutq, icosem, hasmsg, fault>>

LEMMA FillsOnStep ==
    ASSUME NetInv, NEW p \in Procs, NEW ep, NEW e, NEW x, NEW l, FillsOn(p, ep, e, x, l)
    PROVE  NetInv'
<1>1. /\ Sane /\ pc[p].at \in Filling /\ ep = pc[p].ep
      /\ IsEntry(e, ep[1]) /\ Full(e) /\ e.state = Entry(ep).state
      /\ l \in Nat /\ e.count + l = Entry(ep).count /\ leaked' = leaked + l
      /\ tab' = [tab EXCEPT ![ep[1]][ep[2]] = e]
      /\ Moves(pc, p, x, pc')
      /\ UNCHANGED <<pool, icoutq, icosem, hasmsg, fault>>
  BY DEF FillsOn
<1>2. \/ x = Idle /\ mine' = [mine EXCEPT ![p] = @ \cup {ep}]
      \/ IsPlace(x) /\ x.at \in Filling /\ x.call = "register" /\ x.ep = ep /\ UNCHANGED mine
  BY DEF FillsOn
<1>3. /\ Types /\ Sems /\ Owned /\ Room /\ ReaderTold /\ \A d \in Endpoints : PidReads(d)
      /\ MessageFor(p) /\ ProcAt(p) /\ IsPlace(pc[p])
  BY <1>1, Parts
<1>4. ep \in Endpoints /\ pc[p].call = "register" BY <1>1, <1>3 DEF ProcAt
<1>5. IsPlace(x) /\ x.call \in {"none", "register"} BY <1>2, IdlePlace
<1>6. ~Asks(pc[p]) /\ ~Gets(pc[p]) /\ ~Asks(x) /\ ~Gets(x) BY <1>4, <1>5 DEF Asks, Gets
<1>7. /\ Placed(pc') /\ pc'[p] = x /\ \A b \in Actors \ {p} : pc'[b] = pc[b] /\ Stays(b)
      /\ pc'["netin"] = pc["netin"] /\ "netin" \notin {p} /\ "icmp_out" \notin {p} /\ Sems'
      /\ Tokens(pool') = Tokens(pool) /\ Cardinality(GetIn(pc')) = Cardinality(GetIn(pc))
      /\ InOutq' = InOutq /\ Sending' = Sending /\ Spare' = Spare /\ UnsentIn(pc') = UnsentIn(pc)
  BY <1>1, <1>5, <1>6, ProcMoves
<1>8. /\ IsTable(tab') /\ Entry(ep)' = e
      /\ \A d \in Endpoints \ {ep} : Entry(d)' = Entry(d)
  BY <1>1, <1>3, <1>4, OneEntry
<1>9. IsEntry(Entry(ep), ep[1]) /\ Entry(ep).count \in Nat /\ e.count \in Nat
  BY <1>1, <1>3, <1>4, EntryTyped DEF IsEntry
<1>10. /\ mine' \in [Procs -> SUBSET Endpoints]
       /\ \A q \in Procs : q # p => mine'[q] = mine[q]
       /\ mine'[p] = IF x = Idle THEN mine[p] \cup {ep} ELSE mine[p]
  <2>1. CASE x = Idle
    <3>1. x.at \notin Filling BY <2>1, IdlePlace
    <3> QED BY <2>1, <3>1, <1>2, <1>3, <1>4 DEF Types
  <2>2. CASE x # Idle BY <2>2, <1>2, <1>3 DEF Types
  <2> QED BY <2>1, <2>2
<1>11. \/ x = Idle /\ x.at = "user" /\ x.call = "none"
       \/ x # Idle /\ x.at \in Filling /\ x.call = "register" /\ x.ep = ep
  BY <1>2, IdlePlace
<1>12. Types'
  <2>1. ProcAt(p)' BY <1>4, <1>7, <1>11 DEF ProcAt
  <2>2. MessageFor(p)' BY <1>1, <1>3 DEF MessageFor
  <2>3. /\ leaked' \in Nat /\ hasmsg' \in [Procs -> BOOLEAN] /\ fault' \in Faults \cup {"none"}
    BY <1>1, <1>3 DEF Types
  <2>4. \A q \in Procs \cap {p} : ProcAt(q)' /\ MessageFor(q)' BY <2>1, <2>2
  <2>5. \A q \in Procs \ {p} : hasmsg'[q] = hasmsg[q] /\ mine'[q] = mine[q] BY <1>1, <1>10
  <2> QED BY <1>1, <1>3, <1>7, <1>8, <1>10, <2>3, <2>4, <2>5, TypesStay
<1>13. Owns(p, ep) BY <1>1 DEF Owns, Fills
<1>14. Entry(ep).state = "used" /\ \A q \in Procs : Owns(q, ep) => q = p
  BY <1>1, <1>4, <1>13, NotRead
<1>15. \A q \in Procs : q # p => pc'[q] = pc[q] BY <1>7 DEF Actors
<1>16. Owned'
  <2>1. \A d \in Endpoints, q \in Procs : Owns(q, d)' <=> Owns(q, d)
    <3> SUFFICES ASSUME NEW d \in Endpoints, NEW q \in Procs PROVE Owns(q, d)' <=> Owns(q, d)
      OBVIOUS
    <3>1. CASE q # p BY <3>1, <1>10, <1>15 DEF Owns, Fills
    <3>2. CASE q = p /\ x = Idle BY <3>2, <1>1, <1>7, <1>10, <1>11 DEF Owns, Fills
    <3>3. CASE q = p /\ x # Idle BY <3>3, <1>1, <1>7, <1>10, <1>11 DEF Owns, Fills
    <3> QED BY <3>1, <3>2, <3>3
  <2>2. /\ \A d \in Endpoints, q, r \in Procs : Owns(q, d) /\ Owns(r, d) => q = r
        /\ \A d \in Endpoints : Entry(d).state # "free" <=> \E q \in Procs : Owns(q, d)
        /\ \A q \in Procs : pc[q].at \in Filling => pc[q].ep \notin mine[q]
    BY <1>3 DEF Owned
  <2>3. \A d \in Endpoints : Entry(d)'.state = Entry(d).state BY <1>1, <1>8
  <2>4. (\A d \in Endpoints, q, r \in Procs : Owns(q, d) /\ Owns(r, d) => q = r)' BY <2>1, <2>2
  <2>5. (\A d \in Endpoints : Entry(d).state # "free" <=> \E q \in Procs : Owns(q, d))'
    BY <2>1, <2>2, <2>3
  <2>6. \A q \in Procs : pc'[q].at \in Filling => pc'[q].ep \notin mine'[q]
    <3> SUFFICES ASSUME NEW q \in Procs, pc'[q].at \in Filling PROVE pc'[q].ep \notin mine'[q]
      OBVIOUS
    <3>1. CASE q # p BY <3>1, <1>10, <1>15, <2>2
    <3>2. CASE q = p
      <4>1. x # Idle /\ x.ep = ep BY <3>2, <1>7, <1>11
      <4> QED BY <3>2, <4>1, <1>1, <1>7, <1>10, <2>2
    <3> QED BY <3>1, <3>2
  <2> QED BY <2>4, <2>5, <2>6 DEF Owned
<1>17. (\A d \in Endpoints : PidReads(d))' /\ ReaderTold'
  <2>1. \A q \in Procs : ProcAt(q)' BY <1>12 DEF Types
  <2>2. \A q \in Procs : pc'[q] = pc[q] \/ (pc[q].call # "recv" /\ pc'[q].call # "recv")
    BY <1>4, <1>5, <1>7, <1>15
  <2>3. /\ \A d \in Endpoints : Entry(d)'.state = "recv" <=> Entry(d).state = "recv"
        /\ \A d \in Endpoints : Entry(d).state = "recv" =>
               Entry(d)'.pid = Entry(d).pid /\ (Entry(d)'.count > 0 => Entry(d).count > 0)
    BY <1>1, <1>8, <1>14
  <2> QED BY <1>1, <1>3, <1>7, <2>1, <2>2, <2>3, ReadersStay
<1>18. Room'
  <2>1. \A d \in Endpoints : Full(Entry(d)') BY <1>1, <1>3, <1>8 DEF Room
  <2> QED BY <1>1, <1>3, <1>7, <2>1, RoomThen
<1>19. Summed'
  <2>1. PICK m, k : m = Entry(ep).count /\ k = e.count OBVIOUS
  <2>2. /\ Cardinality(InRings') + m = Cardinality(InRings) + k /\ Cardinality(InRings') \in Nat
        /\ m \in Nat /\ k \in Nat
    BY <1>3, <1>4, <1>8, <2>1, RingChanged
  <2>3. k + l = m BY <1>1, <2>1
  <2> QED BY <1>1, <1>7, <2>2, <2>3, SumStays
<1> QED BY <1>7, <1>12, <1>16, <1>17, <1>18, <1>19, InvThen

LEMMA KeyChanged ==
    ASSUME NEW proto, NEW e, IsEntry(e, proto), NEW k, NEW f, f = [e EXCEPT !.key = k]
    PROVE  IsEntry(f, proto) /\ f.state = e.state /\ f.count = e.count /\ f.queue = e.queue
<1>1. e = [state |-> e.state, key |-> e.key, count |-> e.count, head |-> e.head,
           tail |-> e.tail, pid |-> e.pid, queue |-> e.queue]
  BY DEF IsEntry
<1>2. f = [state |-> e.state, key |-> k, count |-> e.count, head |-> e.head,
           tail |-> e.tail, pid |-> e.pid, queue |-> e.queue]
  BY <1>1
<1>3. /\ f.state = e.state /\ f.count = e.count /\ f.queue = e.queue
      /\ f.head = e.head /\ f.tail = e.tail
      /\ f = [state |-> f.state, key |-> f.key, count |-> f.count, head |-> f.head,
              tail |-> f.tail, pid |-> f.pid, queue |-> f.queue]
  BY <1>2
<1> QED BY <1>3 DEF IsEntry

LEMMA FillKey ==
    ASSUME NetInv, NEW p \in Procs, NEW v \in {"host", "count"}, NEW k, NEW ep, ep = pc[p].ep,
           Sane, pc[p].at \in Filling,
           tab' = [tab EXCEPT ![ep[1]][ep[2]] = [Entry(ep) EXCEPT !.key = k]],
           pc' = [pc EXCEPT ![p].at = v],
           UNCHANGED <<pool, icoutq, icosem, hasmsg, mine, leaked, fault>>
    PROVE  NetInv'
<1>1. Types /\ Room /\ ProcAt(p) /\ IsPlace(pc[p]) BY Parts
<1>2. ep \in Endpoints /\ pc[p].call = "register" BY <1>1 DEF ProcAt
<1>3. PICK e : e = [Entry(ep) EXCEPT !.key = k] OBVIOUS
<1>4. /\ IsEntry(e, ep[1]) /\ e.state = Entry(ep).state
      /\ e.count = Entry(ep).count /\ e.queue = Entry(ep).queue
  BY <1>1, <1>2, <1>3, EntryTyped, KeyChanged
<1>5. Full(e) BY <1>1, <1>2, <1>4 DEF Room, Full, Filled
<1>6. e.count + 0 = Entry(ep).count /\ leaked' = leaked + 0 /\ 0 \in Nat
  <2>1. e.count \in Nat BY <1>4 DEF IsEntry
  <2> QED BY <2>1, <1>1, <1>4 DEF Types
<1>7. PICK x : x = [pc[p] EXCEPT !.at = v] OBVIOUS
<1>8. IsPlace(x) /\ x.at \in Filling /\ x.call = "register" /\ x.ep = ep
  BY <1>1, <1>2, <1>7, AtChanged
<1>9. Moves(pc, p, x, pc') BY <1>7 DEF Moves
<1>10. FillsOn(p, ep, e, x, 0) BY <1>3, <1>4, <1>5, <1>6, <1>8, <1>9 DEF FillsOn
<1> QED BY <1>10, FillsOnStep

LEMMA FillKeyStep ==
    ASSUME NetInv, NEW p \in Procs, FillPort(p) \/ FillHost(p)
    PROVE  NetInv'
<1>1. PICK ep : ep = pc[p].ep OBVIOUS
<1>2. CASE FillPort(p)
  <2>1. PICK k : k = [Entry(ep).key EXCEPT ![2] = pc[p].key[2]] OBVIOUS
  <2>2. /\ Sane /\ pc[p].at = "port" /\ pc' = [pc EXCEPT ![p].at = "host"]
        /\ UNCHANGED <<pool, icoutq, icosem, hasmsg, mine, leaked, fault>>
        /\ tab' = [tab EXCEPT ![ep[1]][ep[2]].key = k]
    BY <1>1, <1>2, <2>1 DEF FillPort, Runs, Entry
  <2>3. tab' = [tab EXCEPT ![ep[1]][ep[2]] = [Entry(ep) EXCEPT !.key = k]] BY <2>2 DEF Entry
  <2>4. pc[p].at \in Filling /\ "host" \in {"host", "count"} BY <2>2
  <2> HIDE DEF Filling
  <2> QED BY ONLY NetInv, p \in Procs, <1>1, <2>2, <2>3, <2>4, FillKey
<1>3. CASE FillHost(p)
  <2>1. PICK k : k = [Entry(ep).key EXCEPT ![1] = pc[p].key[1]] OBVIOUS
  <2>2. /\ Sane /\ pc[p].at = "host" /\ pc' = [pc EXCEPT ![p].at = "count"]
        /\ UNCHANGED <<pool, icoutq, icosem, hasmsg, mine, leaked, fault>>
        /\ tab' = [tab EXCEPT ![ep[1]][ep[2]].key = k]
    BY <1>1, <1>3, <2>1 DEF FillHost, Runs, Entry
  <2>3. tab' = [tab EXCEPT ![ep[1]][ep[2]] = [Entry(ep) EXCEPT !.key = k]] BY <2>2 DEF Entry
  <2>4. pc[p].at \in Filling /\ "count" \in {"host", "count"} BY <2>2
  <2> HIDE DEF Filling
  <2> QED BY ONLY NetInv, p \in Procs, <1>1, <2>2, <2>3, <2>4, FillKey
<1> QED BY <1>2, <1>3

(* An entry without packets. *)
LEMMA EmptyRing ==
    ASSUME NEW proto \in Protos, NEW e, IsEntry(e, proto), NEW f, f = Emptied(e)
    PROVE  /\ IsEntry(f, proto) /\ Full(f) /\ f.state = e.state /\ f.count = 0
           /\ f.key = e.key /\ f.head = e.head /\ f.tail = e.tail /\ f.pid = e.pid
<1> DEFINE q == [i \in DOMAIN e.queue |-> FALSE]
<1>1. e = [state |-> e.state, key |-> e.key, count |-> e.count, head |-> e.head,
           tail |-> e.tail, pid |-> e.pid, queue |-> e.queue]
  BY DEF IsEntry
<1>2. f = [e EXCEPT !.count = 0, !.queue = q] BY <1>1 DEF Emptied
<1>3. f = [state |-> e.state, key |-> e.key, count |-> 0, head |-> e.head,
           tail |-> e.tail, pid |-> e.pid, queue |-> q]
  BY <1>1, <1>2
<1>4. /\ f.state = e.state /\ f.key = e.key /\ f.count = 0 /\ f.head = e.head /\ f.tail = e.tail
      /\ f.pid = e.pid /\ f.queue = q
      /\ f = [state |-> f.state, key |-> f.key, count |-> f.count, head |-> f.head,
              tail |-> f.tail, pid |-> f.pid, queue |-> f.queue]
  BY <1>3
<1>5. QSize(proto) \in Nat \ {0} /\ e.queue \in [0 .. QSize(proto) - 1 -> BOOLEAN]
  BY OneProto DEF IsEntry
<1>6. q \in [0 .. QSize(proto) - 1 -> BOOLEAN] /\ \A j \in 0 .. QSize(proto) - 1 : ~q[j]
  BY <1>5
<1> HIDE DEF q
<1>7. IsEntry(f, proto) BY <1>4, <1>5, <1>6 DEF IsEntry
<1>8. Cardinality(Marked(q)) = 0 BY <1>5, <1>6, NoneMarked
<1>9. Filled(f) = Marked(q) BY <1>4, <1>7, RingFilled
<1> QED BY <1>4, <1>7, <1>8, <1>9 DEF Full

LEMMA FillCountStep ==
    ASSUME NetInv, NEW p \in Procs, FillCount(p)
    PROVE  NetInv'
<1>1. PICK ep : ep = pc[p].ep OBVIOUS
<1>2. PICK e : e = Emptied(Entry(ep)) OBVIOUS
<1>3. PICK l : l = Entry(ep).count OBVIOUS
<1>4. /\ Sane /\ pc[p].at \in Filling
      /\ tab' = [tab EXCEPT ![ep[1]][ep[2]] = e]
      /\ leaked' = leaked + l
      /\ pc' = [pc EXCEPT ![p].at = "heads"]
      /\ UNCHANGED <<pool, icoutq, icosem, hasmsg, mine, fault>>
  BY <1>1, <1>2, <1>3 DEF FillCount, Runs, Entry
<1>5. Types /\ ProcAt(p) /\ IsPlace(pc[p]) BY <1>4, Parts
<1>6. ep \in Endpoints /\ pc[p].call = "register" /\ ep[1] \in Protos
  BY <1>1, <1>4, <1>5, OneEndpoint DEF ProcAt
<1>7. PICK d : d = Entry(ep) OBVIOUS
<1>8. IsEntry(d, ep[1]) /\ l \in Nat BY <1>3, <1>5, <1>6, <1>7, EntryTyped DEF IsEntry
<1>9. IsEntry(e, ep[1]) /\ Full(e) /\ e.state = d.state /\ e.count = 0
  BY <1>2, <1>6, <1>7, <1>8, EmptyRing
<1>10. e.count + l = Entry(ep).count BY <1>3, <1>8, <1>9
<1>11. PICK x : x = [pc[p] EXCEPT !.at = "heads"] OBVIOUS
<1>12. IsPlace(x) /\ x.at \in Filling /\ x.call = "register" /\ x.ep = ep
  BY <1>1, <1>5, <1>6, <1>11, AtChanged
<1>13. Moves(pc, p, x, pc') BY <1>4, <1>11 DEF Moves
<1>14. FillsOn(p, ep, e, x, l) BY <1>1, <1>4, <1>7, <1>8, <1>9, <1>10, <1>12, <1>13 DEF FillsOn
<1> QED BY <1>14, FillsOnStep

LEMMA FillHeadsStep ==
    ASSUME NetInv, NEW p \in Procs, FillHeads(p)
    PROVE  NetInv'
<1>1. PICK ep : ep = pc[p].ep OBVIOUS
<1>2. PICK e : e = [Entry(ep) EXCEPT !.head = 0, !.tail = 0, !.pid = Nobody] OBVIOUS
<1>3. /\ Sane /\ pc[p].at \in Filling
      /\ tab' = [tab EXCEPT ![ep[1]][ep[2]] = e]
      /\ mine' = [mine EXCEPT ![p] = @ \cup {ep}]
      /\ pc' = [pc EXCEPT ![p] = Idle]
      /\ UNCHANGED <<pool, icoutq, icosem, hasmsg, leaked, fault>>
  BY <1>1, <1>2 DEF FillHeads, Runs, Entry
<1>4. Types /\ Room /\ ProcAt(p) BY <1>3, Parts
<1>5. ep \in Endpoints /\ ep[1] \in Protos BY <1>1, <1>3, <1>4, OneEndpoint DEF ProcAt
<1>6. IsEntry(Entry(ep), ep[1]) /\ QSize(ep[1]) \in Nat \ {0} BY <1>4, <1>5, EntryTyped, OneProto
<1>7. /\ e.state = Entry(ep).state /\ e.count = Entry(ep).count /\ e.queue = Entry(ep).queue
      /\ e.head = 0 /\ e.tail = 0
      /\ e = [state |-> e.state, key |-> e.key, count |-> e.count, head |-> e.head,
              tail |-> e.tail, pid |-> e.pid, queue |-> e.queue]
  <2>1. Entry(ep) = [state |-> Entry(ep).state, key |-> Entry(ep).key, count |-> Entry(ep).count,
                     head |-> Entry(ep).head, tail |-> Entry(ep).tail, pid |-> Entry(ep).pid,
                     queue |-> Entry(ep).queue]
    BY <1>6 DEF IsEntry
  <2>2. e = [state |-> Entry(ep).state, key |-> Entry(ep).key, count |-> Entry(ep).count,
             head |-> 0, tail |-> 0, pid |-> Nobody, queue |-> Entry(ep).queue]
    BY <1>2, <2>1
  <2> QED BY <2>2
<1>8. IsEntry(e, ep[1]) BY <1>6, <1>7 DEF IsEntry
<1>9. Full(e) BY <1>4, <1>5, <1>7 DEF Room, Full, Filled
<1>10. e.count + 0 = Entry(ep).count /\ leaked' = leaked + 0 /\ 0 \in Nat
  <2>1. e.count \in Nat BY <1>8 DEF IsEntry
  <2> QED BY <2>1, <1>3, <1>4, <1>7 DEF Types
<1>11. Moves(pc, p, Idle, pc') BY <1>3 DEF Moves
<1>12. FillsOn(p, ep, e, Idle, 0) BY <1>1, <1>3, <1>7, <1>8, <1>9, <1>10, <1>11 DEF FillsOn
<1> QED BY <1>12, FillsOnStep
----------------------------------------------------------------------------
(***************************************************************************)
(* Reading and releasing.                                                  *)
(***************************************************************************)
(* The owner of ep begins or ends to read it, and the others go on reading. *)
LEMMA OthersRead ==
    ASSUME NetInv, Sane, NEW p \in Procs, NEW ep \in mine[p], pc[p].call = "recv" => pc[p].ep = ep,
           \A q \in Procs : q # p => pc'[q] = pc[q] \/ (pc[q].call = "send" /\ pc'[q].at = "woken"),
           \A d \in Endpoints \ {ep} : Entry(d)' = Entry(d),
           pc'["netin"].call = pc["netin"].call, pc'["netin"].ep = pc["netin"].ep,
           PidReads(ep)', Told(p)'
    PROVE  (\A d \in Endpoints : PidReads(d))' /\ ReaderTold'
<1>1. /\ Types /\ Owned /\ ReaderTold /\ \A d \in Endpoints : PidReads(d)
  BY Parts
<1>2. ASSUME NEW d \in Endpoints PROVE PidReads(d)'
  <2>1. CASE d = ep BY <2>1
  <2>2. CASE d # ep
    <3> SUFFICES ASSUME Entry(d)'.state = "recv" PROVE PidReads(d)' BY DEF PidReads
    <3>1. Entry(d)' = Entry(d) BY <2>2
    <3>2. PICK q \in Procs : q = Entry(d).pid /\ Reads(q, d) BY <1>1, <3>1 DEF PidReads
    <3>3. q # p /\ pc'[q] = pc[q] BY <2>2, <3>2 DEF Reads
    <3>4. Entry(d)'.pid = q /\ Reads(q, d)' BY <3>1, <3>2, <3>3 DEF Reads
    <3> QED BY <3>4 DEF PidReads, Reads
  <2> QED BY <2>1, <2>2
<1>3. ASSUME NEW q \in Procs PROVE Told(q)'
  <2>1. CASE q = p BY <2>1
  <2>2. CASE q # p
    <3> SUFFICES ASSUME pc'[q].at = "recv" PROVE Told(q)' BY DEF Told
    <3>1. pc'[q] = pc[q] BY <2>2
    <3>2. PICK d \in Endpoints : d = pc[q].ep /\ d \in mine[q]
      BY <1>1, <3>1 DEF Types, ProcAt
    <3>3. d # ep BY <1>1, <2>2, <3>2 DEF Owned, Owns
    <3>4. /\ Entry(d).state = "recv" /\ Entry(d).pid = q
          /\ Entry(d).count > 0 => pc["netin"].call = "next" /\ pc["netin"].ep = d
      BY <1>1, <3>1, <3>2 DEF ReaderTold
    <3>5. Entry(d)' = Entry(d) /\ pc'[q].ep = d BY <3>1, <3>2, <3>3
    <3> QED BY <3>4, <3>5 DEF Told, Entry
  <2> QED BY <2>1, <2>2
<1> QED BY <1>2, <1>3 DEF ReaderTold, Told

LEMMA RecvWaitStep ==
    ASSUME NetInv, NEW p \in Procs, NEW ep \in mine[p], RecvWait(p, ep)
    PROVE  NetInv'
<1>1. PICK e : e = [Entry(ep) EXCEPT !.state = "recv", !.pid = p] OBVIOUS
<1>2. PICK x : x = [Idle EXCEPT !.at = "recv", !.call = "recv", !.ep = ep] OBVIOUS
<1>3. /\ Sane /\ pc[p] = Idle /\ Entry(ep).count = 0
      /\ tab' = [tab EXCEPT ![ep[1]][ep[2]] = e]
      /\ hasmsg' = [hasmsg EXCEPT ![p] = FALSE]
      /\ pc' = [pc EXCEPT ![p] = x]
      /\ FaultIf("wrong read", Hidden(ep, {"free", "used", "recv"}))
      /\ UNCHANGED <<pool, icoutq, icosem, mine, leaked>>
  BY <1>1, <1>2 DEF RecvWait, AtUser, Runs, Entry
<1>4. /\ Types /\ Sems /\ Owned /\ Room /\ ReaderTold /\ \A d \in Endpoints : PidReads(d)
  BY <1>3, Parts
<1>5. ep \in Endpoints /\ pc[p].at = "user" /\ pc[p].call = "none"
  BY <1>3, <1>4, IdlePlace DEF Types
<1>6. /\ IsPlace(x) /\ x.at = "recv" /\ x.call = "recv" /\ x.ep = ep
      /\ ~Asks(x) /\ ~Gets(x) /\ ~Asks(pc[p]) /\ ~Gets(pc[p])
  BY <1>2, <1>5 DEF IsPlace, Idle, Asks, Gets
<1>7. Moves(pc, p, x, pc') BY <1>3 DEF Moves
<1>8. /\ Placed(pc') /\ pc'[p] = x /\ \A b \in Actors \ {p} : pc'[b] = pc[b] /\ Stays(b)
      /\ pc'["netin"] = pc["netin"] /\ "netin" \notin {p} /\ "icmp_out" \notin {p} /\ Sems'
      /\ Tokens(pool') = Tokens(pool) /\ Cardinality(GetIn(pc')) = Cardinality(GetIn(pc))
      /\ InOutq' = InOutq /\ Sending' = Sending /\ Spare' = Spare /\ UnsentIn(pc') = UnsentIn(pc)
  BY <1>3, <1>6, <1>7, ProcMoves
<1>9. IsEntry(Entry(ep), ep[1]) BY <1>4, <1>5, EntryTyped
<1>10. /\ e.state = "recv" /\ e.count = Entry(ep).count /\ e.pid = p
       /\ e.head = Entry(ep).head /\ e.tail = Entry(ep).tail /\ e.queue = Entry(ep).queue
       /\ e = [state |-> e.state, key |-> e.key, count |-> e.count, head |-> e.head,
               tail |-> e.tail, pid |-> e.pid, queue |-> e.queue]
  <2>1. Entry(ep) = [state |-> Entry(ep).state, key |-> Entry(ep).key, count |-> Entry(ep).count,
                     head |-> Entry(ep).head, tail |-> Entry(ep).tail, pid |-> Entry(ep).pid,
                     queue |-> Entry(ep).queue]
    BY <1>9 DEF IsEntry
  <2>2. e = [state |-> "recv", key |-> Entry(ep).key, count |-> Entry(ep).count,
             head |-> Entry(ep).head, tail |-> Entry(ep).tail, pid |-> p,
             queue |-> Entry(ep).queue]
    BY <1>1, <2>1
  <2> QED BY <2>2
<1>11. IsEntry(e, ep[1]) BY <1>9, <1>10 DEF IsEntry
<1>12. /\ IsTable(tab') /\ Entry(ep)' = e
       /\ \A d \in Endpoints \ {ep} : Entry(d)' = Entry(d)
  BY <1>3, <1>4, <1>5, <1>11, OneEntry
<1>13. /\ hasmsg' \in [Procs -> BOOLEAN] /\ hasmsg'[p] = FALSE
       /\ \A q \in Procs : q # p => hasmsg'[q] = hasmsg[q]
  BY <1>3, <1>4 DEF Types
<1>14. Types'
  <2>1. ProcAt(p)' BY <1>3, <1>6, <1>8 DEF ProcAt
  <2>2. MessageFor(p)' BY <1>13 DEF MessageFor
  <2>3. leaked' \in Nat /\ mine' \in [Procs -> SUBSET Endpoints] /\ fault' \in Faults \cup {"none"}
    BY <1>3, <1>4 DEF Types, FaultIf, Faults
  <2>4. \A q \in Procs \cap {p} : ProcAt(q)' /\ MessageFor(q)' BY <2>1, <2>2
  <2>5. \A q \in Procs \ {p} : hasmsg'[q] = hasmsg[q] /\ mine'[q] = mine[q] BY <1>3, <1>13
  <2> QED BY <1>3, <1>4, <1>8, <1>12, <1>13, <2>3, <2>4, <2>5, TypesStay
<1>15. Entry(ep).state = "used" /\ \A q \in Procs : Owns(q, ep) => q = p
  BY <1>3, <1>5, NotRead DEF Owns
<1>16. \A q \in Procs : q # p => pc'[q] = pc[q] BY <1>8 DEF Actors
<1>17. Owned'
  <2>1. /\ \A q \in Procs : mine'[q] = mine[q]
        /\ \A q \in Procs : (pc'[q].at \in Filling <=> pc[q].at \in Filling)
        /\ \A q \in Procs : pc[q].at \in Filling => pc'[q].ep = pc[q].ep
    BY <1>3, <1>5, <1>6, <1>8, <1>16
  <2>2. \A d \in Endpoints : Entry(d)'.state = "free" <=> Entry(d).state = "free"
    BY <1>10, <1>12, <1>15
  <2> QED BY <1>4, <2>1, <2>2, OwnersStay
<1>18. PidReads(ep)'
  <2>1. Entry(ep)'.pid = p /\ Reads(p, ep)' BY <1>6, <1>8, <1>10, <1>12 DEF Reads
  <2> QED BY <2>1 DEF PidReads, Reads
<1>19. Told(p)'
  <2>1. pc'[p].ep = ep /\ Entry(ep)'.state = "recv" /\ Entry(ep)'.pid = p /\ Entry(ep)'.count = 0
    BY <1>3, <1>6, <1>8, <1>10, <1>12
  <2> QED BY <2>1 DEF Told, Entry
<1>20. (\A d \in Endpoints : PidReads(d))' /\ ReaderTold'
  BY <1>3, <1>5, <1>8, <1>12, <1>16, <1>18, <1>19, OthersRead
<1>21. Room'
  <2>1. \A d \in Endpoints : Full(Entry(d)') BY <1>4, <1>5, <1>10, <1>12 DEF Room, Full, Filled
  <2> QED BY <1>3, <1>4, <1>8, <2>1, RoomThen
<1>22. Summed'
  <2>1. Cardinality(InRings') + 0 = Cardinality(InRings) + 0 /\ Cardinality(InRings') \in Nat
    BY <1>3, <1>4, <1>5, <1>10, <1>12, RingChanged
  <2>2. leaked' = leaked + 0 /\ 0 + 0 = 0 /\ 0 \in Nat
    <3>1. leaked \in Nat BY <1>4 DEF Types
    <3>2. leaked' = leaked BY <1>3
    <3> QED BY <3>1, <3>2
  <2> QED BY <1>3, <1>8, <2>1, <2>2, SumStays
<1> QED BY <1>8, <1>14, <1>17, <1>20, <1>21, <1>22, InvThen

(* n buffers are freed, and the actors are then at the places `new`. *)
GaveBack(n, new) ==
    /\ Placed(new)
    /\ Holds(pool', AskIn(new)) /\ IsFiniteSet(GetIn(new)) /\ UnsentIn(new) = UnsentIn(pc)
    /\ Tokens(pool') + Cardinality(GetIn(new)) = Tokens(pool) + Cardinality(GetIn(pc)) + n
    /\ new["icmp_out"] = pc["icmp_out"]
    /\ new["netin"].call = pc["netin"].call /\ new["netin"].ep = pc["netin"].ep
    /\ \A a \in Actors :
           \/ new[a] = pc[a]
           \/ /\ pc[a].at = "wait" /\ new[a].at = "woken"
              /\ new[a].call = pc[a].call /\ new[a].ep = pc[a].ep
    /\ \A q \in Procs :
           new[q] = pc[q] \/ (pc[q].call = "send" /\ new[q].call = "send" /\ new[q].at = "woken"
                              /\ pc[q].at = "wait")

LEMMA FreedAll ==
    ASSUME NetInv, Sane, NEW n \in Nat, NEW new, new = Wake(pc, Released(pool, n)),
           pool' = SignalnOn(pool, n)
    PROVE  GaveBack(n, new)
<1>1. Placed(pc) /\ Sems /\ IcmpOutAt /\ \A q \in Procs : ProcAt(q) /\ q \in Actors BY Parts
<1>2. /\ Placed(new) /\ Holds(pool', AskIn(new)) /\ IsFiniteSet(GetIn(new))
      /\ UnsentIn(new) = UnsentIn(pc)
      /\ Tokens(pool') + Cardinality(GetIn(new)) = Tokens(pool) + Cardinality(GetIn(pc)) + n
      /\ \A a \in Actors :
             \/ new[a] = pc[a]
             \/ /\ Asks(pc[a]) /\ Gets(new[a]) /\ new[a].at = "woken"
                /\ new[a].call = pc[a].call /\ new[a].ep = pc[a].ep
  <2>1. PICK place, sem : place = pc /\ sem = pool OBVIOUS
  <2>2. Placed(place) /\ Holds(sem, AskIn(place)) /\ IsFiniteSet(GetIn(place))
        /\ new = Wake(place, Released(sem, n)) /\ pool' = SignalnOn(sem, n)
    BY <1>1, <2>1 DEF Sems
  <2>3. /\ Placed(new) /\ Holds(pool', AskIn(new)) /\ IsFiniteSet(GetIn(new))
        /\ UnsentIn(new) = UnsentIn(place)
        /\ Tokens(pool') + Cardinality(GetIn(new)) = Tokens(sem) + Cardinality(GetIn(place)) + n
        /\ \A a \in Actors :
               \/ new[a] = place[a]
               \/ /\ Asks(place[a]) /\ Gets(new[a]) /\ new[a].at = "woken"
                  /\ new[a].call = place[a].call /\ new[a].ep = place[a].ep
    BY ONLY <2>2, n \in Nat, Freed
  <2> QED BY <2>1, <2>3
<1>3. new["icmp_out"] = pc["icmp_out"] BY <1>1, <1>2, Constants DEF IcmpOutAt, Asks
<1>4. new["netin"].call = pc["netin"].call /\ new["netin"].ep = pc["netin"].ep
  BY <1>2, Constants
<1>5. \A a \in Actors : \/ new[a] = pc[a]
                        \/ /\ pc[a].at = "wait" /\ new[a].at = "woken"
                           /\ new[a].call = pc[a].call /\ new[a].ep = pc[a].ep
  <2>1. \A a \in Actors : Asks(pc[a]) => pc[a].at = "wait" BY DEF Asks
  <2> QED BY <1>2, <2>1
<1>6. \A q \in Procs : pc[q].at = "wait" => pc[q].call = "send" BY <1>1 DEF ProcAt
<1>7. \A q \in Procs :
          new[q] = pc[q] \/ (pc[q].call = "send" /\ new[q].call = "send" /\ new[q].at = "woken"
                             /\ pc[q].at = "wait")
  BY <1>1, <1>5, <1>6
<1> QED BY <1>2, <1>3, <1>4, <1>5, <1>7 DEF GaveBack

LEMMA FreedNone ==
    ASSUME NetInv, Sane, UNCHANGED pool
    PROVE  GaveBack(0, pc)
<1>1. Placed(pc) /\ Sems BY Parts
<1>2. Tokens(pool) \in Nat /\ Cardinality(GetIn(pc)) \in Nat BY Parts, SumNow
<1>3. Tokens(pool') + Cardinality(GetIn(pc)) = Tokens(pool) + Cardinality(GetIn(pc)) + 0 BY <1>2
<1> QED BY <1>1, <1>3 DEF GaveBack, Sems

LEMMA SumFreed ==
    ASSUME NetInv, Sane, NEW m \in Nat, NEW k \in Nat, NEW n \in Nat, k + n = m,
           Cardinality(InRings') + m = Cardinality(InRings) + k, Cardinality(InRings') \in Nat,
           Tokens(pool') + Cardinality(GetIn(pc')) = Tokens(pool) + Cardinality(GetIn(pc)) + n,
           leaked' = leaked, InOutq' = InOutq, Sending' = Sending, Spare' = Spare,
           Holds(pool', AskIn(pc')), IsFiniteSet(GetIn(pc'))
    PROVE  Summed'
<1>1. /\ Tokens(pool) + Cardinality(GetIn(pc)) + Cardinality(InRings) + InOutq + Sending + Spare
               + leaked = PoolSize
      /\ Tokens(pool) \in Nat /\ Cardinality(GetIn(pc)) \in Nat /\ Cardinality(InRings) \in Nat
      /\ InOutq \in Nat /\ Sending \in {0, 1} /\ Spare \in {0, 1} /\ leaked \in Nat
  BY Parts, SumNow
<1>2. Tokens(pool') \in Nat
  <2>1. pool'.count \in Int BY DEF Holds
  <2> QED BY <2>1 DEF Tokens
<1>3. Cardinality(GetIn(pc')) \in Nat BY FS_CardinalityType
<1>4. Tokens(pool') + Cardinality(GetIn(pc')) + Cardinality(InRings')
          = Tokens(pool) + Cardinality(GetIn(pc)) + Cardinality(InRings)
  BY <1>1, <1>2, <1>3
<1> QED BY <1>1, <1>2, <1>3, <1>4, SumThen

(* One packet is taken out of a ring that has some. *)
LEMMA DequeuedEntry ==
    ASSUME NEW proto \in Protos, NEW e, IsEntry(e, proto), e.count > 0
    PROVE  LET f == Dequeued(e, proto)
           IN  /\ IsEntry(f, proto) /\ f.state = e.state /\ f.pid = e.pid /\ f.count + 1 = e.count
               /\ Full(e) /\ e.head \in Filled(e) => Full(f)
<1> DEFINE h == IF e.head + 1 >= Cardinality(Slots(proto)) THEN 0 ELSE e.head + 1
           q == [i \in DOMAIN e.queue |-> e.queue[i] /\ i # e.head]
           f == Dequeued(e, proto)
<1>1. e = [state |-> e.state, key |-> e.key, count |-> e.count, head |-> e.head,
           tail |-> e.tail, pid |-> e.pid, queue |-> e.queue]
  BY DEF IsEntry
<1>2. f = [e EXCEPT !.head = h, !.count = e.count - 1, !.queue = q] BY <1>1 DEF Dequeued
<1>3. f = [state |-> e.state, key |-> e.key, count |-> e.count - 1, head |-> h,
           tail |-> e.tail, pid |-> e.pid, queue |-> q]
  BY <1>1, <1>2
<1>4. /\ f.state = e.state /\ f.pid = e.pid /\ f.count = e.count - 1 /\ f.head = h /\ f.tail = e.tail
      /\ f.queue = q
      /\ f = [state |-> f.state, key |-> f.key, count |-> f.count, head |-> f.head,
              tail |-> f.tail, pid |-> f.pid, queue |-> f.queue]
  BY <1>3
<1>5. QSize(proto) \in Nat \ {0} /\ Cardinality(Slots(proto)) \in Nat \ {0} BY OneProto
<1>6. /\ e.count \in 0 .. QSize(proto) + 1 /\ e.head \in Nat /\ e.tail \in 0 .. QSize(proto) - 1
      /\ e.queue \in [0 .. QSize(proto) - 1 -> BOOLEAN]
  BY DEF IsEntry
<1>7. h \in Nat /\ h < Cardinality(Slots(proto)) BY <1>5, <1>6
<1>8. e.count - 1 \in 0 .. QSize(proto) + 1 /\ e.count - 1 + 1 = e.count BY <1>5, <1>6
<1>9. /\ q \in [0 .. QSize(proto) - 1 -> BOOLEAN]
      /\ \A j \in 0 .. QSize(proto) - 1 : q[j] <=> e.queue[j] /\ j # e.head
  BY <1>6
<1> HIDE DEF f, h, q
<1>10. IsEntry(f, proto) BY <1>4, <1>6, <1>7, <1>8, <1>9 DEF IsEntry
<1>11. ASSUME Full(e), e.head \in Filled(e) PROVE Full(f)
  <2>1. e.head \in 0 .. QSize(proto) - 1 /\ e.queue[e.head] BY <1>6, <1>11 DEF Filled
  <2>2. ~q[e.head] /\ \A j \in 0 .. QSize(proto) - 1 : e.queue[j] <=> j = e.head \/ q[j]
    BY <1>9, <2>1
  <2>3. Cardinality(Marked(e.queue)) = Cardinality(Marked(q)) + 1
    <3>1. PICK n, r, k : n = QSize(proto) /\ r = e.queue /\ k = e.head OBVIOUS
    <3>2. /\ n \in Nat /\ q \in [0 .. n - 1 -> BOOLEAN] /\ r \in [0 .. n - 1 -> BOOLEAN]
          /\ k \in 0 .. n - 1 /\ ~q[k] /\ \A j \in 0 .. n - 1 : r[j] <=> j = k \/ q[j]
      BY <1>5, <1>6, <1>9, <2>1, <2>2, <3>1
    <3>3. Cardinality(Marked(r)) = Cardinality(Marked(q)) + 1 BY ONLY <3>2, OneMarked
    <3> QED BY <3>1, <3>3
  <2>4. Cardinality(Marked(q)) \in Nat BY <1>5, <1>9, MarkedFinite
  <2>5. Filled(e) = Marked(e.queue) /\ Filled(f) = Marked(q) BY <1>4, <1>10, RingFilled
  <2> QED BY <1>4, <1>11, <2>3, <2>4, <2>5 DEF Full
<1>12. Full(e) /\ e.head \in Filled(e) => Full(f) BY <1>11
<1> QED BY <1>4, <1>8, <1>10, <1>12 DEF f

(* Nothing that the send side counts changes. *)
LEMMA OutStays ==
    ASSUME Sems, UNCHANGED icosem, pc'["icmp_out"] = pc["icmp_out"], pc'["netin"].call = pc["netin"].call,
           Holds(pool', AskIn(pc')), IsFiniteSet(GetIn(pc'))
    PROVE  Sems' /\ InOutq' = InOutq /\ Sending' = Sending /\ Spare' = Spare
<1>1. Holds(icosem, WaitsForOut) BY DEF Sems
<1>2. WaitsForOut' = WaitsForOut BY DEF WaitsForOut
<1>3. Holds(icosem', WaitsForOut') BY <1>1, <1>2
<1>4. Sems' BY <1>3 DEF Sems, Holds, AskIn, GetIn
<1> QED BY <1>4 DEF InOutq, Sending, Spare, Tokens

LEMMA RecvStep ==
    ASSUME NetInv, NEW p \in Procs, NEW ep \in mine[p], Recv(p, ep)
    PROVE  NetInv'
<1>1. PICK e : e = Dequeued(Entry(ep), ep[1]) OBVIOUS
<1>2. /\ Sane /\ pc[p] = Idle /\ Entry(ep).count # 0
      /\ tab' = [tab EXCEPT ![ep[1]][ep[2]] = e]
      /\ pool' = SignalnOn(pool, 1) /\ pc' = Wake(pc, Released(pool, 1))
      /\ FaultIf("wrong read", Hidden(ep, {"free", "used", "recv"}) \/ Entry(ep).head \notin Filled(Entry(ep)))
      /\ UNCHANGED <<icoutq, icosem, hasmsg, mine, leaked>>
  BY <1>1 DEF Recv, AtUser, Runs, Entry
<1>3. /\ Types /\ Sems /\ Owned /\ Room /\ ReaderTold /\ \A d \in Endpoints : PidReads(d)
  BY <1>2, Parts
<1>4. ep \in Endpoints /\ pc[p].at = "user" /\ pc[p].call = "none" /\ ep[1] \in Protos
  BY <1>2, <1>3, IdlePlace, OneEndpoint DEF Types
<1>5. IsEntry(Entry(ep), ep[1]) /\ Entry(ep).count \in Nat BY <1>3, <1>4, EntryTyped DEF IsEntry
<1>6. /\ IsEntry(e, ep[1]) /\ e.state = Entry(ep).state /\ e.pid = Entry(ep).pid
      /\ e.count + 1 = Entry(ep).count /\ e.count \in Nat
      /\ Full(Entry(ep)) /\ Entry(ep).head \in Filled(Entry(ep)) => Full(e)
  <2>1. Entry(ep).count > 0
    <3>1. PICK n \in Nat : n = Entry(ep).count BY <1>5
    <3>2. n # 0 BY <1>2, <3>1
    <3> QED BY <3>1, <3>2
  <2>2. PICK d : d = Entry(ep) OBVIOUS
  <2>3. /\ IsEntry(e, ep[1]) /\ e.state = d.state /\ e.pid = d.pid /\ e.count + 1 = d.count
        /\ Full(d) /\ d.head \in Filled(d) => Full(e)
    BY <1>1, <1>4, <1>5, <2>1, <2>2, DequeuedEntry
  <2> QED BY <2>2, <2>3 DEF IsEntry
<1>7. /\ IsTable(tab') /\ Entry(ep)' = e
      /\ \A d \in Endpoints \ {ep} : Entry(d)' = Entry(d)
  BY <1>2, <1>3, <1>4, <1>6, OneEntry
<1>8. /\ Placed(pc') /\ Holds(pool', AskIn(pc')) /\ IsFiniteSet(GetIn(pc'))
      /\ UnsentIn(pc') = UnsentIn(pc)
      /\ Tokens(pool') + Cardinality(GetIn(pc')) = Tokens(pool) + Cardinality(GetIn(pc)) + 1
      /\ pc'["icmp_out"] = pc["icmp_out"]
      /\ pc'["netin"].call = pc["netin"].call /\ pc'["netin"].ep = pc["netin"].ep
      /\ \A a \in Actors : Stays(a)
      /\ \A q \in Procs :
             pc'[q] = pc[q] \/ (pc[q].call = "send" /\ pc'[q].call = "send" /\ pc'[q].at = "woken"
                                /\ pc[q].at = "wait")
  <2>1. 1 \in Nat OBVIOUS
  <2>2. GaveBack(1, pc') BY <1>2, <2>1, FreedAll
  <2> QED BY <2>2 DEF GaveBack, Stays
<1>9. Types'
  <2>1. leaked' \in Nat /\ mine' \in [Procs -> SUBSET Endpoints] /\ fault' \in Faults \cup {"none"}
        /\ hasmsg' \in [Procs -> BOOLEAN]
    BY <1>2, <1>3 DEF Types, FaultIf, Faults
  <2>2. PICK S : S = {} OBVIOUS
  <2>3. /\ \A a \in Actors \ S : Stays(a)
        /\ \A q \in Procs \ S : hasmsg'[q] = hasmsg[q] /\ mine'[q] = mine[q]
        /\ Procs \cap S = {} /\ "netin" \notin S /\ "icmp_out" \notin S
    BY <1>2, <1>8, <2>2
  <2> QED BY <1>2, <1>3, <1>7, <1>8, <2>1, <2>3, TypesStay
<1>10. Sems' /\ InOutq' = InOutq /\ Sending' = Sending /\ Spare' = Spare
  BY <1>2, <1>3, <1>8, OutStays
<1>11. Entry(ep).state = "used" BY <1>2, <1>4, NotRead DEF Owns
<1>12. Owned'
  <2>1. /\ \A q \in Procs : mine'[q] = mine[q]
        /\ \A q \in Procs : (pc'[q].at \in Filling <=> pc[q].at \in Filling)
        /\ \A q \in Procs : pc[q].at \in Filling => pc'[q].ep = pc[q].ep
    BY <1>2, <1>8
  <2>2. \A d \in Endpoints : Entry(d)'.state = "free" <=> Entry(d).state = "free" BY <1>6, <1>7
  <2> QED BY <1>3, <2>1, <2>2, OwnersStay
<1>13. (\A d \in Endpoints : PidReads(d))' /\ ReaderTold'
  <2>1. \A q \in Procs : ProcAt(q)' BY <1>9 DEF Types
  <2>2. \A q \in Procs : pc'[q] = pc[q] \/ (pc[q].call # "recv" /\ pc'[q].call # "recv") BY <1>8
  <2>3. /\ \A d \in Endpoints : Entry(d)'.state = "recv" <=> Entry(d).state = "recv"
        /\ \A d \in Endpoints : Entry(d).state = "recv" =>
               Entry(d)'.pid = Entry(d).pid /\ (Entry(d)'.count > 0 => Entry(d).count > 0)
    BY <1>6, <1>7, <1>11
  <2> QED BY <1>2, <1>3, <1>8, <2>1, <2>2, <2>3, ReadersStay
<1>14. ASSUME Sane' PROVE Room'
  <2>1. Entry(ep).head \in Filled(Entry(ep)) BY <1>2, <1>14 DEF FaultIf, Sane
  <2>2. \A d \in Endpoints : Full(Entry(d)') BY <1>3, <1>4, <1>6, <1>7, <2>1 DEF Room
  <2> QED BY <1>2, <1>3, <1>8, <1>10, <2>2, RoomThen
<1>15. Summed'
  <2>1. PICK m, k : m = Entry(ep).count /\ k = e.count OBVIOUS
  <2>2. /\ Cardinality(InRings') + m = Cardinality(InRings) + k /\ Cardinality(InRings') \in Nat
        /\ m \in Nat /\ k \in Nat
    BY <1>3, <1>4, <1>7, <2>1, RingChanged
  <2>3. k + 1 = m /\ 1 \in Nat BY <1>6, <2>1
  <2> QED BY <1>2, <1>8, <1>10, <2>2, <2>3, SumFreed
<1> QED BY <1>9, <1>10, <1>12, <1>13, <1>14, <1>15, InvThen

LEMMA ReleaseStep ==
    ASSUME NetInv, NEW p \in Procs, NEW ep \in mine[p], Release(p, ep)
    PROVE  NetInv'
<1>0. PICK n : n = Entry(ep).count OBVIOUS
<1>1. PICK e : e = [Emptied(Entry(ep)) EXCEPT
                        !.state = "free", !.head = (Entry(ep).head + n) % Cardinality(Slots(ep[1]))]
  OBVIOUS
<1>2. /\ Sane /\ pc[p] = Idle
      /\ tab' = [tab EXCEPT ![ep[1]][ep[2]] = e]
      /\ pool' = SignalnOn(pool, n) /\ pc' = Wake(pc, Released(pool, n))
      /\ mine' = [mine EXCEPT ![p] = @ \ {ep}]
      /\ fault' \in {"wrong read", fault}
      /\ UNCHANGED <<icoutq, icosem, hasmsg, leaked>>
  BY <1>0, <1>1 DEF Release, AtUser, Runs, Entry, FaultIf
<1>3. /\ Types /\ Sems /\ Owned /\ Room /\ ReaderTold /\ \A d \in Endpoints : PidReads(d)
      /\ MessageFor(p)
  BY <1>2, Parts
<1>4. ep \in Endpoints /\ pc[p].at = "user" /\ pc[p].call = "none" /\ ep[1] \in Protos
  BY <1>2, <1>3, IdlePlace, OneEndpoint DEF Types
<1>5. IsEntry(Entry(ep), ep[1]) /\ n \in Nat BY <1>0, <1>3, <1>4, EntryTyped DEF IsEntry
<1>6. QSize(ep[1]) \in Nat \ {0} /\ Cardinality(Slots(ep[1])) \in Nat \ {0} BY <1>4, OneProto
<1>7. PICK h : h = (Entry(ep).head + n) % Cardinality(Slots(ep[1])) OBVIOUS
<1>8. h \in Nat /\ h < Cardinality(Slots(ep[1]))
  <2>1. PICK x \in Nat : x = Entry(ep).head + n BY <1>5 DEF IsEntry
  <2>2. PICK y \in Nat \ {0} : y = Cardinality(Slots(ep[1])) BY <1>6
  <2>3. x % y \in 0 .. y - 1 OBVIOUS
  <2> QED BY <1>7, <2>1, <2>2, <2>3
<1>9. PICK was, rest : was = Entry(ep) /\ rest = Emptied(was) OBVIOUS
<1>10. IsEntry(e, ep[1]) /\ Full(e) /\ e.state = "free" /\ e.count = 0
  <2>1. IsEntry(rest, ep[1]) /\ Full(rest) /\ rest.count = 0 BY <1>4, <1>5, <1>9, EmptyRing
  <2>2. rest = [state |-> rest.state, key |-> rest.key, count |-> rest.count, head |-> rest.head,
                tail |-> rest.tail, pid |-> rest.pid, queue |-> rest.queue]
    BY <2>1 DEF IsEntry
  <2>3. e = [rest EXCEPT !.state = "free", !.head = h] BY <1>1, <1>7, <1>9
  <2>4. e = [state |-> "free", key |-> rest.key, count |-> rest.count, head |-> h,
             tail |-> rest.tail, pid |-> rest.pid, queue |-> rest.queue]
    BY <2>2, <2>3
  <2>5. /\ e.state = "free" /\ e.count = rest.count /\ e.head = h /\ e.tail = rest.tail
        /\ e.queue = rest.queue
        /\ e = [state |-> e.state, key |-> e.key, count |-> e.count, head |-> e.head,
                tail |-> e.tail, pid |-> e.pid, queue |-> e.queue]
    BY <2>4
  <2>6. IsEntry(e, ep[1]) BY <1>8, <2>1, <2>5 DEF IsEntry
  <2>7. Full(e) BY <2>1, <2>5 DEF Full, Filled
  <2> QED BY <2>1, <2>5, <2>6, <2>7
<1>11. /\ IsTable(tab') /\ Entry(ep)' = e
       /\ \A d \in Endpoints \ {ep} : Entry(d)' = Entry(d)
  BY <1>2, <1>3, <1>4, <1>10, OneEntry
<1>12. GaveBack(n, pc') BY <1>2, <1>5, FreedAll
<1>13. /\ Placed(pc') /\ Holds(pool', AskIn(pc')) /\ IsFiniteSet(GetIn(pc'))
       /\ UnsentIn(pc') = UnsentIn(pc)
       /\ Tokens(pool') + Cardinality(GetIn(pc')) = Tokens(pool) + Cardinality(GetIn(pc)) + n
       /\ pc'["icmp_out"] = pc["icmp_out"]
       /\ pc'["netin"].call = pc["netin"].call /\ pc'["netin"].ep = pc["netin"].ep
       /\ \A a \in Actors : Stays(a)
       /\ \A q \in Procs :
              pc'[q] = pc[q] \/ (pc[q].call = "send" /\ pc'[q].call = "send" /\ pc'[q].at = "woken"
                                 /\ pc[q].at = "wait")
  BY <1>12 DEF GaveBack, Stays
<1>14. /\ mine' \in [Procs -> SUBSET Endpoints] /\ mine'[p] = mine[p] \ {ep}
       /\ \A q \in Procs : q # p => mine'[q] = mine[q]
       /\ pc'[p] = pc[p]
  BY <1>2, <1>3, <1>4, <1>13 DEF Types
<1>15. Types'
  <2>1. ProcAt(p)' BY <1>4, <1>14 DEF ProcAt
  <2>2. MessageFor(p)' BY <1>2, <1>3, <1>14 DEF MessageFor
  <2>3. leaked' \in Nat /\ fault' \in Faults \cup {"none"} /\ hasmsg' \in [Procs -> BOOLEAN]
    BY <1>2, <1>3 DEF Types, Faults
  <2>4. \A q \in Procs \cap {p} : ProcAt(q)' /\ MessageFor(q)' BY <2>1, <2>2
  <2>5. \A q \in Procs \ {p} : hasmsg'[q] = hasmsg[q] /\ mine'[q] = mine[q] BY <1>2, <1>14
  <2>6. "netin" \notin {p} /\ "icmp_out" \notin {p} BY Constants
  <2>7. \A a \in Actors \ {p} : Stays(a) BY <1>13
  <2> QED BY <1>2, <1>3, <1>11, <1>13, <1>14, <2>3, <2>4, <2>5, <2>6, <2>7, TypesStay
<1>16. Sems' /\ InOutq' = InOutq /\ Sending' = Sending /\ Spare' = Spare
  BY <1>2, <1>3, <1>13, OutStays
<1>17. \A q \in Procs : Owns(q, ep) => q = p BY <1>2, <1>4, NotRead DEF Owns
<1>18. Owned'
  <2>1. /\ \A d \in Endpoints, q, r \in Procs : Owns(q, d) /\ Owns(r, d) => q = r
        /\ \A d \in Endpoints : Entry(d).state # "free" <=> \E q \in Procs : Owns(q, d)
        /\ \A q \in Procs : pc[q].at \in Filling => pc[q].ep \notin mine[q]
    BY <1>3 DEF Owned
  <2>2. \A q \in Procs : (pc'[q].at \in Filling <=> pc[q].at \in Filling)
                         /\ (pc[q].at \in Filling => pc'[q].ep = pc[q].ep)
    BY <1>13
  <2>3. ~Fills(p, ep) BY <1>4 DEF Fills
  <2>4. \A d \in Endpoints, q \in Procs : Owns(q, d)' => Owns(q, d) BY <1>14, <2>2 DEF Owns, Fills
  <2>5. \A q \in Procs : ~Owns(q, ep)' BY <1>14, <1>17, <2>2, <2>3, <2>4, <1>4 DEF Owns, Fills
  <2>6. \A d \in Endpoints, q \in Procs : d # ep /\ Owns(q, d) => Owns(q, d)'
    BY <1>14, <2>2 DEF Owns, Fills
  <2>7. \A d \in Endpoints, q, r \in Procs : Owns(q, d)' /\ Owns(r, d)' => q = r BY <2>1, <2>4
  <2>8. \A d \in Endpoints : Entry(d)'.state # "free" <=> \E q \in Procs : Owns(q, d)'
    <3> SUFFICES ASSUME NEW d \in Endpoints
                 PROVE  Entry(d)'.state # "free" <=> \E q \in Procs : Owns(q, d)'
      OBVIOUS
    <3>1. CASE d = ep BY <3>1, <1>10, <1>11, <2>5
    <3>2. CASE d # ep BY <3>2, <1>11, <2>1, <2>4, <2>6
    <3> QED BY <3>1, <3>2
  <2>9. \A q \in Procs : pc'[q].at \in Filling => pc'[q].ep \notin mine'[q] BY <1>14, <2>1, <2>2
  <2> QED BY <2>7, <2>8, <2>9 DEF Owned
<1>19. (\A d \in Endpoints : PidReads(d))' /\ ReaderTold'
  <2>1. PidReads(ep)' BY <1>10, <1>11 DEF PidReads
  <2>2. Told(p)' BY <1>4, <1>14 DEF Told
  <2>3. \A q \in Procs : q # p => pc'[q] = pc[q] \/ (pc[q].call = "send" /\ pc'[q].at = "woken")
    BY <1>13
  <2> QED BY <1>2, <1>4, <1>11, <1>13, <2>1, <2>2, <2>3, OthersRead
<1>20. Room'
  <2>1. \A d \in Endpoints : Full(Entry(d)') BY <1>3, <1>10, <1>11 DEF Room
  <2> QED BY <1>2, <1>3, <1>13, <1>16, <2>1, RoomThen
<1>21. Summed'
  <2>1. /\ Cardinality(InRings') + n = Cardinality(InRings) + 0 /\ Cardinality(InRings') \in Nat
    BY <1>0, <1>3, <1>4, <1>10, <1>11, RingChanged
  <2>2. 0 + n = n /\ 0 \in Nat BY <1>5
  <2>3. leaked' = leaked BY <1>2
  <2> QED BY <1>2, <1>5, <1>13, <1>16, <2>1, <2>2, <2>3, SumFreed
<1> QED BY <1>15, <1>16, <1>18, <1>19, <1>20, <1>21, InvThen

(* The time limit or the message: the packet, if one is read, is freed. *)
LEMMA RecvWokenStep ==
    ASSUME NetInv, NEW p \in Procs, RecvWoken(p)
    PROVE  NetInv'
<1>1. PICK ep : ep = pc[p].ep OBVIOUS
<1>2. PICK e : e = ReadAfterWait(p, Entry(ep)) OBVIOUS
<1>3. PICK reads \in BOOLEAN : reads <=> hasmsg[p] /\ e.count > 0 OBVIOUS
<1>4. PICK f : f = IF reads THEN Dequeued(e, ep[1]) ELSE e OBVIOUS
<1>5. PICK R : R = IF reads THEN Released(pool, 1) ELSE {} OBVIOUS
<1>6. /\ Sane /\ pc[p].at = "woken" /\ pc[p].call = "recv"
      /\ hasmsg' = [hasmsg EXCEPT ![p] = FALSE]
      /\ FaultIf("wrong read", hasmsg[p] /\ (e.count = 0 \/ e.head \notin Filled(e)))
      /\ tab' = [tab EXCEPT ![ep[1]][ep[2]] = f]
      /\ pool' = IF reads THEN SignalnOn(pool, 1) ELSE pool
      /\ pc' = [Wake(pc, R) EXCEPT ![p] = Idle]
      /\ UNCHANGED <<icoutq, icosem, mine, leaked>>
  BY <1>1, <1>2, <1>3, <1>4, <1>5 DEF RecvWoken, Runs
<1>7. /\ Types /\ Sems /\ Owned /\ Room /\ ReaderTold /\ \A d \in Endpoints : PidReads(d)
      /\ ProcAt(p) /\ p \in Actors /\ Placed(pc)
  BY <1>6, Parts
<1>8. ep \in mine[p] /\ ep \in Endpoints /\ ep[1] \in Protos
  <2>1. ep \in mine[p] BY <1>1, <1>6, <1>7 DEF ProcAt
  <2> QED BY <1>7, <2>1, OneEndpoint DEF Types
<1>9. PICK d : d = Entry(ep) OBVIOUS
<1>10. IsEntry(d, ep[1]) /\ d.count \in Nat BY <1>7, <1>8, <1>9, EntryTyped DEF IsEntry
<1>11. /\ IsEntry(e, ep[1]) /\ e.state = "used"
       /\ e.count = d.count /\ e.queue = d.queue /\ e.head = d.head
  BY <1>2, <1>9, <1>10, StateChanged DEF ReadAfterWait
<1>12. PICK n \in Nat : n = IF reads THEN 1 ELSE 0 OBVIOUS
<1>13. /\ IsEntry(f, ep[1]) /\ f.state = "used" /\ f.count + n = d.count /\ f.count \in Nat
       /\ Full(e) /\ (reads => e.head \in Filled(e)) => Full(f)
  <2>1. CASE reads
    <3>1. /\ IsEntry(f, ep[1]) /\ f.state = e.state /\ f.count + 1 = e.count
          /\ Full(e) /\ e.head \in Filled(e) => Full(f)
      BY <2>1, <1>3, <1>4, <1>8, <1>11, DequeuedEntry
    <3> QED BY <2>1, <3>1, <1>11, <1>12 DEF IsEntry
  <2>2. CASE ~reads
    <3>1. f = e BY <2>2, <1>4
    <3> QED BY <2>2, <3>1, <1>10, <1>11, <1>12
  <2> QED BY <2>1, <2>2
<1>14. /\ IsTable(tab') /\ Entry(ep)' = f
       /\ \A c \in Endpoints \ {ep} : Entry(c)' = Entry(c)
  BY <1>6, <1>7, <1>8, <1>13, OneEntry
<1>15. PICK new : new = Wake(pc, R) OBVIOUS
<1>16. GaveBack(n, new)
  <2>1. CASE reads
    <3>1. new = Wake(pc, Released(pool, 1)) /\ pool' = SignalnOn(pool, 1) /\ n = 1 /\ 1 \in Nat
      BY <2>1, <1>5, <1>6, <1>12, <1>15
    <3> QED BY <1>6, <3>1, FreedAll
  <2>2. CASE ~reads
    <3>1. R = {} /\ pool' = pool /\ n = 0 BY <2>2, <1>5, <1>6, <1>12
    <3>2. Placed(new) /\ \A a \in Actors \ R : new[a] = pc[a] BY <1>7, <1>15, Woken
    <3>3. new = pc BY <1>7, <3>1, <3>2 DEF Placed
    <3> QED BY <1>6, <3>1, <3>3, FreedNone
  <2> QED BY <2>1, <2>2
<1>17. /\ Placed(new) /\ Holds(pool', AskIn(new)) /\ IsFiniteSet(GetIn(new))
       /\ UnsentIn(new) = UnsentIn(pc)
       /\ Tokens(pool') + Cardinality(GetIn(new)) = Tokens(pool) + Cardinality(GetIn(pc)) + n
       /\ new["icmp_out"] = pc["icmp_out"]
       /\ new["netin"].call = pc["netin"].call /\ new["netin"].ep = pc["netin"].ep
       /\ \A a \in Actors :
              \/ new[a] = pc[a]
              \/ /\ pc[a].at = "wait" /\ new[a].at = "woken"
                 /\ new[a].call = pc[a].call /\ new[a].ep = pc[a].ep
       /\ \A q \in Procs :
              new[q] = pc[q] \/ (pc[q].call = "send" /\ new[q].call = "send" /\ new[q].at = "woken"
                                 /\ pc[q].at = "wait")
  BY <1>16 DEF GaveBack
<1>18. new[p] = pc[p] BY <1>6, <1>17
<1>19. ~Asks(new[p]) /\ ~Gets(new[p]) BY <1>6, <1>18 DEF Asks, Gets
<1>20. Moves(new, p, Idle, pc') BY <1>6, <1>15 DEF Moves
<1>21. AskIn(pc') = AskIn(new) /\ GetIn(pc') = GetIn(new) /\ UnsentIn(pc') = UnsentIn(pc)
  BY <1>7, <1>17, <1>19, <1>20, IdlePlace, MovedElsewhere
<1>22. Placed(pc') /\ pc'[p] = Idle /\ \A b \in Actors \ {p} : pc'[b] = new[b]
  BY <1>7, <1>17, <1>20, IdlePlace, Moved
<1>23. pc'[p].at = "user" /\ pc'[p].call = "none" BY <1>22, IdlePlace
<1>24. "netin" \notin {p} /\ "icmp_out" \notin {p} /\ "netin" \in Actors /\ "icmp_out" \in Actors
  BY Constants
<1>25. \A a \in Actors \ {p} : Stays(a) BY <1>17, <1>22 DEF Stays
<1>26. \A q \in Procs : q # p => \/ pc'[q] = pc[q]
                                 \/ pc[q].call = "send" /\ pc'[q].call = "send" /\ pc'[q].at = "woken"
                                    /\ pc[q].at = "wait"
  BY <1>17, <1>22 DEF Actors
<1>27. /\ pc'["icmp_out"] = pc["icmp_out"]
       /\ pc'["netin"].call = pc["netin"].call /\ pc'["netin"].ep = pc["netin"].ep
  BY <1>17, <1>22, <1>24
<1>28. /\ hasmsg' \in [Procs -> BOOLEAN] /\ hasmsg'[p] = FALSE
       /\ \A q \in Procs : q # p => hasmsg'[q] = hasmsg[q]
  BY <1>6, <1>7 DEF Types
<1>29. Types'
  <2>1. ProcAt(p)' BY <1>23 DEF ProcAt
  <2>2. MessageFor(p)' BY <1>28 DEF MessageFor
  <2>3. leaked' \in Nat /\ mine' \in [Procs -> SUBSET Endpoints] BY <1>6, <1>7 DEF Types
  <2>4. fault' \in Faults \cup {"none"} BY <1>6, <1>7 DEF Types, FaultIf, Faults
  <2>5. \A q \in Procs \cap {p} : ProcAt(q)' /\ MessageFor(q)' BY <2>1, <2>2
  <2>6. \A q \in Procs \ {p} : hasmsg'[q] = hasmsg[q] /\ mine'[q] = mine[q] BY <1>6, <1>28
  <2> QED BY <1>6, <1>7, <1>14, <1>22, <1>24, <1>25, <1>28, <2>3, <2>4, <2>5, <2>6, TypesStay
<1>30. Sems' /\ InOutq' = InOutq /\ Sending' = Sending /\ Spare' = Spare
  <2>1. Holds(pool', AskIn(pc')) /\ IsFiniteSet(GetIn(pc')) BY <1>17, <1>21
  <2> QED BY <1>6, <1>7, <1>27, <2>1, OutStays
<1>31. Owns(p, ep) /\ Entry(ep).state # "free" BY <1>7, <1>8 DEF Owned, Owns
<1>32. Owned'
  <2>1. /\ \A q \in Procs : mine'[q] = mine[q]
        /\ \A q \in Procs : (pc'[q].at \in Filling <=> pc[q].at \in Filling)
        /\ \A q \in Procs : pc[q].at \in Filling => pc'[q].ep = pc[q].ep
    BY <1>6, <1>23, <1>26
  <2>2. \A c \in Endpoints : Entry(c)'.state = "free" <=> Entry(c).state = "free"
    BY <1>13, <1>14, <1>31
  <2> QED BY <1>7, <2>1, <2>2, OwnersStay
<1>33. (\A c \in Endpoints : PidReads(c))' /\ ReaderTold'
  <2>1. PidReads(ep)' BY <1>13, <1>14 DEF PidReads
  <2>2. Told(p)' BY <1>23 DEF Told
  <2>3. \A q \in Procs : q # p => pc'[q] = pc[q] \/ (pc[q].call = "send" /\ pc'[q].at = "woken")
    BY <1>26
  <2> QED BY <1>1, <1>6, <1>8, <1>14, <1>27, <2>1, <2>2, <2>3, OthersRead
<1>34. ASSUME Sane' PROVE Room'
  <2>1. Full(e) BY <1>7, <1>8, <1>9, <1>11 DEF Room, Full, Filled
  <2>2. reads => e.head \in Filled(e) BY <1>3, <1>6, <1>34 DEF FaultIf, Sane
  <2>3. \A c \in Endpoints : Full(Entry(c)') BY <1>7, <1>13, <1>14, <2>1, <2>2 DEF Room
  <2> QED BY <1>6, <1>7, <1>21, <1>30, <2>3, RoomThen
<1>35. Summed'
  <2>1. PICK m, k : m = d.count /\ k = f.count OBVIOUS
  <2>2. /\ Cardinality(InRings') + m = Cardinality(InRings) + k /\ Cardinality(InRings') \in Nat
        /\ m \in Nat /\ k \in Nat
    BY <1>7, <1>8, <1>9, <1>14, <2>1, RingChanged
  <2>3. k + n = m BY <1>13, <2>1
  <2>4. /\ Tokens(pool') + Cardinality(GetIn(pc')) = Tokens(pool) + Cardinality(GetIn(pc)) + n
        /\ Holds(pool', AskIn(pc')) /\ IsFiniteSet(GetIn(pc')) /\ leaked' = leaked
    BY <1>6, <1>17, <1>21
  <2> QED BY <1>6, <1>30, <2>2, <2>3, <2>4, SumFreed
<1> QED BY <1>29, <1>30, <1>32, <1>33, <1>34, <1>35, InvThen
----------------------------------------------------------------------------
(***************************************************************************)
(* Sending.                                                                *)
(***************************************************************************)
(* icmp_out() stays where it is, and so does icoutq. *)
LEMMA OutAsItWas ==
    ASSUME Sems, UNCHANGED icosem, pc'["icmp_out"] = pc["icmp_out"],
           Holds(pool', AskIn(pc')), IsFiniteSet(GetIn(pc'))
    PROVE  Sems' /\ InOutq' = InOutq /\ Sending' = Sending
<1>1. Holds(icosem, WaitsForOut) BY DEF Sems
<1>2. WaitsForOut' = WaitsForOut BY DEF WaitsForOut
<1>3. Holds(icosem', WaitsForOut') BY <1>1, <1>2
<1>4. Sems' BY <1>3 DEF Sems, Holds, AskIn, GetIn
<1> QED BY <1>4 DEF InOutq, Sending, Tokens

LEMMA UnsentCounted ==
    ASSUME NetInv, Sane
    PROVE  /\ IsFiniteSet(UnsentIn(pc)) /\ Cardinality(UnsentIn(pc)) \in Nat
           /\ InOutq \in Nat /\ UnsentIn(pc) \subseteq GetIn(pc)
<1>1. IsFiniteSet(GetIn(pc)) /\ InOutq \in Nat BY Parts, SumNow DEF Sems
<1>2. UnsentIn(pc) \subseteq GetIn(pc) BY DEF UnsentIn, GetIn, Unsent, Gets
<1> QED BY <1>1, <1>2, FS_Subset, FS_CardinalityType

(* One buffer went from the pool, or from netin, or into a ring. *)
LEMMA SumMoved ==
    ASSUME NetInv, Sane, NEW t \in Nat, NEW g \in Nat, NEW r \in Nat,
           t = Tokens(pool'), g = Cardinality(GetIn(pc')), r = Cardinality(InRings'),
           NEW s \in {0, 1}, s = Spare',
           t + g + r + s = Tokens(pool) + Cardinality(GetIn(pc)) + Cardinality(InRings) + Spare,
           leaked' = leaked, InOutq' = InOutq, Sending' = Sending
    PROVE  Summed'
<1>1. /\ Tokens(pool) + Cardinality(GetIn(pc)) + Cardinality(InRings) + InOutq + Sending + Spare
               + leaked = PoolSize
      /\ Tokens(pool) \in Nat /\ Cardinality(GetIn(pc)) \in Nat /\ Cardinality(InRings) \in Nat
      /\ InOutq \in Nat /\ Sending \in {0, 1} /\ Spare \in {0, 1} /\ leaked \in Nat
  BY Parts, SumNow
<1>2. t + g + r + InOutq + Sending + s + leaked = PoolSize BY <1>1
<1> QED BY <1>2, SumThen

(* A step that is not about endpoints. *)
LEMMA EndpointsStay ==
    ASSUME NetInv, Sane, Types', UNCHANGED <<tab, mine>>,
           \A q \in Procs :
               \/ pc'[q] = pc[q]
               \/ /\ pc[q].call # "recv" /\ pc'[q].call # "recv"
                  /\ pc[q].at \notin Filling /\ pc'[q].at \notin Filling,
           pc["netin"].call = "next" =>
               pc'["netin"].call = "next" /\ pc'["netin"].ep = pc["netin"].ep
    PROVE  Owned' /\ (\A ep \in Endpoints : PidReads(ep))' /\ ReaderTold'
<1>1. Types /\ Owned /\ ReaderTold /\ \A ep \in Endpoints : PidReads(ep) BY Parts
<1>2. \A ep \in Endpoints : Entry(ep)' = Entry(ep) BY DEF Entry
<1>3. Owned'
  <2>1. /\ \A q \in Procs : mine'[q] = mine[q]
        /\ \A q \in Procs : (pc'[q].at \in Filling <=> pc[q].at \in Filling)
        /\ \A q \in Procs : pc[q].at \in Filling => pc'[q].ep = pc[q].ep
    OBVIOUS
  <2> QED BY <1>1, <1>2, <2>1, OwnersStay
<1>4. \A q \in Procs : ProcAt(q)' BY DEF Types
<1>5. (\A ep \in Endpoints : PidReads(ep))' /\ ReaderTold' BY <1>1, <1>2, <1>4, ReadersStay
<1> QED BY <1>3, <1>5

(* icmp_out is told of a packet more. *)
LEMMA Signalled ==
    ASSUME NetInv, Sane, NEW place, Placed(place), place["icmp_out"] = pc["icmp_out"],
           icosem' = SignalnOn(icosem, 1), pc' = Wake(place, Released(icosem, 1))
    PROVE  /\ Placed(pc') /\ Holds(icosem', WaitsForOut')
           /\ InOutq' = InOutq + 1 /\ Sending' = Sending
           /\ AskIn(pc') = AskIn(place) /\ GetIn(pc') = GetIn(place)
           /\ UnsentIn(pc') = UnsentIn(place)
           /\ \A a \in Actors \ {"icmp_out"} : pc'[a] = place[a]
           /\ IcmpOutAt'
<1>1. Types /\ Sems /\ IcmpOutAt BY Parts
<1>2. PICK sem : sem = icosem OBVIOUS
<1>3. PICK new : new = pc' OBVIOUS
<1>4. /\ Holds(sem, {a \in {"icmp_out"} : place[a].at = "wait"})
      /\ place["icmp_out"].call = "none" /\ new = Wake(place, Released(sem, 1))
  BY <1>1, <1>2, <1>3 DEF Sems, WaitsForOut, IcmpOutAt
<1>5. /\ Placed(new)
      /\ Holds(SignalnOn(sem, 1), {a \in {"icmp_out"} : new[a].at = "wait"})
      /\ Tokens(SignalnOn(sem, 1)) + (IF new["icmp_out"].at = "woken" THEN 1 ELSE 0)
             = Tokens(sem) + (IF place["icmp_out"].at = "woken" THEN 1 ELSE 0) + 1
  BY ONLY <1>4, Placed(place), QueuedOut
<1>6. /\ AskIn(new) = AskIn(place) /\ GetIn(new) = GetIn(place) /\ UnsentIn(new) = UnsentIn(place)
      /\ \A a \in Actors \ {"icmp_out"} : new[a] = place[a]
      /\ new["icmp_out"].call = "none"
      /\ \/ new["icmp_out"] = place["icmp_out"]
         \/ place["icmp_out"].at = "wait" /\ new["icmp_out"].at = "woken"
  <2>1. AskIn(new) = AskIn(place) /\ GetIn(new) = GetIn(place) /\ UnsentIn(new) = UnsentIn(place)
    BY ONLY <1>4, Placed(place), QueuedOut
  <2>2. OutWoken(place, new) BY ONLY <1>4, Placed(place), QueuedOut
  <2> QED BY <2>1, <2>2 DEF OutWoken
<1>7. InOutq' = InOutq + 1 BY <1>2, <1>3, <1>5 DEF InOutq, Tokens
<1>8. Holds(icosem', WaitsForOut') BY <1>2, <1>3, <1>5 DEF WaitsForOut
<1>9. IcmpOutAt' /\ Sending' = Sending BY <1>1, <1>3, <1>6 DEF IcmpOutAt, Sending
<1> QED BY <1>3, <1>5, <1>6, <1>7, <1>8, <1>9

(* A packet is put into a place of icoutq that has none. *)
LEMMA OutStored ==
    ASSUME OutTyped, NEW i \in Nat, icoutq'.queue = Stored(i), icoutq'.head = icoutq.head,
           icoutq'.tail \in Nat,
           icoutq' = [queue |-> icoutq'.queue, head |-> icoutq'.head, tail |-> icoutq'.tail]
    PROVE  /\ OutTyped'
           /\ ~NoRoom(i) => Cardinality(Filled(icoutq')) = Cardinality(Filled(icoutq)) + 1
<1>1. PICK q, r : q = icoutq.queue /\ r = icoutq'.queue OBVIOUS
<1>2. q \in [0 .. ICMP_OQSIZ - 1 -> BOOLEAN] /\ ICMP_OQSIZ \in Nat BY <1>1, Constants DEF OutTyped
<1>3. /\ r \in [0 .. ICMP_OQSIZ - 1 -> BOOLEAN]
      /\ \A j \in 0 .. ICMP_OQSIZ - 1 : r[j] <=> j = i \/ q[j]
  BY <1>1, <1>2 DEF Stored
<1>4. OutTyped' BY <1>1, <1>3 DEF OutTyped
<1>5. ASSUME ~NoRoom(i)
      PROVE  Cardinality(Filled(icoutq')) = Cardinality(Filled(icoutq)) + 1
  <2>1. i \in 0 .. ICMP_OQSIZ - 1 /\ ~q[i] BY <1>1, <1>2, <1>5 DEF NoRoom, Filled
  <2>2. Cardinality(Marked(r)) = Cardinality(Marked(q)) + 1 BY <1>2, <1>3, <2>1, OneMarked
  <2>3. Filled(icoutq') = Marked(r) /\ Filled(icoutq) = Marked(q) BY <1>1 DEF Filled, Marked
  <2> QED BY <2>2, <2>3
<1> QED BY <1>4, <1>5

(* netin queues a packet: what QueueOut does. *)
LEMMA QueueOutDone ==
    ASSUME NetInv, Sane, NEW place, QueueOut(place)
    PROVE  /\ OutTyped' /\ fault' \in Faults \cup {"none"}
           /\ Sane' => Cardinality(Filled(icoutq')) = Cardinality(Filled(icoutq)) + 1
           /\ icosem' = SignalnOn(icosem, 1) /\ pc' = Wake(place, Released(icosem, 1))
<1>1. /\ FaultIf("overrun", NoRoom(icoutq.tail))
      /\ icoutq' = [icoutq EXCEPT !.queue = Stored(icoutq.tail),
                                  !.tail = IF @ + 1 >= ICMP_OQSIZ THEN 0 ELSE @ + 1]
      /\ icosem' = SignalnOn(icosem, 1) /\ pc' = Wake(place, Released(icosem, 1))
  BY DEF QueueOut
<1>2. Types /\ OutTyped BY Parts DEF Types
<1>3. PICK i, t : i = icoutq.tail /\ t = IF i + 1 >= ICMP_OQSIZ THEN 0 ELSE i + 1 OBVIOUS
<1>4. i \in Nat /\ t \in Nat BY <1>2, <1>3, Constants DEF OutTyped
<1>5. icoutq' = [queue |-> Stored(i), head |-> icoutq.head, tail |-> t]
  BY <1>1, <1>2, <1>3 DEF OutTyped
<1>6. /\ icoutq'.queue = Stored(i) /\ icoutq'.head = icoutq.head /\ icoutq'.tail \in Nat
      /\ icoutq' = [queue |-> icoutq'.queue, head |-> icoutq'.head, tail |-> icoutq'.tail]
  BY <1>4, <1>5
<1>7. /\ OutTyped'
      /\ ~NoRoom(i) => Cardinality(Filled(icoutq')) = Cardinality(Filled(icoutq)) + 1
  BY <1>2, <1>4, <1>6, OutStored
<1>8. fault' \in Faults \cup {"none"} BY <1>1, <1>2 DEF Types, Faults, FaultIf
<1>9. Sane' => ~NoRoom(i) BY <1>1, <1>3 DEF Sane, FaultIf
<1> QED BY <1>1, <1>7, <1>8, <1>9

(* The rest of the sum stays as it was, and icmp_out is told of a buffer. *)
LEMMA SumQueued ==
    ASSUME NetInv, Sane, UNCHANGED <<tab, leaked>>, NEW t \in Nat, NEW g \in Nat,
           t = Tokens(pool'), g = Cardinality(GetIn(pc')),
           t + g + 1 = Tokens(pool) + Cardinality(GetIn(pc)),
           InOutq' = InOutq + 1, Sending' = Sending, Spare' = Spare
    PROVE  Summed'
<1>1. /\ Tokens(pool) + Cardinality(GetIn(pc)) + Cardinality(InRings) + InOutq + Sending + Spare
               + leaked = PoolSize
      /\ Tokens(pool) \in Nat /\ Cardinality(GetIn(pc)) \in Nat /\ Cardinality(InRings) \in Nat
      /\ InOutq \in Nat /\ Sending \in {0, 1} /\ Spare \in {0, 1} /\ leaked \in Nat
  BY Parts, SumNow
<1>2. Cardinality(InRings') = Cardinality(InRings) BY RingsSame, Parts
<1>3. t + g + (InOutq + 1) = Tokens(pool) + Cardinality(GetIn(pc)) + InOutq BY <1>1
<1> QED BY <1>1, <1>2, <1>3, SumThen

(* What a step of a sender leaves alone, and what holds of its table. *)
LEMMA NoEndpoint ==
    ASSUME NetInv, Sane, UNCHANGED <<tab, hasmsg, mine, leaked>>
    PROVE  /\ IsTable(tab') /\ leaked' \in Nat /\ mine' \in [Procs -> SUBSET Endpoints]
           /\ hasmsg' \in [Procs -> BOOLEAN]
           /\ \A q \in Procs : hasmsg'[q] = hasmsg[q] /\ mine'[q] = mine[q]
           /\ \A ep \in Endpoints : Full(Entry(ep)')
BY Parts, TableStays DEF Types

LEMMA Sender ==
    ASSUME NEW a \in Procs \cup {"netin"}
    PROVE  /\ a \in Actors /\ a # "icmp_out" /\ "icmp_out" \in Actors /\ "netin" \in Actors
           /\ "netin" \notin Procs /\ "icmp_out" \notin Procs
BY Constants DEF Actors

(* A sender has no message. *)
LEMMA SenderMoves ==
    ASSUME NetInv, Sane, NEW a \in Procs \cup {"netin"}, UNCHANGED <<hasmsg, mine>>,
           pc[a].call # "recv",
           a \in Procs => ProcAt(a)', a = "netin" => NetinAt',
           \A b \in Actors \ {a, "icmp_out"} : pc'[b] = pc[b],
           pc'["icmp_out"] = pc["icmp_out"] \/ IcmpOutAt',
           icoutq' = icoutq \/ OutTyped',
           fault' \in Faults \cup {"none"}, IsTable(tab'), Placed(pc'), leaked' \in Nat
    PROVE  Types'
<1>1. Types BY Parts
<1>2. /\ a \in Actors /\ a # "icmp_out" /\ "icmp_out" \in Actors /\ "netin" \in Actors
      /\ "netin" \notin Procs /\ "icmp_out" \notin Procs
  BY Sender
<1>3. a \in Procs => ProcAt(a)' /\ MessageFor(a)'
  <2> SUFFICES ASSUME a \in Procs PROVE MessageFor(a)' OBVIOUS
  <2>1. MessageFor(a) BY <1>1 DEF Types
  <2>2. ~hasmsg'[a] BY <2>1 DEF MessageFor
  <2> QED BY <2>2 DEF MessageFor
<1>4. IcmpOutAt' BY <1>1 DEF Types, IcmpOutAt
<1>5. PICK S : S = {a, "icmp_out"} OBVIOUS
<1>6. /\ \A b \in Actors \ S : Stays(b)
      /\ \A q \in Procs \ S : hasmsg'[q] = hasmsg[q] /\ mine'[q] = mine[q]
      /\ \A q \in Procs \cap S : ProcAt(q)' /\ MessageFor(q)'
      /\ "netin" \in S => NetinAt'
  BY <1>2, <1>3, <1>5 DEF Stays
<1>7. hasmsg' \in [Procs -> BOOLEAN] /\ mine' \in [Procs -> SUBSET Endpoints] BY <1>1 DEF Types
<1> QED BY <1>1, <1>4, <1>6, <1>7, TypesStay

(* And it is at no endpoint. *)
LEMMA SenderApart ==
    ASSUME NetInv, Sane, Types', NEW a \in Procs \cup {"netin"}, UNCHANGED <<tab, mine>>,
           pc[a].call \in {"none", "send"}, pc'[a].call \in {"none", "send"},
           pc[a].at \notin Filling, pc'[a].at \notin Filling,
           \A b \in Actors \ {a, "icmp_out"} : pc'[b] = pc[b]
    PROVE  Owned' /\ (\A ep \in Endpoints : PidReads(ep))' /\ ReaderTold'
<1>1. /\ a \in Actors /\ "netin" \in Actors /\ "icmp_out" \notin Procs BY Sender
<1>2. \A q \in Procs : \/ pc'[q] = pc[q]
                       \/ /\ pc[q].call # "recv" /\ pc'[q].call # "recv"
                          /\ pc[q].at \notin Filling /\ pc'[q].at \notin Filling
  BY <1>1 DEF Actors
<1>3. pc["netin"].call = "next" => pc'["netin"] = pc["netin"] BY <1>1, Constants
<1> QED BY <1>2, <1>3, EndpointsStay

(* A sender waits for a buffer. *)
LEMMA SendWaits ==
    ASSUME NetInv, Sane, NEW a \in Procs \cup {"netin"}, pc[a] = Idle, ~(pool.count > 0),
           pool' = WaitOn(pool, a),
           pc' = [pc EXCEPT ![a] = [Idle EXCEPT !.at = "wait", !.call = "send"]],
           UNCHANGED <<tab, icoutq, icosem, hasmsg, mine, leaked, fault>>
    PROVE  NetInv'
<1>1. Types /\ Sems /\ Room /\ Summed /\ Placed(pc) BY Parts
<1>2. /\ a \in Actors /\ a # "icmp_out" /\ "icmp_out" \in Actors /\ "netin" \in Actors
      /\ "netin" \notin Procs /\ "icmp_out" \notin Procs
  BY Sender
<1>3. pc[a].at = "user" /\ pc[a].call = "none" /\ ~Asks(pc[a]) /\ ~Gets(pc[a]) BY IdlePlace
<1>4. Holds(pool, AskIn(pc)) /\ Holds(icosem, WaitsForOut) /\ IsFiniteSet(GetIn(pc)) BY <1>1 DEF Sems
<1>5. PICK x : x = [Idle EXCEPT !.at = "wait", !.call = "send"] OBVIOUS
<1>6. IsPlace(x) /\ x.at = "wait" /\ x.call = "send" /\ Asks(x) BY <1>5 DEF IsPlace, Idle, Asks
<1>7. Moves(pc, a, x, pc') BY <1>5 DEF Moves
<1>8. Placed(pc') /\ pc'[a] = x /\ \A b \in Actors \ {a} : pc'[b] = pc[b]
  <2>1. PICK old, new : old = pc /\ new = pc' OBVIOUS
  <2>2. Placed(old) /\ a \in Actors /\ IsPlace(x) /\ Moves(old, a, x, new) BY <1>1, <1>2, <1>6, <1>7, <2>1
  <2>3. Placed(new) /\ new[a] = x /\ \A b \in Actors \ {a} : new[b] = old[b] BY ONLY <2>2, Moved
  <2> QED BY <2>1, <2>3
<1>9. /\ Holds(pool', AskIn(pc')) /\ GetIn(pc') = GetIn(pc) /\ Tokens(pool') = Tokens(pool)
      /\ UnsentIn(pc') = UnsentIn(pc)
  <2>1. PICK place, sem, new : place = pc /\ sem = pool /\ new = pc' OBVIOUS
  <2>2. sem.count <= 0 BY <1>4, <2>1 DEF Holds
  <2>3. /\ Placed(place) /\ a \in Actors /\ ~Asks(place[a]) /\ ~Gets(place[a]) /\ IsPlace(x) /\ Asks(x)
        /\ Moves(place, a, x, new) /\ Holds(sem, AskIn(place))
    BY <1>1, <1>2, <1>3, <1>4, <1>6, <1>7, <2>1
  <2>4. /\ Holds(WaitOn(sem, a), AskIn(new)) /\ GetIn(new) = GetIn(place)
        /\ Tokens(WaitOn(sem, a)) = Tokens(sem) /\ UnsentIn(new) = UnsentIn(place)
    BY ONLY <2>2, <2>3, Asked
  <2> QED BY <2>1, <2>4
<1>10. pc'["icmp_out"] = pc["icmp_out"] BY <1>2, <1>8
<1>11. Types'
  <2>1. a \in Procs => ProcAt(a)' BY <1>6, <1>8 DEF ProcAt
  <2>2. a = "netin" => NetinAt' BY <1>6, <1>8 DEF NetinAt
  <2>3. fault' \in Faults \cup {"none"} BY <1>1 DEF Types
  <2>4. pc[a].call # "recv" BY <1>3
  <2>5. IsTable(tab') /\ leaked' \in Nat BY NoEndpoint
  <2>6. \A b \in Actors \ {a, "icmp_out"} : pc'[b] = pc[b] BY <1>8
  <2> QED BY <1>8, <1>10, <2>1, <2>2, <2>3, <2>4, <2>5, <2>6, SenderMoves
<1>12. Sems' /\ InOutq' = InOutq /\ Sending' = Sending /\ Spare' = Spare
  <2>1. WaitsForOut' = WaitsForOut BY <1>10 DEF WaitsForOut
  <2>2. Sems' BY <1>4, <1>9, <2>1 DEF Sems, Holds, AskIn, GetIn
  <2>3. Spare' = Spare BY <1>2, <1>3, <1>6, <1>8 DEF Spare
  <2> QED BY <1>10, <2>2, <2>3 DEF InOutq, Sending, Tokens
<1>13. Owned' /\ (\A d \in Endpoints : PidReads(d))' /\ ReaderTold'
  <2>1. /\ pc[a].call \in {"none", "send"} /\ pc'[a].call \in {"none", "send"}
        /\ pc[a].at \notin Filling /\ pc'[a].at \notin Filling
        /\ \A b \in Actors \ {a, "icmp_out"} : pc'[b] = pc[b]
    BY <1>3, <1>6, <1>8
  <2> QED BY <1>11, <2>1, SenderApart
<1>14. Room'
  <2>1. \A ep \in Endpoints : Full(Entry(ep)') BY NoEndpoint
  <2> QED BY <1>1, <1>9, <1>12, <2>1, RoomThen
<1>15. Summed'
  <2>1. /\ Cardinality(InRings') + 0 = Cardinality(InRings) + 0 /\ Cardinality(InRings') \in Nat
        /\ leaked' = leaked + 0 /\ 0 + 0 = 0 /\ 0 \in Nat
    BY TableStays
  <2> QED BY <1>9, <1>12, <2>1, SumStays
<1> QED BY <1>11, <1>12, <1>13, <1>14, <1>15, InvThen

(* netin gets its new buffer at once, and queues the other for icmp_out. *)
LEMMA EchoReplyStep ==
    ASSUME NetInv, EchoReply
    PROVE  NetInv'
<1> DEFINE a == "netin"
<1>1. /\ Sane /\ pc[a] = Idle /\ UNCHANGED <<tab, hasmsg, mine, leaked>>
      /\ IF pool.count > 0
         THEN pool' = Take(pool) /\ QueueOut(pc)
         ELSE /\ pool' = WaitOn(pool, a)
              /\ pc' = [pc EXCEPT ![a] = [Idle EXCEPT !.at = "wait", !.call = "send"]]
              /\ UNCHANGED <<icoutq, icosem, fault>>
  BY DEF EchoReply, Reading
<1>2. a \in Procs \cup {"netin"} OBVIOUS
<1>3. CASE ~(pool.count > 0) BY <1>1, <1>2, <1>3, SendWaits
<1>4. CASE pool.count > 0
  <2>1. pool' = Take(pool) /\ QueueOut(pc) BY <1>1, <1>4
  <2>2. Types /\ Sems /\ Room /\ Summed /\ Placed(pc) BY <1>1, Parts
  <2>3. Holds(pool, AskIn(pc)) /\ IsFiniteSet(GetIn(pc)) BY <2>2 DEF Sems
  <2>4. pc[a].at = "user" /\ pc[a].call = "none" BY <1>1, IdlePlace
  <2>5. /\ OutTyped' /\ fault' \in Faults \cup {"none"}
        /\ Sane' => Cardinality(Filled(icoutq')) = Cardinality(Filled(icoutq)) + 1
        /\ icosem' = SignalnOn(icosem, 1) /\ pc' = Wake(pc, Released(icosem, 1))
    BY <1>1, <2>1, QueueOutDone
  <2>6. /\ Placed(pc') /\ Holds(icosem', WaitsForOut')
        /\ InOutq' = InOutq + 1 /\ Sending' = Sending
        /\ AskIn(pc') = AskIn(pc) /\ GetIn(pc') = GetIn(pc) /\ UnsentIn(pc') = UnsentIn(pc)
        /\ \A b \in Actors \ {"icmp_out"} : pc'[b] = pc[b]
        /\ IcmpOutAt'
    <3>1. PICK place : place = pc OBVIOUS
    <3>2. /\ Placed(place) /\ place["icmp_out"] = pc["icmp_out"]
          /\ pc' = Wake(place, Released(icosem, 1))
      BY <2>2, <2>5, <3>1
    <3> QED BY <1>1, <2>5, <3>1, <3>2, Signalled
  <2>7. /\ Holds(pool', AskIn(pc')) /\ Tokens(pool') + 1 = Tokens(pool) /\ Tokens(pool') \in Nat
    <3>1. Holds(Take(pool), AskIn(pc)) /\ Tokens(Take(pool)) = Tokens(pool) - 1 /\ Tokens(pool) \in Nat
      BY <1>4, <2>3, TakeHolds
    <3>2. Tokens(pool) > 0 BY <1>4 DEF Tokens
    <3> QED BY <2>1, <2>6, <3>1, <3>2
  <2>8. pc'[a] = pc[a] BY <2>6, Constants
  <2>9. Types'
    <3>1. NetinAt' BY <2>4, <2>8 DEF NetinAt
    <3>2. a \notin Procs /\ pc[a].call # "recv" BY <2>4, Constants
    <3>3. IsTable(tab') /\ leaked' \in Nat BY <1>1, NoEndpoint
    <3> QED BY <1>1, <1>2, <2>5, <2>6, <3>1, <3>2, <3>3, SenderMoves
  <2>10. Sems' BY <2>3, <2>6, <2>7 DEF Sems, Holds, AskIn, GetIn
  <2>11. Owned' /\ (\A d \in Endpoints : PidReads(d))' /\ ReaderTold'
    <3>1. /\ pc[a].call \in {"none", "send"} /\ pc'[a].call \in {"none", "send"}
          /\ pc[a].at \notin Filling /\ pc'[a].at \notin Filling
      BY <2>4, <2>8
    <3> QED BY <1>1, <1>2, <2>6, <2>9, <3>1, SenderApart
  <2>12. ASSUME Sane' PROVE Room'
    <3>1. Cardinality(Filled(icoutq)) = InOutq + Cardinality(UnsentIn(pc)) BY <2>2 DEF Room, OutRing
    <3>2. InOutq \in Nat /\ Cardinality(UnsentIn(pc)) \in Nat BY <1>1, UnsentCounted
    <3>3. Cardinality(Filled(icoutq')) = InOutq' + Cardinality(UnsentIn(pc'))
      BY <2>5, <2>6, <2>12, <3>1, <3>2
    <3>4. \A ep \in Endpoints : Full(Entry(ep)') BY <1>1, NoEndpoint
    <3> QED BY <3>3, <3>4, RoomAgain
  <2>13. Summed'
    <3>1. PICK t, g : t = Tokens(pool') /\ g = Cardinality(GetIn(pc')) OBVIOUS
    <3>2. t \in Nat /\ g \in Nat /\ Tokens(pool) \in Nat /\ Cardinality(GetIn(pc)) \in Nat
      BY <1>1, <2>2, <2>6, <2>7, <3>1, SumNow
    <3>3. t + g + 1 = Tokens(pool) + Cardinality(GetIn(pc)) BY <2>6, <2>7, <3>1, <3>2
    <3>4. Spare' = Spare BY <2>8 DEF Spare
    <3> QED BY <1>1, <2>6, <3>1, <3>2, <3>3, <3>4, SumQueued
  <2> QED BY <2>9, <2>10, <2>11, <2>12, <2>13, InvThen
<1> QED BY <1>3, <1>4

(* A sender is done: its packet is in icoutq, and icmp_out told of it. *)
LEMMA SenderDone ==
    ASSUME NetInv, Sane, NEW a \in Procs \cup {"netin"}, pc[a].call = "send", pc[a].at # "wait",
           NEW place, place = [pc EXCEPT ![a] = Idle],
           icosem' = SignalnOn(icosem, 1), pc' = Wake(place, Released(icosem, 1)),
           icoutq' = icoutq \/ OutTyped', fault' \in Faults \cup {"none"},
           UNCHANGED <<tab, pool, hasmsg, mine, leaked>>,
           Sane' => Cardinality(Filled(icoutq')) = InOutq + 1 + Cardinality(UnsentIn(pc) \ {a})
    PROVE  NetInv'
<1>1. Types /\ Sems /\ Room /\ Summed /\ Placed(pc) BY Parts
<1>2. /\ a \in Actors /\ a # "icmp_out" /\ "icmp_out" \in Actors /\ "netin" \in Actors
      /\ "netin" \notin Procs /\ "icmp_out" \notin Procs
  BY Sender
<1>3. Holds(pool, AskIn(pc)) /\ Holds(icosem, WaitsForOut) /\ IsFiniteSet(GetIn(pc)) BY <1>1 DEF Sems
<1>4. Moves(pc, a, Idle, place) BY DEF Moves
<1>5. Placed(place) /\ place[a] = Idle /\ \A b \in Actors \ {a} : place[b] = pc[b]
  <2>1. PICK old : old = pc OBVIOUS
  <2>2. Placed(old) /\ a \in Actors /\ Moves(old, a, Idle, place) BY <1>1, <1>2, <1>4, <2>1
  <2>3. Placed(place) /\ place[a] = Idle /\ \A b \in Actors \ {a} : place[b] = old[b]
    BY ONLY <2>2, IdlePlace, Moved
  <2> QED BY <2>1, <2>3
<1>6. Gets(pc[a]) BY DEF Gets
<1>7. /\ AskIn(place) = AskIn(pc) /\ IsFiniteSet(GetIn(place))
      /\ Cardinality(GetIn(place)) + 1 = Cardinality(GetIn(pc))
      /\ UnsentIn(place) = UnsentIn(pc) \ {a}
  <2>1. PICK old : old = pc OBVIOUS
  <2>2. Placed(old) /\ IsFiniteSet(GetIn(old)) /\ Gets(old[a]) /\ Moves(old, a, Idle, place)
    BY <1>1, <1>3, <1>4, <1>6, <2>1
  <2>3. /\ AskIn(place) = AskIn(old) /\ IsFiniteSet(GetIn(place))
        /\ Cardinality(GetIn(place)) + 1 = Cardinality(GetIn(old))
        /\ UnsentIn(place) = UnsentIn(old) \ {a}
    BY ONLY <1>2, <2>2, IdlePlace, Used
  <2> QED BY <2>1, <2>3
<1>8. /\ Placed(pc') /\ Holds(icosem', WaitsForOut')
      /\ InOutq' = InOutq + 1 /\ Sending' = Sending
      /\ AskIn(pc') = AskIn(place) /\ GetIn(pc') = GetIn(place) /\ UnsentIn(pc') = UnsentIn(place)
      /\ \A b \in Actors \ {"icmp_out"} : pc'[b] = place[b]
      /\ IcmpOutAt'
  <2>1. place["icmp_out"] = pc["icmp_out"] BY <1>2, <1>5
  <2> QED BY <1>5, <2>1, Signalled
<1>9. pc'[a] = Idle /\ pc'[a].at = "user" /\ pc'[a].call = "none" BY <1>2, <1>5, <1>8, IdlePlace
<1>10. \A b \in Actors \ {a, "icmp_out"} : pc'[b] = pc[b] BY <1>5, <1>8
<1>11. Types'
  <2>1. a \in Procs => ProcAt(a)' BY <1>9 DEF ProcAt
  <2>2. a = "netin" => NetinAt' BY <1>9 DEF NetinAt
  <2>3. IsTable(tab') /\ leaked' \in Nat BY NoEndpoint
  <2>4. pc[a].call # "recv" OBVIOUS
  <2> QED BY <1>8, <1>10, <2>1, <2>2, <2>3, <2>4, SenderMoves
<1>12. Sems'
  <2>1. Holds(pool', AskIn(pc')) /\ IsFiniteSet(GetIn(pc')) BY <1>3, <1>7, <1>8
  <2> QED BY <1>8, <2>1 DEF Sems, Holds, AskIn, GetIn
<1>13. Owned' /\ (\A d \in Endpoints : PidReads(d))' /\ ReaderTold'
  <2>1. pc[a].at \notin Filling
    <3>1. a \in Procs => pc[a].at \notin Filling BY <1>1 DEF Types, ProcAt
    <3>2. a = "netin" => pc[a].at \notin Filling BY <1>1 DEF Types, NetinAt
    <3> QED BY <3>1, <3>2
  <2>2. pc[a].call \in {"none", "send"} /\ pc'[a].call \in {"none", "send"} /\ pc'[a].at \notin Filling
    BY <1>9
  <2> QED BY <1>10, <1>11, <2>1, <2>2, SenderApart
<1>14. ASSUME Sane' PROVE Room'
  <2>1. Cardinality(Filled(icoutq')) = InOutq' + Cardinality(UnsentIn(pc'))
    BY <1>7, <1>8, <1>14
  <2>2. \A ep \in Endpoints : Full(Entry(ep)') BY NoEndpoint
  <2> QED BY <2>1, <2>2, RoomAgain
<1>15. Summed'
  <2>1. PICK t, g : t = Tokens(pool') /\ g = Cardinality(GetIn(pc')) OBVIOUS
  <2>2. Tokens(pool) \in Nat /\ Cardinality(GetIn(pc)) \in Nat BY <1>1, SumNow
  <2>3. t \in Nat /\ t = Tokens(pool) BY <2>1, <2>2
  <2>4. g \in Nat /\ g + 1 = Cardinality(GetIn(pc))
    <3>1. g = Cardinality(GetIn(place)) BY <1>8, <2>1
    <3>2. g \in Nat BY <1>7, <3>1, FS_CardinalityType
    <3> QED BY <1>7, <3>1, <3>2
  <2>5. t + g + 1 = Tokens(pool) + Cardinality(GetIn(pc)) BY <2>2, <2>3, <2>4
  <2>6. Spare' = Spare
    <3>1. CASE a = "netin" BY <3>1, <1>9 DEF Spare
    <3>2. CASE a # "netin" BY <3>2, <1>2, <1>10 DEF Spare
    <3> QED BY <3>1, <3>2
  <2> QED BY <1>8, <2>1, <2>3, <2>4, <2>5, <2>6, SumQueued
<1> QED BY <1>11, <1>12, <1>13, <1>14, <1>15, InvThen

LEMMA EchoReplyWokenStep ==
    ASSUME NetInv, EchoReplyWoken
    PROVE  NetInv'
<1> DEFINE a == "netin"
<1>1. PICK place : place = [pc EXCEPT ![a] = Idle] OBVIOUS
<1>2. /\ Sane /\ pc[a].at = "woken" /\ pc[a].call = "send" /\ QueueOut(place)
      /\ UNCHANGED <<tab, pool, hasmsg, mine, leaked>>
  BY <1>1 DEF EchoReplyWoken
<1>3. Room BY <1>2, Parts
<1>4. /\ OutTyped' /\ fault' \in Faults \cup {"none"}
      /\ Sane' => Cardinality(Filled(icoutq')) = Cardinality(Filled(icoutq)) + 1
      /\ icosem' = SignalnOn(icosem, 1) /\ pc' = Wake(place, Released(icosem, 1))
  BY <1>2, QueueOutDone
<1>5. UnsentIn(pc) \ {a} = UnsentIn(pc) BY <1>2 DEF UnsentIn, Unsent
<1>6. ASSUME Sane'
      PROVE  Cardinality(Filled(icoutq')) = InOutq + 1 + Cardinality(UnsentIn(pc) \ {a})
  <2>1. Cardinality(Filled(icoutq)) = InOutq + Cardinality(UnsentIn(pc)) BY <1>3 DEF Room, OutRing
  <2>2. InOutq \in Nat /\ Cardinality(UnsentIn(pc)) \in Nat BY <1>2, UnsentCounted
  <2> QED BY <1>4, <1>5, <1>6, <2>1, <2>2
<1>7. a \in Procs \cup {"netin"} /\ pc[a].at # "wait" BY <1>2
<1> QED BY <1>1, <1>2, <1>4, <1>6, <1>7, SenderDone

LEMMA IcmpSignalStep ==
    ASSUME NetInv, NEW p \in Procs, IcmpSignal(p)
    PROVE  NetInv'
<1>1. PICK place : place = [pc EXCEPT ![p] = Idle] OBVIOUS
<1>2. /\ Sane /\ pc[p].at = "queued" /\ pc[p].call = "send"
      /\ icosem' = SignalnOn(icosem, 1) /\ pc' = Wake(place, Released(icosem, 1))
      /\ UNCHANGED <<tab, pool, icoutq, hasmsg, mine, leaked, fault>>
  BY <1>1 DEF IcmpSignal, Sends, Runs
<1>3. Room /\ Types /\ p \in Actors BY <1>2, Parts
<1>4. p \in UnsentIn(pc) BY <1>2, <1>3 DEF UnsentIn, Unsent
<1>5. Cardinality(Filled(icoutq')) = InOutq + 1 + Cardinality(UnsentIn(pc) \ {p})
  <2>1. Cardinality(Filled(icoutq)) = InOutq + Cardinality(UnsentIn(pc)) BY <1>3 DEF Room, OutRing
  <2>2. /\ InOutq \in Nat /\ Cardinality(UnsentIn(pc)) \in Nat
        /\ IsFiniteSet(UnsentIn(pc))
    BY <1>2, UnsentCounted
  <2>3. Cardinality(UnsentIn(pc) \ {p}) = Cardinality(UnsentIn(pc)) - 1 BY <1>4, <2>2, FS_RemoveElement
  <2>4. Filled(icoutq') = Filled(icoutq) BY <1>2 DEF Filled
  <2> QED BY <2>1, <2>2, <2>3, <2>4
<1>6. p \in Procs \cup {"netin"} /\ pc[p].at # "wait" /\ fault' \in Faults \cup {"none"}
  BY <1>2, <1>3 DEF Types
<1> QED BY <1>1, <1>2, <1>5, <1>6, SenderDone

(* A process gets a buffer for its packet. *)
LEMMA IcmpSendStep ==
    ASSUME NetInv, NEW p \in Procs, IcmpSend(p)
    PROVE  NetInv'
<1>1. /\ Sane /\ pc[p] = Idle /\ UNCHANGED <<tab, icoutq, icosem, hasmsg, mine, leaked, fault>>
      /\ IF pool.count > 0
         THEN pool' = Take(pool) /\ pc' = [pc EXCEPT ![p] = [Idle EXCEPT !.at = "built", !.call = "send"]]
         ELSE /\ pool' = WaitOn(pool, p)
              /\ pc' = [pc EXCEPT ![p] = [Idle EXCEPT !.at = "wait", !.call = "send"]]
  BY DEF IcmpSend, Runs
<1>2. p \in Procs \cup {"netin"} OBVIOUS
<1>3. CASE ~(pool.count > 0) BY <1>1, <1>2, <1>3, SendWaits
<1>4. CASE pool.count > 0
  <2>1. PICK x : x = [Idle EXCEPT !.at = "built", !.call = "send"] OBVIOUS
  <2>2. pool' = Take(pool) /\ pc' = [pc EXCEPT ![p] = x] BY <1>1, <1>4, <2>1
  <2>3. Types /\ Sems /\ Room /\ Summed /\ Placed(pc) BY <1>1, Parts
  <2>4. p \in Actors /\ p # "icmp_out" /\ p # "netin" /\ "icmp_out" \in Actors /\ "netin" \in Actors
    BY <1>2, Constants, Sender
  <2>5. Holds(pool, AskIn(pc)) /\ Holds(icosem, WaitsForOut) /\ IsFiniteSet(GetIn(pc)) BY <2>3 DEF Sems
  <2>6. /\ pc[p].at = "user" /\ pc[p].call = "none" /\ ~Asks(pc[p]) /\ ~Gets(pc[p])
    BY <1>1, IdlePlace
  <2>7. /\ IsPlace(x) /\ x.at = "built" /\ x.call = "send" /\ ~Asks(x) /\ Gets(x) /\ ~Unsent(x)
    BY <2>1 DEF IsPlace, Idle, Asks, Gets, Unsent
  <2>8. Moves(pc, p, x, pc') BY <2>2 DEF Moves
  <2>9. Placed(pc') /\ pc'[p] = x /\ \A b \in Actors \ {p} : pc'[b] = pc[b]
    BY <2>3, <2>4, <2>7, <2>8, Moved
  <2>10. /\ Holds(pool', AskIn(pc')) /\ IsFiniteSet(GetIn(pc')) /\ UnsentIn(pc') = UnsentIn(pc)
         /\ Tokens(pool') + Cardinality(GetIn(pc')) = Tokens(pool) + Cardinality(GetIn(pc))
    <3>1. PICK place, sem, new : place = pc /\ sem = pool /\ new = pc' OBVIOUS
    <3>2. /\ Placed(place) /\ p \in Actors /\ ~Asks(place[p]) /\ ~Gets(place[p])
          /\ IsPlace(x) /\ ~Asks(x) /\ Gets(x) /\ ~Unsent(x) /\ Moves(place, p, x, new)
          /\ Holds(sem, AskIn(place)) /\ sem.count > 0 /\ IsFiniteSet(GetIn(place))
      BY <1>4, <2>3, <2>4, <2>5, <2>6, <2>7, <2>8, <3>1
    <3>3. /\ Holds(Take(sem), AskIn(new)) /\ IsFiniteSet(GetIn(new)) /\ UnsentIn(new) = UnsentIn(place)
          /\ Tokens(Take(sem)) + Cardinality(GetIn(new)) = Tokens(sem) + Cardinality(GetIn(place))
      BY ONLY <3>2, Got
    <3> QED BY <2>2, <3>1, <3>3
  <2>11. pc'["icmp_out"] = pc["icmp_out"] /\ pc'["netin"] = pc["netin"] BY <2>4, <2>9
  <2>12. Types'
    <3>1. ProcAt(p)' BY <2>7, <2>9 DEF ProcAt
    <3>2. fault' \in Faults \cup {"none"} BY <1>1, <2>3 DEF Types
    <3>3. IsTable(tab') /\ leaked' \in Nat BY <1>1, NoEndpoint
    <3>4. pc[p].call # "recv" /\ \A b \in Actors \ {p, "icmp_out"} : pc'[b] = pc[b] BY <2>6, <2>9
    <3> QED BY <1>1, <1>2, <2>4, <2>9, <2>11, <3>1, <3>2, <3>3, <3>4, SenderMoves
  <2>13. Sems' /\ InOutq' = InOutq /\ Sending' = Sending BY <1>1, <2>3, <2>10, <2>11, OutAsItWas
  <2>14. Owned' /\ (\A d \in Endpoints : PidReads(d))' /\ ReaderTold'
    <3>1. /\ pc[p].call \in {"none", "send"} /\ pc'[p].call \in {"none", "send"}
          /\ pc[p].at \notin Filling /\ pc'[p].at \notin Filling
          /\ \A b \in Actors \ {p, "icmp_out"} : pc'[b] = pc[b]
      BY <2>6, <2>7, <2>9
    <3> QED BY <1>1, <1>2, <2>12, <3>1, SenderApart
  <2>15. Room'
    <3>1. \A ep \in Endpoints : Full(Entry(ep)') BY <1>1, NoEndpoint
    <3> QED BY <1>1, <2>3, <2>10, <2>13, <3>1, RoomThen
  <2>16. Summed'
    <3>1. PICK t, g, r : t = Tokens(pool') /\ g = Cardinality(GetIn(pc')) /\ r = Cardinality(InRings')
      OBVIOUS
    <3>2. /\ Tokens(pool) \in Nat /\ Cardinality(GetIn(pc)) \in Nat /\ Cardinality(InRings) \in Nat
          /\ Spare \in {0, 1}
      BY <1>1, <2>3, SumNow
    <3>3. r \in Nat /\ r = Cardinality(InRings) BY <1>1, <2>3, <3>1, <3>2, RingsSame
    <3>4. g \in Nat /\ t \in Nat
      <4>1. pool'.count \in Int BY <2>10 DEF Holds
      <4>2. t \in Nat BY <3>1, <4>1 DEF Tokens
      <4> QED BY <2>10, <3>1, <4>2, FS_CardinalityType
    <3>5. Spare' = Spare BY <2>11 DEF Spare
    <3>6. t + g + r + Spare' = Tokens(pool) + Cardinality(GetIn(pc)) + Cardinality(InRings) + Spare
      BY <2>10, <3>1, <3>2, <3>3, <3>4, <3>5
    <3>7. PICK n : n = Spare' OBVIOUS
    <3>8. n \in {0, 1} /\ leaked' = leaked BY <1>1, <3>2, <3>5, <3>7
    <3> QED BY <1>1, <2>13, <3>1, <3>3, <3>4, <3>6, <3>7, <3>8, SumMoved
  <2> QED BY <2>12, <2>13, <2>14, <2>15, <2>16, InvThen
<1> QED BY <1>3, <1>4

(* The statements of icmp_send() up to the signal. *)
LEMMA SendGoesOn ==
    ASSUME NetInv, Sane, NEW p \in Procs, pc[p].call = "send", pc[p].at # "wait",
           NEW x, IsPlace(x), x.call = "send", x.at # "wait", x.at \notin Filling, Moves(pc, p, x, pc'),
           ProcAt(p)', OutTyped', fault' \in Faults \cup {"none"},
           UNCHANGED <<tab, pool, icosem, hasmsg, mine, leaked>>,
           Sane' => Cardinality(Filled(icoutq')) = InOutq + Cardinality(UnsentIn(pc'))
    PROVE  NetInv'
<1>1. Types /\ Room /\ ProcAt(p) BY Parts
<1>2. p \in Procs \cup {"netin"} OBVIOUS
<1>3. ~Asks(pc[p]) /\ Gets(pc[p]) /\ ~Asks(x) /\ Gets(x) BY DEF Asks, Gets
<1>4. /\ Placed(pc') /\ pc'[p] = x /\ \A b \in Actors \ {p} : pc'[b] = pc[b]
      /\ pc'["netin"] = pc["netin"] /\ pc'["icmp_out"] = pc["icmp_out"] /\ Sems'
      /\ Tokens(pool') = Tokens(pool) /\ Cardinality(GetIn(pc')) = Cardinality(GetIn(pc))
      /\ InOutq' = InOutq /\ Sending' = Sending /\ Spare' = Spare
  BY <1>3, ProcMoves
<1>5. Types'
  <2>1. IsTable(tab') /\ leaked' \in Nat BY NoEndpoint
  <2>2. pc[p].call # "recv" /\ p # "netin" /\ \A b \in Actors \ {p, "icmp_out"} : pc'[b] = pc[b]
    BY <1>4, Constants
  <2> QED BY <1>2, <1>4, <2>1, <2>2, SenderMoves
<1>6. Owned' /\ (\A d \in Endpoints : PidReads(d))' /\ ReaderTold'
  <2>1. /\ pc[p].call \in {"none", "send"} /\ pc'[p].call \in {"none", "send"}
        /\ pc'[p].at \notin Filling
        /\ \A b \in Actors \ {p, "icmp_out"} : pc'[b] = pc[b]
    BY <1>4
  <2>2. pc[p].at \notin Filling BY <1>1 DEF ProcAt
  <2> QED BY <1>2, <1>5, <2>1, <2>2, SenderApart
<1>7. ASSUME Sane' PROVE Room'
  <2>1. Cardinality(Filled(icoutq')) = InOutq' + Cardinality(UnsentIn(pc')) BY <1>4, <1>7
  <2>2. \A ep \in Endpoints : Full(Entry(ep)') BY NoEndpoint
  <2> QED BY <2>1, <2>2, RoomAgain
<1>8. Summed'
  <2>1. /\ Cardinality(InRings') + 0 = Cardinality(InRings) + 0 /\ Cardinality(InRings') \in Nat
        /\ leaked' = leaked + 0 /\ 0 + 0 = 0 /\ 0 \in Nat
    BY TableStays
  <2> QED BY <1>4, <2>1, SumStays
<1> QED BY <1>4, <1>5, <1>6, <1>7, <1>8, InvThen

(* Those of them that leave the places of icoutq as they are. *)
LEMMA SendSteps ==
    ASSUME NetInv, Sane, NEW p \in Procs, pc[p].call = "send", pc[p].at # "wait",
           NEW x, IsPlace(x), x.call = "send", x.at # "wait", x.at \notin Filling,
           pc' = [pc EXCEPT ![p] = x],
           Unsent(x) <=> Unsent(pc[p]),
           x.at \in {"loaded", "advanced"} => x.ep[2] \in Nat,
           x.at \in {"woken", "built", "stored", "wrap", "queued", "loaded", "advanced"},
           NEW t \in Nat, icoutq' = [icoutq EXCEPT !.tail = t],
           UNCHANGED <<tab, pool, icosem, hasmsg, mine, leaked, fault>>
    PROVE  NetInv'
<1>1. Types /\ Room /\ Placed(pc) /\ p \in Actors BY Parts
<1>2. Moves(pc, p, x, pc') BY DEF Moves
<1>3. pc'[p] = x
  <2>1. PICK old, new : old = pc /\ new = pc' OBVIOUS
  <2>2. Placed(old) /\ p \in Actors /\ IsPlace(x) /\ Moves(old, p, x, new) BY <1>1, <1>2, <2>1
  <2>3. new[p] = x BY ONLY <2>2, Moved
  <2> QED BY <2>1, <2>3
<1>4. ProcAt(p)' BY <1>3 DEF ProcAt
<1>5. OutTyped' /\ Filled(icoutq') = Filled(icoutq)
  <2>1. OutTyped BY <1>1 DEF Types
  <2>2. icoutq' = [queue |-> icoutq.queue, head |-> icoutq.head, tail |-> t] BY <2>1 DEF OutTyped
  <2>3. icoutq'.queue = icoutq.queue /\ icoutq'.head = icoutq.head /\ icoutq'.tail = t BY <2>2
  <2>4. OutTyped' BY <2>1, <2>2, <2>3 DEF OutTyped
  <2> QED BY <2>3, <2>4 DEF Filled
<1>6. UnsentIn(pc') = UnsentIn(pc)
  <2>1. ~Asks(pc[p]) /\ Gets(pc[p]) /\ ~Asks(x) /\ Gets(x) BY DEF Asks, Gets
  <2> QED BY <1>2, <2>1, ProcMoves
<1>7. Cardinality(Filled(icoutq')) = InOutq + Cardinality(UnsentIn(pc')) BY <1>1, <1>5, <1>6 DEF Room, OutRing
<1>8. fault' \in Faults \cup {"none"} BY <1>1 DEF Types
<1> QED BY <1>2, <1>4, <1>5, <1>7, <1>8, SendGoesOn

LEMMA IcmpLoadStep ==
    ASSUME NetInv, NEW p \in Procs, IcmpLoad(p)
    PROVE  NetInv'
<1>1. PICK x : x = [pc[p] EXCEPT !.at = "loaded", !.ep = <<"icoutq", icoutq.tail>>] OBVIOUS
<1>2. /\ Sane /\ pc[p].call = "send" /\ pc[p].at \in {"woken", "built"}
      /\ pc' = [pc EXCEPT ![p] = x]
      /\ UNCHANGED <<tab, pool, icoutq, icosem, hasmsg, mine, leaked, fault>>
  BY <1>1 DEF IcmpLoad, Sends, Runs
<1>3. Types /\ IsPlace(pc[p]) BY <1>2, Parts
<1>4. IsPlace(x) /\ x.at = "loaded" /\ x.call = "send" /\ x.ep = <<"icoutq", icoutq.tail>>
  BY <1>1, <1>2, <1>3 DEF IsPlace
<1>5. icoutq.tail \in Nat /\ icoutq' = [icoutq EXCEPT !.tail = icoutq.tail]
  BY <1>2, <1>3 DEF Types, OutTyped
<1>6. Unsent(x) <=> Unsent(pc[p]) BY <1>2, <1>4 DEF Unsent
<1>7. /\ pc[p].at # "wait" /\ x.at # "wait" /\ x.at \notin Filling /\ x.ep[2] \in Nat
      /\ x.at \in {"woken", "built", "stored", "wrap", "queued", "loaded", "advanced"}
  BY <1>2, <1>4, <1>5
<1> QED BY <1>2, <1>4, <1>5, <1>6, <1>7, SendSteps

LEMMA IcmpAdvanceStep ==
    ASSUME NetInv, NEW p \in Procs, IcmpAdvance(p)
    PROVE  NetInv'
<1>1. PICK x : x = [pc[p] EXCEPT !.at = "advanced"] OBVIOUS
<1>2. PICK t : t = pc[p].ep[2] + 1 OBVIOUS
<1>3. /\ Sane /\ pc[p].call = "send" /\ pc[p].at = "loaded"
      /\ pc' = [pc EXCEPT ![p] = x] /\ icoutq' = [icoutq EXCEPT !.tail = t]
      /\ UNCHANGED <<tab, pool, icosem, hasmsg, mine, leaked, fault>>
  BY <1>1, <1>2 DEF IcmpAdvance, Sends, Runs
<1>4. Types /\ IsPlace(pc[p]) /\ ProcAt(p) BY <1>3, Parts
<1>5. pc[p].ep[2] \in Nat BY <1>3, <1>4 DEF ProcAt
<1>6. IsPlace(x) /\ x.at = "advanced" /\ x.call = "send" /\ x.ep = pc[p].ep
  BY <1>1, <1>3, <1>4, AtChanged
<1>7. t \in Nat BY <1>2, <1>5
<1>8. Unsent(x) <=> Unsent(pc[p]) BY <1>3, <1>6 DEF Unsent
<1> QED BY <1>3, <1>5, <1>6, <1>7, <1>8, SendSteps

LEMMA IcmpTestStep ==
    ASSUME NetInv, NEW p \in Procs, IcmpTest(p) \/ IcmpWrap(p)
    PROVE  NetInv'
<1>1. PICK v, t : /\ v \in {"wrap", "queued"} /\ t \in Nat
                  /\ Sane /\ pc[p].call = "send" /\ pc[p].at \in {"stored", "wrap"}
                  /\ pc' = [pc EXCEPT ![p].at = v] /\ icoutq' = [icoutq EXCEPT !.tail = t]
                  /\ UNCHANGED <<tab, pool, icosem, hasmsg, mine, leaked, fault>>
  <2>1. CASE IcmpTest(p)
    <3>1. PICK v : v = IF icoutq.tail >= ICMP_OQSIZ THEN "wrap" ELSE "queued" OBVIOUS
    <3>2. /\ Sane /\ pc[p].call = "send" /\ pc[p].at = "stored" /\ pc' = [pc EXCEPT ![p].at = v]
          /\ UNCHANGED <<tab, pool, icoutq, icosem, hasmsg, mine, leaked, fault>>
      BY <2>1, <3>1 DEF IcmpTest, Sends, Runs
    <3>3. Types BY <3>2, Parts
    <3>4. icoutq.tail \in Nat /\ icoutq' = [icoutq EXCEPT !.tail = icoutq.tail]
      BY <3>2, <3>3 DEF Types, OutTyped
    <3> QED BY <3>1, <3>2, <3>4
  <2>2. CASE IcmpWrap(p)
    <3>1. /\ Sane /\ pc[p].call = "send" /\ pc[p].at = "wrap" /\ pc' = [pc EXCEPT ![p].at = "queued"]
          /\ icoutq' = [icoutq EXCEPT !.tail = 0]
          /\ UNCHANGED <<tab, pool, icosem, hasmsg, mine, leaked, fault>>
      BY <2>2 DEF IcmpWrap, Sends, Runs
    <3>2. 0 \in Nat OBVIOUS
    <3> QED BY <3>1, <3>2
  <2> QED BY <2>1, <2>2
<1>2. IsPlace(pc[p]) BY <1>1, Parts
<1>3. PICK x : x = [pc[p] EXCEPT !.at = v] OBVIOUS
<1>4. IsPlace(x) /\ x.at = v /\ x.call = "send" BY <1>1, <1>2, <1>3, AtChanged
<1>5. Unsent(x) <=> Unsent(pc[p]) BY <1>1, <1>4 DEF Unsent
<1>6. pc' = [pc EXCEPT ![p] = x] BY <1>1, <1>3
<1> QED BY <1>1, <1>4, <1>5, <1>6, SendSteps

(* The packet is stored in the place that icotail was when it was loaded. *)
LEMMA IcmpStoreStep ==
    ASSUME NetInv, NEW p \in Procs, IcmpStore(p)
    PROVE  NetInv'
<1>1. PICK x : x = [pc[p] EXCEPT !.at = "stored"] OBVIOUS
<1>2. PICK i : i = pc[p].ep[2] OBVIOUS
<1>3. /\ Sane /\ pc[p].call = "send" /\ pc[p].at = "advanced"
      /\ FaultIf("overrun", NoRoom(i))
      /\ pc' = [pc EXCEPT ![p] = x] /\ icoutq' = [icoutq EXCEPT !.queue = Stored(i)]
      /\ UNCHANGED <<tab, pool, icosem, hasmsg, mine, leaked>>
  BY <1>1, <1>2 DEF IcmpStore, Sends, Runs
<1>4. Types /\ Room /\ IsPlace(pc[p]) /\ ProcAt(p) /\ OutTyped /\ Placed(pc) /\ p \in Actors
  BY <1>3, Parts DEF Types
<1>5. i \in Nat BY <1>2, <1>3, <1>4 DEF ProcAt
<1>6. IsPlace(x) /\ x.at = "stored" /\ x.call = "send" BY <1>1, <1>3, <1>4, AtChanged
<1>7. Moves(pc, p, x, pc') BY <1>3 DEF Moves
<1>8. pc'[p] = x /\ \A b \in Actors \ {p} : pc'[b] = pc[b] BY <1>4, <1>6, <1>7, Moved
<1>9. ProcAt(p)' BY <1>6, <1>8 DEF ProcAt
<1>10. icoutq' = [queue |-> Stored(i), head |-> icoutq.head, tail |-> icoutq.tail]
  BY <1>3, <1>4 DEF OutTyped
<1>11. /\ icoutq'.queue = Stored(i) /\ icoutq'.head = icoutq.head /\ icoutq'.tail \in Nat
       /\ icoutq' = [queue |-> icoutq'.queue, head |-> icoutq'.head, tail |-> icoutq'.tail]
  BY <1>4, <1>10 DEF OutTyped
<1>12. /\ OutTyped'
       /\ ~NoRoom(i) => Cardinality(Filled(icoutq')) = Cardinality(Filled(icoutq)) + 1
  BY <1>4, <1>5, <1>11, OutStored
<1>13. fault' \in Faults \cup {"none"} /\ (Sane' => ~NoRoom(i))
  BY <1>3, <1>4 DEF Types, Faults, FaultIf, Sane
<1>14. Cardinality(UnsentIn(pc')) = Cardinality(UnsentIn(pc)) + 1
  <2>1. p \notin UnsentIn(pc) /\ UnsentIn(pc') = UnsentIn(pc) \cup {p}
    BY <1>3, <1>4, <1>6, <1>8 DEF UnsentIn, Unsent
  <2>2. IsFiniteSet(UnsentIn(pc)) BY <1>3, UnsentCounted
  <2> QED BY <2>1, <2>2, FS_AddElement
<1>15. ASSUME Sane' PROVE Cardinality(Filled(icoutq')) = InOutq + Cardinality(UnsentIn(pc'))
  <2>1. Cardinality(Filled(icoutq)) = InOutq + Cardinality(UnsentIn(pc)) BY <1>4 DEF Room, OutRing
  <2>2. InOutq \in Nat /\ Cardinality(UnsentIn(pc)) \in Nat BY <1>3, UnsentCounted
  <2> QED BY <1>12, <1>13, <1>14, <1>15, <2>1, <2>2
<1>16. pc[p].at # "wait" /\ x.at # "wait" /\ x.at \notin Filling BY <1>3, <1>6
<1> QED BY <1>3, <1>6, <1>7, <1>9, <1>12, <1>13, <1>15, <1>16, SendGoesOn

(* icmp_out takes the packet at the head of icoutq. *)
LEMMA IcmpOutTakesStep ==
    ASSUME NetInv, IcmpOutTakes
    PROVE  NetInv'
<1> DEFINE a == "icmp_out"
<1>1. PICK h, q : h = icoutq.head /\ q = icoutq.queue OBVIOUS
<1>2. PICK r : r = [i \in DOMAIN q |-> q[i] /\ i # h] OBVIOUS
<1>3. PICK n : n = IF h + 1 >= ICMP_OQSIZ THEN 0 ELSE h + 1 OBVIOUS
<1>4. /\ Sane /\ pc[a].at = "woken"
      /\ FaultIf("wrong read", h \notin Filled(icoutq))
      /\ icoutq' = [icoutq EXCEPT !.queue = r, !.head = n]
      /\ pc' = [pc EXCEPT ![a].at = "sending"]
      /\ UNCHANGED <<tab, pool, icosem, hasmsg, mine, leaked>>
  BY <1>1, <1>2, <1>3 DEF IcmpOutTakes, Runs
<1>5. Types /\ Sems /\ Room /\ Summed /\ Placed(pc) /\ IcmpOutAt /\ OutTyped BY <1>4, Parts DEF Types
<1>6. a \in Actors /\ a \notin Procs /\ "netin" \in Actors /\ a # "netin" BY Constants
<1>7. PICK x : x = [pc[a] EXCEPT !.at = "sending"] OBVIOUS
<1>8. /\ IsPlace(x) /\ x.at = "sending" /\ x.call = "none" /\ ~Asks(x) /\ ~Gets(x)
      /\ ~Asks(pc[a]) /\ ~Gets(pc[a])
  <2>1. IsPlace(pc[a]) /\ pc[a].call = "none" BY <1>5, <1>6 DEF Placed, IcmpOutAt
  <2>2. IsPlace(x) /\ x.at = "sending" /\ x.call = "none" BY <1>7, <2>1, AtChanged
  <2> QED BY <2>1, <2>2 DEF Asks, Gets
<1>9. Moves(pc, a, x, pc') BY <1>4, <1>7 DEF Moves
<1>10. Placed(pc') /\ pc'[a] = x /\ \A b \in Actors \ {a} : pc'[b] = pc[b]
  BY <1>5, <1>6, <1>8, <1>9, Moved
<1>11. AskIn(pc') = AskIn(pc) /\ GetIn(pc') = GetIn(pc) /\ UnsentIn(pc') = UnsentIn(pc)
  <2>1. PICK place, new : place = pc /\ new = pc' OBVIOUS
  <2>2. /\ Placed(place) /\ ~Asks(place[a]) /\ IsPlace(x) /\ ~Asks(x)
        /\ ~Gets(x) /\ ~Gets(place[a]) /\ Moves(place, a, x, new)
    BY <1>5, <1>8, <1>9, <2>1
  <2>3. AskIn(new) = AskIn(place) /\ GetIn(new) = GetIn(place) /\ UnsentIn(new) = UnsentIn(place)
    BY ONLY <1>6, <2>2, MovedElsewhere
  <2> QED BY <2>1, <2>3
<1>12. /\ q \in [0 .. ICMP_OQSIZ - 1 -> BOOLEAN] /\ ICMP_OQSIZ \in Nat \ {0}
       /\ h \in 0 .. ICMP_OQSIZ - 1
  BY <1>1, <1>5, Constants DEF OutTyped
<1>13. /\ r \in [0 .. ICMP_OQSIZ - 1 -> BOOLEAN] /\ n \in 0 .. ICMP_OQSIZ - 1
       /\ \A j \in 0 .. ICMP_OQSIZ - 1 : r[j] <=> q[j] /\ j # h
  <2>1. n \in 0 .. ICMP_OQSIZ - 1 BY ONLY <1>3, <1>12
  <2>2. /\ r \in [0 .. ICMP_OQSIZ - 1 -> BOOLEAN]
        /\ \A j \in 0 .. ICMP_OQSIZ - 1 : r[j] <=> q[j] /\ j # h
    BY ONLY <1>2, <1>12
  <2> QED BY <2>1, <2>2
<1>14. icoutq' = [queue |-> r, head |-> n, tail |-> icoutq.tail] BY <1>4, <1>5 DEF OutTyped
<1>15. OutTyped'
  <2>1. icoutq'.queue = r /\ icoutq'.head = n /\ icoutq'.tail = icoutq.tail BY <1>14
  <2> QED BY <1>5, <1>13, <1>14, <2>1 DEF OutTyped
<1>16. fault' \in Faults \cup {"none"} /\ (Sane' => h \in Filled(icoutq))
  BY <1>4, <1>5 DEF Types, Faults, FaultIf, Sane
<1>17. /\ IsTable(tab') /\ leaked' \in Nat /\ mine' \in [Procs -> SUBSET Endpoints]
       /\ hasmsg' \in [Procs -> BOOLEAN]
       /\ \A p \in Procs : hasmsg'[p] = hasmsg[p] /\ mine'[p] = mine[p]
       /\ \A ep \in Endpoints : Full(Entry(ep)')
  BY <1>4, NoEndpoint
<1>18. Types'
  <2>1. \A b \in Actors \ {a} : Stays(b) BY <1>10 DEF Stays
  <2>2. IcmpOutAt' BY <1>8, <1>10 DEF IcmpOutAt
  <2>3. Procs \cap {a} = {} /\ "netin" \notin {a} BY <1>6
  <2> QED BY <1>5, <1>10, <1>15, <1>16, <1>17, <2>1, <2>2, <2>3, TypesStay
<1>19. Sems'
  <2>1. pc'["icmp_out"].at = "wait" <=> pc["icmp_out"].at = "wait" BY <1>4, <1>8, <1>10
  <2> QED BY <1>4, <1>5, <1>11, <2>1, SemsStay
<1>20. /\ InOutq' + 1 = InOutq /\ Sending = 0 /\ Sending' = 1 /\ Spare' = Spare
       /\ InOutq' \in Nat /\ InOutq \in Nat
  <2>1. Tokens(icosem) \in Nat /\ InOutq \in Nat BY <1>4, <1>5, SumNow
  <2>2. InOutq' = Tokens(icosem)
    <3>1. pc'[a].at # "woken" /\ icosem' = icosem BY <1>4, <1>8, <1>10
    <3>2. InOutq' = Tokens(icosem') + 0 BY <3>1 DEF InOutq, Tokens
    <3> QED BY <2>1, <3>1, <3>2
  <2>3. InOutq = Tokens(icosem) + 1 BY <1>4, <2>1 DEF InOutq
  <2>4. Sending = 0 /\ Sending' = 1 BY <1>4, <1>8, <1>10 DEF Sending
  <2>5. Spare' = Spare BY <1>6, <1>10 DEF Spare
  <2> QED BY <2>1, <2>2, <2>3, <2>4, <2>5
<1>21. Owned' /\ (\A d \in Endpoints : PidReads(d))' /\ ReaderTold'
  <2>1. \A p \in Procs : pc'[p] = pc[p] BY <1>6, <1>10 DEF Actors
  <2>2. pc'["netin"] = pc["netin"] BY <1>6, <1>10
  <2> QED BY <1>4, <1>18, <2>1, <2>2, EndpointsStay
<1>22. ASSUME Sane' PROVE Room'
  <2>1. q[h] /\ h \in 0 .. ICMP_OQSIZ - 1 BY <1>1, <1>12, <1>16, <1>22 DEF Filled
  <2>2. ~r[h] /\ \A j \in 0 .. ICMP_OQSIZ - 1 : q[j] <=> j = h \/ r[j] BY ONLY <1>13, <2>1
  <2>3. Cardinality(Marked(q)) = Cardinality(Marked(r)) + 1 /\ Cardinality(Marked(r)) \in Nat
    <3>1. PICK k \in Nat : k = ICMP_OQSIZ BY <1>12
    <3>2. /\ q \in [0 .. k - 1 -> BOOLEAN] /\ r \in [0 .. k - 1 -> BOOLEAN] /\ h \in 0 .. k - 1
          /\ ~r[h] /\ \A j \in 0 .. k - 1 : q[j] <=> j = h \/ r[j]
      BY <1>12, <1>13, <2>1, <2>2, <3>1
    <3>3. Cardinality(Marked(q)) = Cardinality(Marked(r)) + 1 BY ONLY k \in Nat, <3>2, OneMarked
    <3>4. Cardinality(Marked(r)) \in Nat BY ONLY k \in Nat, <3>2, MarkedFinite
    <3> QED BY <3>3, <3>4
  <2>4. Filled(icoutq) = Marked(q) /\ Filled(icoutq') = Marked(r) BY <1>1, <1>14 DEF Filled, Marked
  <2>5. Cardinality(Filled(icoutq)) = InOutq + Cardinality(UnsentIn(pc)) BY <1>5 DEF Room, OutRing
  <2>6. Cardinality(UnsentIn(pc)) \in Nat BY <1>4, UnsentCounted
  <2>7. Cardinality(Filled(icoutq')) = InOutq' + Cardinality(UnsentIn(pc'))
    <3>1. PICK c, d, o, m, u : /\ c = Cardinality(Filled(icoutq)) /\ d = Cardinality(Filled(icoutq'))
                               /\ o = InOutq /\ m = InOutq' /\ u = Cardinality(UnsentIn(pc))
      OBVIOUS
    <3>2. c = d + 1 /\ d \in Nat /\ c = o + u /\ m + 1 = o /\ m \in Nat /\ o \in Nat /\ u \in Nat
      BY <1>20, <2>3, <2>4, <2>5, <2>6, <3>1
    <3>3. d = m + u BY ONLY <3>2
    <3> QED BY <1>11, <3>1, <3>3
  <2> QED BY <1>17, <2>7, RoomAgain
<1>23. Summed'
  <2>1. /\ Tokens(pool) + Cardinality(GetIn(pc)) + Cardinality(InRings) + InOutq + Sending + Spare
               + leaked = PoolSize
        /\ Tokens(pool) \in Nat /\ Cardinality(GetIn(pc)) \in Nat /\ Cardinality(InRings) \in Nat
        /\ Spare \in {0, 1} /\ leaked \in Nat
    BY <1>4, <1>5, SumNow
  <2>2. Cardinality(InRings') = Cardinality(InRings) BY <1>4, <1>5, RingsSame
  <2>3. /\ Tokens(pool') = Tokens(pool) /\ leaked' = leaked
        /\ Cardinality(GetIn(pc')) = Cardinality(GetIn(pc))
    BY <1>4, <1>11
  <2>4. PICK o, m : o = InOutq /\ m = InOutq' OBVIOUS
  <2>5. m + 1 = o /\ m \in Nat /\ o \in Nat /\ Sending = 0 /\ Sending' = 1 /\ Spare' = Spare
    BY <1>20, <2>4
  <2>6. PICK t, g, r1, k, l : /\ t = Tokens(pool) /\ g = Cardinality(GetIn(pc))
                              /\ r1 = Cardinality(InRings) /\ k = Spare /\ l = leaked
    OBVIOUS
  <2>7. t + g + r1 + o + 0 + k + l = PoolSize /\ t \in Nat /\ g \in Nat /\ r1 \in Nat /\ k \in {0, 1}
        /\ l \in Nat
    BY <2>1, <2>4, <2>5, <2>6
  <2>8. t + g + r1 + m + 1 + k + l = PoolSize BY ONLY <2>5, <2>7
  <2> QED BY <2>2, <2>3, <2>4, <2>5, <2>6, <2>8, SumThen
<1> QED BY <1>18, <1>19, <1>21, <1>22, <1>23, InvThen

LEMMA IcmpOutSentStep ==
    ASSUME NetInv, IcmpOutSent
    PROVE  NetInv'
<1> DEFINE a == "icmp_out"
<1>1. PICK woken : woken = Wake(pc, Released(pool, 1)) OBVIOUS
<1>2. /\ Sane /\ pc[a].at = "sending" /\ pool' = SignalnOn(pool, 1)
      /\ IF icosem.count > 0
         THEN icosem' = Take(icosem) /\ pc' = [woken EXCEPT !["icmp_out"].at = "woken"]
         ELSE /\ icosem' = WaitOn(icosem, "icmp_out")
              /\ pc' = [woken EXCEPT !["icmp_out"].at = "wait"]
      /\ UNCHANGED <<tab, icoutq, hasmsg, mine, leaked, fault>>
  BY <1>1 DEF IcmpOutSent, Runs
<1>3. /\ Types /\ Sems /\ Owned /\ Room /\ Summed /\ ReaderTold
      /\ \A d \in Endpoints : PidReads(d)
      /\ IcmpOutAt
  BY <1>2, Parts
<1>4. a \in Actors /\ "netin" \in Actors /\ "netin" \notin Procs /\ a \notin Procs /\ a # "netin"
  BY Constants
<1>5. GaveBack(1, woken)
  <2>1. 1 \in Nat OBVIOUS
  <2> QED BY <1>1, <1>2, <2>1, FreedAll
<1>6. /\ Placed(woken) /\ Holds(pool', AskIn(woken)) /\ IsFiniteSet(GetIn(woken))
      /\ UnsentIn(woken) = UnsentIn(pc)
      /\ Tokens(pool') + Cardinality(GetIn(woken)) = Tokens(pool) + Cardinality(GetIn(pc)) + 1
      /\ woken[a] = pc[a]
      /\ woken["netin"].call = pc["netin"].call /\ woken["netin"].ep = pc["netin"].ep
      /\ \A b \in Actors :
             \/ woken[b] = pc[b]
             \/ /\ pc[b].at = "wait" /\ woken[b].at = "woken"
                /\ woken[b].call = pc[b].call /\ woken[b].ep = pc[b].ep
      /\ \A q \in Procs :
             woken[q] = pc[q] \/ (pc[q].call = "send" /\ woken[q].call = "send"
                                  /\ woken[q].at = "woken" /\ pc[q].at = "wait")
  BY <1>5 DEF GaveBack
<1>7. PICK v : v = IF icosem.count > 0 THEN "woken" ELSE "wait" OBVIOUS
<1>8. PICK x : x = [woken[a] EXCEPT !.at = v] OBVIOUS
<1>9. IsPlace(x) /\ x.at = v /\ x.call = "none" /\ ~Asks(x) /\ ~Gets(x)
      /\ ~Asks(woken[a]) /\ ~Gets(woken[a])
  <2>1. IsPlace(woken[a]) /\ woken[a].call = "none" BY <1>3, <1>4, <1>6 DEF Placed, IcmpOutAt
  <2>2. IsPlace(x) /\ x.at = v /\ x.call = "none" BY <1>8, <2>1, AtChanged
  <2> QED BY <2>1, <2>2 DEF Asks, Gets
<1>10. Moves(woken, a, x, pc') BY <1>2, <1>7, <1>8 DEF Moves
<1>11. Placed(pc') /\ pc'[a] = x /\ \A b \in Actors \ {a} : pc'[b] = woken[b]
  BY <1>4, <1>6, <1>9, <1>10, Moved
<1>12. AskIn(pc') = AskIn(woken) /\ GetIn(pc') = GetIn(woken) /\ UnsentIn(pc') = UnsentIn(pc)
  BY <1>4, <1>6, <1>9, <1>10, MovedElsewhere
<1>13. /\ IsTable(tab') /\ leaked' \in Nat /\ mine' \in [Procs -> SUBSET Endpoints]
       /\ hasmsg' \in [Procs -> BOOLEAN] /\ fault' \in Faults \cup {"none"}
       /\ \A q \in Procs : hasmsg'[q] = hasmsg[q] /\ mine'[q] = mine[q]
       /\ \A ep \in Endpoints : Full(Entry(ep)')
  BY <1>2, <1>3, TableStays DEF Types
<1>14. Types'
  <2>1. \A b \in Actors \ {a} : Stays(b) BY <1>6, <1>11 DEF Stays
  <2>2. IcmpOutAt' BY <1>7, <1>9, <1>11 DEF IcmpOutAt
  <2>3. Procs \cap {a} = {} /\ "netin" \notin {a} BY <1>4
  <2> QED BY <1>2, <1>3, <1>11, <1>13, <2>1, <2>2, <2>3, TypesStay
<1>15. Holds(icosem', WaitsForOut') /\ InOutq' = InOutq
  <2>1. Holds(icosem, WaitsForOut) /\ WaitsForOut = {} BY <1>2, <1>3 DEF Sems, WaitsForOut
  <2>2. InOutq = Tokens(icosem) /\ Tokens(icosem) \in Nat
    <3>1. Tokens(icosem) \in Nat BY <1>2, <1>3, SumNow
    <3> QED BY <1>2, <3>1 DEF InOutq
  <2>3. CASE icosem.count > 0
    <3>1. icosem' = Take(icosem) /\ pc'[a].at = "woken" BY <2>3, <1>2, <1>7, <1>9, <1>11
    <3>2. Holds(Take(icosem), {}) /\ Tokens(Take(icosem)) = Tokens(icosem) - 1
      BY <2>1, <2>3, TakeHolds
    <3>3. WaitsForOut' = {} BY <3>1 DEF WaitsForOut
    <3>4. InOutq' = Tokens(icosem') + 1 BY <3>1 DEF InOutq, Tokens
    <3> QED BY <2>2, <3>1, <3>2, <3>3, <3>4
  <2>4. CASE ~(icosem.count > 0)
    <3>1. icosem' = WaitOn(icosem, a) /\ pc'[a].at = "wait" BY <2>4, <1>2, <1>7, <1>9, <1>11
    <3>2. icosem.count <= 0 BY <2>1, <2>4 DEF Holds
    <3>3. Holds(WaitOn(icosem, a), {} \cup {a}) /\ Tokens(WaitOn(icosem, a)) = Tokens(icosem)
      BY <2>1, <3>2, WaitOnHolds
    <3>4. WaitsForOut' = {} \cup {a} BY <3>1 DEF WaitsForOut
    <3>5. InOutq' = Tokens(icosem') + 0 BY <3>1 DEF InOutq, Tokens
    <3>6. Tokens(icosem') = Tokens(icosem) BY <3>1, <3>3
    <3>7. Holds(icosem', WaitsForOut') BY <3>1, <3>3, <3>4
    <3> QED BY <2>2, <3>5, <3>6, <3>7
  <2> QED BY <2>3, <2>4
<1>16. Sems'
  <2>1. Holds(pool', AskIn(pc')) /\ IsFiniteSet(GetIn(pc')) BY <1>6, <1>12
  <2> QED BY <1>15, <2>1 DEF Sems, Holds, AskIn, GetIn
<1>17. pc'["netin"].call = pc["netin"].call /\ pc'["netin"].ep = pc["netin"].ep BY <1>4, <1>6, <1>11
<1>18. Owned' /\ (\A d \in Endpoints : PidReads(d))' /\ ReaderTold'
  <2>1. \A q \in Procs : \/ pc'[q] = pc[q]
                         \/ /\ pc[q].call # "recv" /\ pc'[q].call # "recv"
                            /\ pc[q].at \notin Filling /\ pc'[q].at \notin Filling
    <3>1. \A q \in Procs : pc'[q] = woken[q] BY <1>4, <1>11 DEF Actors
    <3> QED BY <1>6, <3>1
  <2> QED BY <1>2, <1>14, <1>17, <2>1, EndpointsStay
<1>19. Room' BY <1>2, <1>3, <1>12, <1>13, <1>15, RoomThen
<1>20. Summed'
  <2>1. /\ Tokens(pool) + Cardinality(GetIn(pc)) + Cardinality(InRings) + InOutq + Sending + Spare
               + leaked = PoolSize
        /\ Tokens(pool) \in Nat /\ Cardinality(GetIn(pc)) \in Nat /\ Cardinality(InRings) \in Nat
        /\ InOutq \in Nat /\ Spare \in {0, 1} /\ leaked \in Nat
    BY <1>2, <1>3, SumNow
  <2>2. Cardinality(InRings') = Cardinality(InRings) BY <1>2, <1>3, RingsSame
  <2>3. Spare' = Spare BY <1>17 DEF Spare
  <2>4. Sending = 1 /\ Sending' = 0 BY <1>2, <1>7, <1>9, <1>11 DEF Sending
  <2>5. Tokens(pool') + Cardinality(GetIn(pc')) = Tokens(pool) + Cardinality(GetIn(pc)) + 1
        /\ leaked' = leaked
    BY <1>2, <1>6, <1>12
  <2>6. Tokens(pool') \in Nat /\ Cardinality(GetIn(pc')) \in Nat
    <3>1. pool'.count \in Int BY <1>6 DEF Holds
    <3>2. Tokens(pool') \in Nat BY <3>1 DEF Tokens
    <3> QED BY <1>6, <1>12, <3>2, FS_CardinalityType
  <2> QED BY <1>15, <2>1, <2>2, <2>3, <2>4, <2>5, <2>6, SumThen
<1> QED BY <1>14, <1>16, <1>18, <1>19, <1>20, InvThen
----------------------------------------------------------------------------
(***************************************************************************)
(* Packets that arrive.                                                    *)
(***************************************************************************)
(* The one that is told: it waited, or its wait is just over. *)
Informed(q, ep) ==
    /\ Entry(ep).state = "recv" /\ q = Entry(ep).pid
    /\ Reads(q, ep)
    /\ pc'[q].at = "woken" /\ pc'[q].call = "recv" /\ pc'[q].ep = ep

(* Where everybody is when netin has told the reader of ep, if any. *)
LEMMA Telling ==
    ASSUME NetInv, Sane, NEW ep \in Endpoints, NEW e, IsEntry(e, ep[1]),
           e.state = Entry(ep).state, e.pid = Entry(ep).pid,
           NEW place, Placed(place), \A a \in Actors \ {"netin"} : place[a] = pc[a],
           place["netin"] = Idle, Tell(ep, e, place)
    PROVE  /\ Placed(pc') /\ AskIn(pc') = AskIn(place) /\ GetIn(pc') = GetIn(place)
           /\ UnsentIn(pc') = UnsentIn(place)
           /\ pc'["netin"] = Idle /\ pc'["icmp_out"] = pc["icmp_out"]
           /\ hasmsg' \in [Procs -> BOOLEAN]
           /\ \A q \in Procs : \/ pc'[q] = pc[q] /\ hasmsg'[q] = hasmsg[q]
                               \/ Informed(q, ep)
           /\ Entry(ep).state = "recv" => pc'[Entry(ep).pid].at = "woken"
           /\ IsTable(tab') /\ \A d \in Endpoints \ {ep} : Entry(d)' = Entry(d)
           /\ Entry(ep)'.count = e.count /\ Entry(ep)'.queue = e.queue
           /\ Entry(ep)'.state = IF Entry(ep).state = "recv" THEN "used" ELSE Entry(ep).state
<1>1. Types /\ PidReads(ep) /\ \A q \in Procs : q \in Actors BY Parts
<1>2. "netin" \in Actors /\ "icmp_out" \in Actors /\ "netin" \notin Procs /\ "icmp_out" \notin Procs
  BY Constants
<1>3. CASE e.state = "recv"
  <2>1. PICK q : q = Entry(ep).pid OBVIOUS
  <2>2. q \in Procs /\ Reads(q, ep) /\ e.pid = q BY <1>1, <1>3, <2>1 DEF PidReads
  <2>3. PICK f : f = [e EXCEPT !.state = "used"] OBVIOUS
  <2>4. /\ tab' = [tab EXCEPT ![ep[1]][ep[2]] = f]
        /\ hasmsg' = [hasmsg EXCEPT ![q] = TRUE]
        /\ pc' = IF pc[q].at = "recv" THEN Wake(place, {q}) ELSE place
    BY <1>3, <2>2, <2>3 DEF Tell, Send
  <2>5. IsEntry(f, ep[1]) /\ f.state = "used" /\ f.count = e.count /\ f.queue = e.queue
    BY <2>3, StateChanged
  <2>6. /\ IsTable(tab') /\ Entry(ep)' = f /\ \A d \in Endpoints \ {ep} : Entry(d)' = Entry(d)
    BY <1>1, <2>4, <2>5, OneEntry
  <2>7. hasmsg' \in [Procs -> BOOLEAN] /\ \A r \in Procs : r # q => hasmsg'[r] = hasmsg[r]
    BY <1>1, <2>2, <2>4 DEF Types
  <2>8. place[q] = pc[q] /\ q \in Actors /\ q # "netin" /\ q # "icmp_out" BY <1>1, <1>2, <2>2
  <2>9. PICK x : x = [place[q] EXCEPT !.at = "woken"] OBVIOUS
  <2>10. IsPlace(x) /\ x.at = "woken" /\ x.call = "recv" /\ x.ep = ep
         /\ ~Asks(x) /\ ~Gets(x) /\ ~Asks(place[q]) /\ ~Gets(place[q])
    <3>1. IsPlace(place[q]) /\ place[q].call = "recv" /\ place[q].ep = ep
      BY <2>2, <2>8 DEF Placed, Reads
    <3>2. IsPlace(x) /\ x.at = "woken" /\ x.call = "recv" /\ x.ep = ep BY <2>9, <3>1, AtChanged
    <3> QED BY <3>1, <3>2 DEF Asks, Gets
  <2>11. /\ Placed(pc') /\ AskIn(pc') = AskIn(place) /\ GetIn(pc') = GetIn(place)
         /\ UnsentIn(pc') = UnsentIn(place)
         /\ pc'[q].at = "woken" /\ pc'[q].call = "recv" /\ pc'[q].ep = ep
         /\ \A b \in Actors \ {q} : pc'[b] = place[b]
    <3>1. CASE pc[q].at = "recv"
      <4>1. pc' = Wake(place, {q}) BY <3>1, <2>4
      <4>2. PICK new : new = pc' OBVIOUS
      <4>3. Moves(place, q, x, new) BY <2>8, <2>9, <4>1, <4>2, WokenMoves
      <4>4. AskIn(new) = AskIn(place) /\ GetIn(new) = GetIn(place) /\ UnsentIn(new) = UnsentIn(place)
        BY ONLY Placed(place), <2>8, <2>10, <4>3, MovedElsewhere
      <4>5. Placed(new) /\ new[q] = x /\ \A b \in Actors \ {q} : new[b] = place[b]
        BY ONLY Placed(place), <2>8, <2>10, <4>3, Moved
      <4> QED BY <2>10, <4>2, <4>4, <4>5
    <3>2. CASE pc[q].at # "recv"
      <4>1. pc' = place BY <3>2, <2>4, <2>8
      <4>2. pc[q].at = "woken" /\ pc[q].call = "recv" /\ pc[q].ep = ep BY <2>2, <3>2 DEF Reads
      <4> QED BY <2>8, <4>1, <4>2
    <3> QED BY <3>1, <3>2
  <2>12. \A r \in Procs : (pc'[r] = pc[r] /\ hasmsg'[r] = hasmsg[r]) \/ Informed(r, ep)
    <3> SUFFICES ASSUME NEW r \in Procs
                 PROVE  (pc'[r] = pc[r] /\ hasmsg'[r] = hasmsg[r]) \/ Informed(r, ep)
      OBVIOUS
    <3>1. CASE r = q BY <3>1, <1>3, <2>1, <2>2, <2>11 DEF Informed
    <3>2. CASE r # q BY <3>2, <1>1, <1>2, <2>7, <2>11
    <3> QED BY <3>1, <3>2
  <2>13. pc'["netin"] = Idle /\ pc'["icmp_out"] = pc["icmp_out"] BY <1>2, <2>8, <2>11
  <2> QED BY <1>3, <2>1, <2>5, <2>6, <2>7, <2>11, <2>12, <2>13
<1>4. CASE e.state # "recv"
  <2>1. tab' = [tab EXCEPT ![ep[1]][ep[2]] = e] /\ pc' = place /\ UNCHANGED hasmsg
    BY <1>4 DEF Tell
  <2>2. /\ IsTable(tab') /\ Entry(ep)' = e /\ \A d \in Endpoints \ {ep} : Entry(d)' = Entry(d)
    BY <1>1, <2>1, OneEntry
  <2>3. hasmsg' \in [Procs -> BOOLEAN] /\ \A r \in Procs : pc'[r] = pc[r] /\ hasmsg'[r] = hasmsg[r]
    BY <1>1, <1>2, <2>1 DEF Types
  <2>4. pc'["netin"] = Idle /\ pc'["icmp_out"] = pc["icmp_out"] BY <1>2, <2>1
  <2> QED BY <1>4, <2>1, <2>2, <2>3, <2>4
<1> QED BY <1>3, <1>4

(* The endpoints when the reader of ep has been told. *)
LEMMA ToldStep ==
    ASSUME NetInv, Sane, NEW ep \in Endpoints, NEW e, IsEntry(e, ep[1]),
           e.state = Entry(ep).state, e.pid = Entry(ep).pid,
           NEW place, Placed(place), \A a \in Actors \ {"netin"} : place[a] = pc[a],
           place["netin"] = Idle, Tell(ep, e, place),
           pc["netin"].call = "next" => pc["netin"].ep = ep,
           UNCHANGED <<icoutq, mine, leaked>>, fault' \in Faults \cup {"none"}
    PROVE  Types' /\ Owned' /\ (\A d \in Endpoints : PidReads(d))' /\ ReaderTold'
<1>1. /\ Types /\ Owned /\ ReaderTold /\ \A d \in Endpoints : PidReads(d)
      /\ \A q \in Procs : ProcAt(q) /\ MessageFor(q) /\ q \in Actors
  BY Parts
<1>2. "netin" \in Actors /\ "icmp_out" \in Actors /\ "netin" \notin Procs /\ "icmp_out" \notin Procs
  BY Constants
<1>3. /\ Placed(pc') /\ pc'["netin"] = Idle /\ pc'["icmp_out"] = pc["icmp_out"]
      /\ hasmsg' \in [Procs -> BOOLEAN] /\ IsTable(tab')
  BY Telling
<1>4. /\ \A q \in Procs : \/ pc'[q] = pc[q] /\ hasmsg'[q] = hasmsg[q]
                          \/ Informed(q, ep)
      /\ Entry(ep).state = "recv" => pc'[Entry(ep).pid].at = "woken"
  BY Telling
<1>5. /\ \A d \in Endpoints \ {ep} : Entry(d)' = Entry(d)
      /\ Entry(ep)'.state = IF Entry(ep).state = "recv" THEN "used" ELSE Entry(ep).state
  BY Telling
<1>6. ASSUME NEW q \in Procs PROVE ProcAt(q)' /\ MessageFor(q)'
  <2>1. CASE pc'[q] = pc[q] /\ hasmsg'[q] = hasmsg[q] BY <2>1, <1>1 DEF ProcAt, MessageFor
  <2>2. CASE Informed(q, ep)
    <3>1. ep \in mine[q] BY <2>2, <1>1 DEF Informed, Reads, ProcAt
    <3> QED BY <2>2, <3>1 DEF Informed, ProcAt, MessageFor
  <2> QED BY <2>1, <2>2, <1>4
<1>7. Types'
  <2>1. PICK S : S = Procs \cup {"netin"} OBVIOUS
  <2>2. /\ \A a \in Actors \ S : Stays(a)
        /\ \A q \in Procs \ S : hasmsg'[q] = hasmsg[q] /\ mine'[q] = mine[q]
        /\ \A q \in Procs \cap S : ProcAt(q)' /\ MessageFor(q)'
        /\ "icmp_out" \notin S
    BY <1>2, <1>3, <1>6, <2>1 DEF Actors, Stays
  <2>3. NetinAt' BY <1>3, IdlePlace DEF NetinAt
  <2>4. mine' \in [Procs -> SUBSET Endpoints] /\ leaked' \in Nat BY <1>1 DEF Types
  <2> QED BY <1>1, <1>3, <2>2, <2>3, <2>4, TypesStay
<1>8. Owned'
  <2>1. /\ \A q \in Procs : mine'[q] = mine[q]
        /\ \A q \in Procs : (pc'[q].at \in Filling <=> pc[q].at \in Filling)
        /\ \A q \in Procs : pc[q].at \in Filling => pc'[q].ep = pc[q].ep
    BY <1>4 DEF Informed, Reads
  <2>2. \A d \in Endpoints : Entry(d)'.state = "free" <=> Entry(d).state = "free" BY <1>5
  <2> QED BY <1>1, <2>1, <2>2, OwnersStay
<1>9. ASSUME NEW d \in Endpoints PROVE PidReads(d)'
  <2> SUFFICES ASSUME Entry(d)'.state = "recv" PROVE PidReads(d)' BY DEF PidReads
  <2>1. d # ep BY <1>5
  <2>2. Entry(d)' = Entry(d) BY <1>5, <2>1
  <2>3. PICK q \in Procs : q = Entry(d).pid /\ Reads(q, d) BY <1>1, <2>2 DEF PidReads
  <2>4. pc'[q] = pc[q] BY <1>4, <2>1, <2>3 DEF Informed, Reads
  <2>5. Entry(d)'.pid = q /\ Reads(q, d)' BY <2>2, <2>3, <2>4 DEF Reads
  <2> QED BY <2>5 DEF PidReads, Reads
<1>10. ASSUME NEW q \in Procs PROVE Told(q)'
  <2> SUFFICES ASSUME pc'[q].at = "recv" PROVE Told(q)' BY DEF Told
  <2>1. pc'[q] = pc[q] BY <1>4 DEF Informed
  <2>2. PICK d \in Endpoints : d = pc[q].ep BY <1>1, <2>1 DEF Types, ProcAt
  <2>3. /\ Entry(d).state = "recv" /\ Entry(d).pid = q
        /\ Entry(d).count > 0 => pc["netin"].call = "next" /\ pc["netin"].ep = d
    BY <1>1, <2>1, <2>2 DEF ReaderTold
  <2>4. d # ep BY <1>4, <2>3
  <2>5. ~(Entry(d).count > 0) BY <2>3, <2>4
  <2>6. Entry(d)' = Entry(d) /\ pc'[q].ep = d BY <1>5, <2>1, <2>2, <2>4
  <2> QED BY <2>3, <2>5, <2>6 DEF Told, Entry
<1>11. (\A d \in Endpoints : PidReads(d))' BY <1>9
<1>12. ReaderTold' BY <1>10 DEF ReaderTold, Told
<1> QED BY <1>7, <1>8, <1>11, <1>12

LEMMA NetinNextStep ==
    ASSUME NetInv, NetinNext
    PROVE  NetInv'
<1> DEFINE a == "netin"
<1>1. PICK ep : ep = pc[a].ep OBVIOUS
<1>2. PICK place : place = [pc EXCEPT !["netin"] = Idle] OBVIOUS
<1>3. PICK e : e = Entry(ep) OBVIOUS
<1>4. /\ Sane /\ pc[a].at = "woken" /\ pc[a].call = "next" /\ Tell(ep, e, place)
      /\ UNCHANGED <<pool, icoutq, icosem, mine, leaked, fault>>
  BY <1>1, <1>2, <1>3 DEF NetinNext
<1>5. /\ Types /\ Sems /\ Room /\ Summed /\ NetinAt /\ Placed(pc)
  BY <1>4, Parts
<1>6. a \in Actors BY Constants
<1>7. ep \in Endpoints BY <1>1, <1>4, <1>5 DEF NetinAt
<1>8. IsEntry(e, ep[1]) /\ e.state = Entry(ep).state /\ e.pid = Entry(ep).pid
  BY <1>3, <1>5, <1>7, EntryTyped
<1>9. Moves(pc, a, Idle, place) BY <1>2 DEF Moves
<1>10. Placed(place) /\ place[a] = Idle /\ \A b \in Actors \ {a} : place[b] = pc[b]
  BY <1>5, <1>6, <1>9, IdlePlace, Moved
<1>11. /\ AskIn(place) = AskIn(pc) /\ IsFiniteSet(GetIn(place)) /\ UnsentIn(place) = UnsentIn(pc)
       /\ Cardinality(GetIn(place)) + 1 = Cardinality(GetIn(pc))
  <2>1. PICK old : old = pc OBVIOUS
  <2>2. Placed(old) /\ IsFiniteSet(GetIn(old)) /\ Gets(old[a]) /\ Moves(old, a, Idle, place)
    BY <1>4, <1>5, <1>9, <2>1 DEF Sems, Gets
  <2>3. /\ AskIn(place) = AskIn(old) /\ IsFiniteSet(GetIn(place))
        /\ Cardinality(GetIn(place)) + 1 = Cardinality(GetIn(old))
        /\ UnsentIn(place) = UnsentIn(old) \ {a}
    BY ONLY <1>6, <2>2, IdlePlace, Used
  <2>4. a \notin UnsentIn(old) BY <1>4, <2>1 DEF UnsentIn, Unsent
  <2> QED BY <2>1, <2>3, <2>4
<1>12. /\ AskIn(pc') = AskIn(place) /\ GetIn(pc') = GetIn(place) /\ UnsentIn(pc') = UnsentIn(place)
       /\ pc'[a] = Idle /\ pc'["icmp_out"] = pc["icmp_out"]
       /\ IsTable(tab') /\ \A d \in Endpoints \ {ep} : Entry(d)' = Entry(d)
       /\ Entry(ep)'.count = e.count /\ Entry(ep)'.queue = e.queue
  BY <1>4, <1>7, <1>8, <1>10, Telling
<1>13. Types' /\ Owned' /\ (\A d \in Endpoints : PidReads(d))' /\ ReaderTold'
  <2>1. fault' \in Faults \cup {"none"} BY <1>4, <1>5 DEF Types
  <2> QED BY <1>1, <1>4, <1>7, <1>8, <1>10, <2>1, ToldStep
<1>14. Sems' /\ InOutq' = InOutq /\ Sending' = Sending
  <2>1. Holds(pool', AskIn(pc')) /\ IsFiniteSet(GetIn(pc')) BY <1>4, <1>5, <1>11, <1>12 DEF Sems
  <2> QED BY <1>4, <1>5, <1>12, <2>1, OutAsItWas
<1>15. Room'
  <2>1. \A d \in Endpoints : Full(Entry(d)') BY <1>3, <1>5, <1>12 DEF Room, Full, Filled
  <2> QED BY <1>4, <1>5, <1>11, <1>12, <1>14, <2>1, RoomThen
<1>16. Summed'
  <2>1. PICK n : n = e.count OBVIOUS
  <2>2. /\ Cardinality(InRings') + n = Cardinality(InRings) + n /\ n \in Nat
        /\ Cardinality(InRings) \in Nat /\ Cardinality(InRings') \in Nat
    BY <1>3, <1>5, <1>7, <1>12, <2>1, RingChanged
  <2>3. PICK t, g, r : t = Tokens(pool') /\ g = Cardinality(GetIn(pc')) /\ r = Cardinality(InRings')
    OBVIOUS
  <2>4. Tokens(pool) \in Nat /\ Cardinality(GetIn(pc)) \in Nat BY <1>4, <1>5, SumNow
  <2>5. t \in Nat /\ t = Tokens(pool) BY <1>4, <2>3, <2>4
  <2>6. g \in Nat /\ g + 1 = Cardinality(GetIn(pc))
    <3>1. g = Cardinality(GetIn(place)) BY <1>12, <2>3
    <3>2. g \in Nat BY <1>11, <3>1, FS_CardinalityType
    <3> QED BY <1>11, <3>1, <3>2
  <2>7. r \in Nat /\ r = Cardinality(InRings) BY <2>2, <2>3
  <2>8. Spare = 0 BY <1>4 DEF Spare
  <2>9. Spare' = 1 BY <1>12, IdlePlace DEF Spare
  <2>10. t + g + r + 1 = Tokens(pool) + Cardinality(GetIn(pc)) + Cardinality(InRings) + Spare
    BY <2>4, <2>5, <2>6, <2>7, <2>8
  <2> QED BY <1>4, <1>14, <2>3, <2>5, <2>6, <2>7, <2>9, <2>10, SumMoved
<1> QED BY <1>13, <1>14, <1>15, <1>16, InvThen

(* One packet more in a ring. *)
LEMMA EnqueuedEntry ==
    ASSUME NEW proto \in Protos, NEW e, IsEntry(e, proto), e.count <= QSize(proto)
    PROVE  LET f == Enqueued(e, proto)
           IN  /\ IsEntry(f, proto) /\ f.state = e.state /\ f.pid = e.pid /\ f.count = e.count + 1
               /\ Full(e) /\ e.tail \notin Filled(e) => Full(f)
<1> DEFINE t == IF e.tail + 1 >= QSize(proto) THEN 0 ELSE e.tail + 1
           q == [e.queue EXCEPT ![e.tail] = TRUE]
           f == Enqueued(e, proto)
<1>1. e = [state |-> e.state, key |-> e.key, count |-> e.count, head |-> e.head,
           tail |-> e.tail, pid |-> e.pid, queue |-> e.queue]
  BY DEF IsEntry
<1>2. f = [e EXCEPT !.count = e.count + 1, !.queue = q, !.tail = t]
  BY <1>1 DEF Enqueued
<1>3. f = [state |-> e.state, key |-> e.key, count |-> e.count + 1, head |-> e.head,
           tail |-> t, pid |-> e.pid, queue |-> q]
  BY <1>1, <1>2
<1>4. /\ f.state = e.state /\ f.pid = e.pid /\ f.count = e.count + 1 /\ f.head = e.head /\ f.tail = t
      /\ f.queue = q
      /\ f = [state |-> f.state, key |-> f.key, count |-> f.count, head |-> f.head,
              tail |-> f.tail, pid |-> f.pid, queue |-> f.queue]
  BY <1>3
<1>5. QSize(proto) \in Nat \ {0} BY OneProto
<1>6. /\ e.count \in 0 .. QSize(proto) + 1 /\ e.tail \in 0 .. QSize(proto) - 1
      /\ e.queue \in [0 .. QSize(proto) - 1 -> BOOLEAN]
  BY DEF IsEntry
<1>7. t \in 0 .. QSize(proto) - 1 BY <1>5, <1>6
<1>8. e.count + 1 \in 0 .. QSize(proto) + 1 BY <1>5, <1>6
<1>9. /\ q \in [0 .. QSize(proto) - 1 -> BOOLEAN]
      /\ \A j \in 0 .. QSize(proto) - 1 : q[j] <=> j = e.tail \/ e.queue[j]
  BY <1>6
<1> HIDE DEF f, t, q
<1>10. IsEntry(f, proto) BY <1>4, <1>7, <1>8, <1>9 DEF IsEntry
<1>11. ASSUME Full(e), e.tail \notin Filled(e) PROVE Full(f)
  <2>1. ~e.queue[e.tail] BY <1>6, <1>11 DEF Filled
  <2>2. Cardinality(Marked(q)) = Cardinality(Marked(e.queue)) + 1
    BY <1>5, <1>6, <1>9, <2>1, OneMarked
  <2>3. Filled(e) = Marked(e.queue) /\ Filled(f) = Marked(q) BY <1>4, <1>10, RingFilled
  <2> QED BY <1>4, <1>11, <2>2, <2>3 DEF Full
<1>12. Full(e) /\ e.tail \notin Filled(e) => Full(f) BY <1>11
<1> QED BY <1>4, <1>10, <1>12 DEF f

LEMMA DeliverStep ==
    ASSUME NetInv, Sane, pc["netin"] = Idle, NEW ep \in Endpoints, Deliver(ep)
    PROVE  NetInv'
<1> DEFINE a == "netin"
<1>1. PICK e : e = Enqueued(Entry(ep), ep[1]) OBVIOUS
<1>2. PICK x : x = [Idle EXCEPT !.at = "wait", !.call = "next", !.ep = ep] OBVIOUS
<1>3. /\ FaultIf("overrun", Entry(ep).tail \in Filled(Entry(ep)))
      /\ IF pool.count > 0
         THEN pool' = Take(pool) /\ Tell(ep, e, pc)
         ELSE /\ pool' = WaitOn(pool, a)
              /\ pc' = [pc EXCEPT !["netin"] = x]
              /\ tab' = [tab EXCEPT ![ep[1]][ep[2]] = e]
              /\ UNCHANGED hasmsg
      /\ UNCHANGED <<icoutq, icosem, mine, leaked>>
  BY <1>1, <1>2 DEF Deliver, Entry
<1>4. /\ Types /\ Sems /\ Owned /\ Room /\ Summed /\ ReaderTold /\ Placed(pc)
      /\ \A d \in Endpoints : PidReads(d)
      /\ \A q \in Procs : ProcAt(q) /\ MessageFor(q) /\ q \in Actors
  BY Parts
<1>5. a \in Actors /\ "icmp_out" \in Actors /\ a \notin Procs /\ "icmp_out" \notin Procs BY Constants
<1>6. ep[1] \in Protos /\ QSize(ep[1]) \in Nat BY OneEndpoint, OneProto
<1>7. PICK d : d = Entry(ep) OBVIOUS
<1>8. IsEntry(d, ep[1]) /\ d.count <= QSize(ep[1]) /\ d.count \in Nat /\ Full(d)
  <2>1. IsEntry(d, ep[1]) /\ Full(d) BY <1>4, <1>7, EntryTyped DEF Room
  <2>2. Cardinality(Filled(d)) <= QSize(ep[1]) /\ Cardinality(Filled(d)) \in Nat
    BY <1>6, <2>1, RingFilled
  <2> QED BY <2>1, <2>2 DEF Full
<1>9. /\ IsEntry(e, ep[1]) /\ e.state = d.state /\ e.pid = d.pid /\ e.count = d.count + 1
      /\ d.tail \notin Filled(d) => Full(e)
  BY <1>1, <1>6, <1>7, <1>8, EnqueuedEntry
<1>10. fault' \in Faults \cup {"none"} /\ (Sane' => Full(e))
  <2>1. fault' = IF d.tail \in Filled(d) THEN "overrun" ELSE fault BY <1>3, <1>7 DEF FaultIf
  <2>2. fault' \in Faults \cup {"none"} BY <1>4, <2>1 DEF Types, Faults
  <2>3. ASSUME Sane' PROVE Full(e)
    <3>1. d.tail \notin Filled(d) BY <2>1, <2>3 DEF Sane
    <3> QED BY <1>9, <3>1
  <2> QED BY <2>2, <2>3
<1>11. pc[a].at = "user" /\ pc[a].call = "none" /\ ~Asks(pc[a]) /\ ~Gets(pc[a]) BY IdlePlace
<1>12. Spare = 1 BY <1>11 DEF Spare
<1>13. Holds(pool, AskIn(pc)) /\ Holds(icosem, WaitsForOut) /\ IsFiniteSet(GetIn(pc)) BY <1>4 DEF Sems
<1>14. CASE pool.count > 0
  <2>1. pool' = Take(pool) /\ Tell(ep, e, pc) BY <1>3, <1>14
  <2>2. PICK place : place = pc OBVIOUS
  <2>3. /\ Placed(place) /\ place[a] = Idle /\ \A b \in Actors \ {a} : place[b] = pc[b]
        /\ Tell(ep, e, place) /\ e.state = Entry(ep).state /\ e.pid = Entry(ep).pid
    BY <1>4, <1>7, <1>9, <2>1, <2>2
  <2>4. /\ AskIn(pc') = AskIn(place) /\ GetIn(pc') = GetIn(place)
        /\ UnsentIn(pc') = UnsentIn(place)
        /\ pc'[a] = Idle /\ pc'["icmp_out"] = pc["icmp_out"]
        /\ IsTable(tab') /\ \A c \in Endpoints \ {ep} : Entry(c)' = Entry(c)
        /\ Entry(ep)'.count = e.count /\ Entry(ep)'.queue = e.queue
    BY <1>9, <2>3, Telling
  <2>5. Types' /\ Owned' /\ (\A c \in Endpoints : PidReads(c))' /\ ReaderTold'
    <3>1. pc["netin"].call = "next" => pc["netin"].ep = ep BY <1>11
    <3> QED BY <1>3, <1>9, <1>10, <2>3, <3>1, ToldStep
  <2>6. Holds(pool', AskIn(pc')) /\ Tokens(pool') + 1 = Tokens(pool) /\ Tokens(pool') \in Nat
    <3>1. Holds(Take(pool), AskIn(pc)) /\ Tokens(Take(pool)) = Tokens(pool) - 1 /\ Tokens(pool) \in Nat
      BY <1>13, <1>14, TakeHolds
    <3>2. Tokens(pool) > 0 BY <1>14 DEF Tokens
    <3> QED BY <2>1, <2>2, <2>4, <3>1, <3>2
  <2>7. GetIn(pc') = GetIn(pc) /\ UnsentIn(pc') = UnsentIn(pc) BY <2>2, <2>4
  <2>8. Sems' /\ InOutq' = InOutq /\ Sending' = Sending
    <3>1. IsFiniteSet(GetIn(pc')) BY <1>13, <2>7
    <3> QED BY <1>3, <1>4, <2>4, <2>6, <3>1, OutAsItWas
  <2>9. Sane' => Room'
    <3> SUFFICES ASSUME Sane' PROVE Room' OBVIOUS
    <3>1. \A c \in Endpoints : Full(Entry(c)') BY <1>4, <1>10, <2>4 DEF Room, Full, Filled
    <3> QED BY <1>3, <1>4, <2>7, <2>8, <3>1, RoomThen
  <2>10. Summed'
    <3>1. PICK m, k : m = d.count /\ k = e.count OBVIOUS
    <3>2. /\ Cardinality(InRings') + m = Cardinality(InRings) + k /\ m \in Nat /\ k \in Nat
          /\ Cardinality(InRings) \in Nat /\ Cardinality(InRings') \in Nat
      BY <1>4, <1>7, <2>4, <3>1, RingChanged
    <3>3. PICK t, g, r : t = Tokens(pool') /\ g = Cardinality(GetIn(pc')) /\ r = Cardinality(InRings')
      OBVIOUS
    <3>4. Tokens(pool) \in Nat /\ Cardinality(GetIn(pc)) \in Nat BY <1>4, SumNow
    <3>5. t \in Nat /\ t + 1 = Tokens(pool) BY <2>6, <3>3
    <3>6. g \in Nat /\ g = Cardinality(GetIn(pc)) BY <2>7, <3>3, <3>4
    <3>7. r \in Nat /\ r = Cardinality(InRings) + 1 BY <1>9, <3>1, <3>2, <3>3
    <3>8. Spare' = 1 BY <2>4, IdlePlace DEF Spare
    <3>9. t + g + r + 1 = Tokens(pool) + Cardinality(GetIn(pc)) + Cardinality(InRings) + Spare
      BY <1>12, <3>2, <3>4, <3>5, <3>6, <3>7
    <3>10. leaked' = leaked BY <1>3
    <3> QED BY <2>8, <3>3, <3>5, <3>6, <3>7, <3>8, <3>9, <3>10, SumMoved
  <2> QED BY <2>5, <2>8, <2>9, <2>10, InvThen
<1>15. CASE ~(pool.count > 0)
  <2>1. /\ pool' = WaitOn(pool, a) /\ pc' = [pc EXCEPT !["netin"] = x]
        /\ tab' = [tab EXCEPT ![ep[1]][ep[2]] = e] /\ UNCHANGED hasmsg
    BY <1>3, <1>15
  <2>2. IsPlace(x) /\ x.at = "wait" /\ x.call = "next" /\ x.ep = ep /\ Asks(x)
    BY <1>2 DEF IsPlace, Idle, Asks
  <2>3. Moves(pc, a, x, pc') BY <2>1 DEF Moves
  <2>4. Placed(pc') /\ pc'[a] = x /\ \A b \in Actors \ {a} : pc'[b] = pc[b]
    BY <1>4, <1>5, <2>2, <2>3, Moved
  <2>5. /\ Holds(pool', AskIn(pc')) /\ GetIn(pc') = GetIn(pc) /\ Tokens(pool') = Tokens(pool)
        /\ UnsentIn(pc') = UnsentIn(pc)
    <3>1. PICK place, sem, new : place = pc /\ sem = pool /\ new = pc' OBVIOUS
    <3>2. sem.count <= 0 BY <1>13, <1>15, <3>1 DEF Holds
    <3>3. /\ Placed(place) /\ a \in Actors /\ ~Asks(place[a]) /\ ~Gets(place[a]) /\ IsPlace(x) /\ Asks(x)
          /\ Moves(place, a, x, new) /\ Holds(sem, AskIn(place))
      BY <1>4, <1>5, <1>11, <1>13, <2>2, <2>3, <3>1
    <3>4. Holds(WaitOn(sem, a), AskIn(new)) /\ GetIn(new) = GetIn(place)
          /\ Tokens(WaitOn(sem, a)) = Tokens(sem) /\ UnsentIn(new) = UnsentIn(place)
      BY ONLY <3>2, <3>3, Asked
    <3> QED BY <2>1, <3>1, <3>4
  <2>6. pc'["icmp_out"] = pc["icmp_out"] /\ \A q \in Procs : pc'[q] = pc[q] BY <1>4, <1>5, <2>4
  <2>7. /\ IsTable(tab') /\ Entry(ep)' = e /\ \A c \in Endpoints \ {ep} : Entry(c)' = Entry(c)
    BY <1>4, <1>9, <2>1, OneEntry
  <2>8. Types'
    <3>1. \A b \in Actors \ {a} : Stays(b) BY <2>4 DEF Stays
    <3>2. NetinAt' BY <2>2, <2>4 DEF NetinAt
    <3>3. Procs \cap {a} = {} /\ "icmp_out" \notin {a} BY <1>5
    <3>4. /\ hasmsg' \in [Procs -> BOOLEAN] /\ mine' \in [Procs -> SUBSET Endpoints] /\ leaked' \in Nat
          /\ \A q \in Procs : hasmsg'[q] = hasmsg[q] /\ mine'[q] = mine[q]
      BY <1>3, <1>4, <2>1 DEF Types
    <3> QED BY <1>3, <1>4, <1>10, <2>4, <2>7, <3>1, <3>2, <3>3, <3>4, TypesStay
  <2>9. Sems' /\ InOutq' = InOutq /\ Sending' = Sending
    <3>1. IsFiniteSet(GetIn(pc')) BY <1>13, <2>5
    <3> QED BY <1>3, <1>4, <2>5, <2>6, <3>1, OutAsItWas
  <2>10. Owned'
    <3>1. /\ \A q \in Procs : mine'[q] = mine[q]
          /\ \A q \in Procs : (pc'[q].at \in Filling <=> pc[q].at \in Filling)
          /\ \A q \in Procs : pc[q].at \in Filling => pc'[q].ep = pc[q].ep
      BY <1>3, <2>6
    <3>2. \A c \in Endpoints : Entry(c)'.state = "free" <=> Entry(c).state = "free" BY <1>7, <1>9, <2>7
    <3> QED BY <1>4, <3>1, <3>2, OwnersStay
  <2>11. ASSUME NEW c \in Endpoints PROVE PidReads(c)'
    <3> SUFFICES ASSUME Entry(c)'.state = "recv" PROVE PidReads(c)' BY DEF PidReads
    <3>1. Entry(c).state = "recv" /\ Entry(c)'.pid = Entry(c).pid BY <1>7, <1>9, <2>7
    <3>2. PICK q \in Procs : q = Entry(c).pid /\ Reads(q, c) BY <1>4, <3>1 DEF PidReads
    <3>3. Entry(c)'.pid = q /\ Reads(q, c)' BY <2>6, <3>1, <3>2 DEF Reads
    <3> QED BY <3>3 DEF PidReads, Reads
  <2>12. ASSUME NEW q \in Procs PROVE Told(q)'
    <3> SUFFICES ASSUME pc'[q].at = "recv" PROVE Told(q)' BY DEF Told
    <3>1. pc'[q] = pc[q] BY <2>6
    <3>2. PICK c \in Endpoints : c = pc[q].ep BY <1>4, <3>1 DEF Types, ProcAt
    <3>3. /\ Entry(c).state = "recv" /\ Entry(c).pid = q
          /\ Entry(c).count > 0 => pc[a].call = "next" /\ pc[a].ep = c
      BY <1>4, <3>1, <3>2 DEF ReaderTold
    <3>4. ~(Entry(c).count > 0) BY <1>11, <3>3
    <3>5. Entry(c)'.state = "recv" /\ Entry(c)'.pid = q /\ pc'[q].ep = c
      BY <1>7, <1>9, <2>7, <3>1, <3>2, <3>3
    <3>6. Entry(c)'.count > 0 => pc'[a].call = "next" /\ pc'[a].ep = c
      <4>1. CASE c = ep BY <4>1, <2>2, <2>4
      <4>2. CASE c # ep BY <4>2, <2>7, <3>4
      <4> QED BY <4>1, <4>2
    <3> QED BY <3>5, <3>6 DEF Told, Entry
  <2>13. (\A c \in Endpoints : PidReads(c))' BY <2>11
  <2>14. ReaderTold' BY <2>12 DEF ReaderTold, Told
  <2>15. Sane' => Room'
    <3> SUFFICES ASSUME Sane' PROVE Room' OBVIOUS
    <3>1. \A c \in Endpoints : Full(Entry(c)') BY <1>4, <1>10, <2>7 DEF Room
    <3> QED BY <1>3, <1>4, <2>5, <2>9, <3>1, RoomThen
  <2>16. Summed'
    <3>1. PICK m, k : m = d.count /\ k = e.count OBVIOUS
    <3>2. /\ Cardinality(InRings') + m = Cardinality(InRings) + k /\ m \in Nat /\ k \in Nat
          /\ Cardinality(InRings) \in Nat /\ Cardinality(InRings') \in Nat
      BY <1>4, <1>7, <2>7, <3>1, RingChanged
    <3>3. PICK t, g, r : t = Tokens(pool') /\ g = Cardinality(GetIn(pc')) /\ r = Cardinality(InRings')
      OBVIOUS
    <3>4. Tokens(pool) \in Nat /\ Cardinality(GetIn(pc)) \in Nat BY <1>4, SumNow
    <3>5. t \in Nat /\ t = Tokens(pool) BY <2>5, <3>3, <3>4
    <3>6. g \in Nat /\ g = Cardinality(GetIn(pc)) BY <2>5, <3>3, <3>4
    <3>7. r \in Nat /\ r = Cardinality(InRings) + 1 BY <1>9, <3>1, <3>2, <3>3
    <3>8. Spare' = 0 BY <2>2, <2>4 DEF Spare
    <3>9. t + g + r + 0 = Tokens(pool) + Cardinality(GetIn(pc)) + Cardinality(InRings) + Spare
      BY <1>12, <3>2, <3>4, <3>5, <3>6, <3>7
    <3>10. leaked' = leaked BY <1>3
    <3> QED BY <2>9, <3>3, <3>5, <3>6, <3>7, <3>8, <3>9, <3>10, SumMoved
  <2> QED BY <2>8, <2>9, <2>10, <2>13, <2>14, <2>15, <2>16, InvThen
<1> QED BY <1>14, <1>15
----------------------------------------------------------------------------
(***************************************************************************)
(* The invariant holds.                                                    *)
(***************************************************************************)
LEMMA PoolIsLarge ==
    /\ PoolSize \in Nat /\ PoolSize - 1 \in Nat
    /\ UDP_SLOTS * UDP_QSIZ + ICMP_SLOTS * ICMP_QSIZ + ICMP_OQSIZ + 1 = PoolSize
<1>1. PICK u \in Nat, i \in Nat : u = UDP_SLOTS * UDP_QSIZ /\ i = ICMP_SLOTS * ICMP_QSIZ
  <2>1. UDP_SLOTS * UDP_QSIZ \in Nat BY Constants
  <2>2. ICMP_SLOTS * ICMP_QSIZ \in Nat BY Constants
  <2> QED BY <2>1, <2>2
<1>2. PoolSize = u + i + ICMP_OQSIZ + 1 BY <1>1 DEF PoolSize
<1>3. ICMP_OQSIZ \in Nat BY Constants
<1> QED BY <1>1, <1>2, <1>3

LEMMA FreeEntryTyped ==
    ASSUME NEW proto \in Protos, NEW e, e = FreeEntry(proto)
    PROVE  IsEntry(e, proto) /\ e.state = "free" /\ e.count = 0 /\ Full(e)
<1>1. QSize(proto) \in Nat \ {0} BY OneProto
<1>2. /\ e.state = "free" /\ e.count = 0 /\ e.head = 0 /\ e.tail = 0
      /\ e.queue = [i \in 0 .. QSize(proto) - 1 |-> FALSE]
      /\ e = [state |-> e.state, key |-> e.key, count |-> e.count, head |-> e.head,
              tail |-> e.tail, pid |-> e.pid, queue |-> e.queue]
  BY DEF FreeEntry
<1>3. e.queue \in [0 .. QSize(proto) - 1 -> BOOLEAN] /\ \A j \in 0 .. QSize(proto) - 1 : ~e.queue[j]
  BY <1>2
<1>4. IsEntry(e, proto) BY <1>1, <1>2, <1>3 DEF IsEntry
<1>5. Cardinality(Marked(e.queue)) = 0 BY <1>1, <1>3, NoneMarked
<1>6. Filled(e) = Marked(e.queue) BY <1>4, RingFilled
<1> QED BY <1>2, <1>4, <1>5, <1>6 DEF Full

LEMMA InitInv == NetInit => NetInv
<1> SUFFICES ASSUME NetInit PROVE NetInv OBVIOUS
<1>1. /\ tab = [proto \in Protos |-> [i \in Slots(proto) |-> FreeEntry(proto)]]
      /\ pool = SemWith(PoolSize - 1) /\ icosem = WaitOn(SemWith(0), "icmp_out")
      /\ icoutq = [queue |-> [i \in 0 .. ICMP_OQSIZ - 1 |-> FALSE], head |-> 0, tail |-> 0]
      /\ hasmsg = [p \in Procs |-> FALSE]
      /\ pc = [a \in Actors |-> IF a = "icmp_out" THEN [Idle EXCEPT !.at = "wait"] ELSE Idle]
      /\ mine = [p \in Procs |-> {}]
      /\ leaked = 0 /\ fault = "none"
  BY DEF NetInit
<1>2. "netin" \in Actors /\ "icmp_out" \in Actors /\ "netin" \notin Procs /\ "icmp_out" \notin Procs
  BY Constants
<1>3. IsTable(tab) BY <1>1, FreeEntryTyped DEF IsTable
<1>4. \A ep \in Endpoints : Entry(ep).state = "free" /\ Entry(ep).count = 0 /\ Full(Entry(ep))
  <2> SUFFICES ASSUME NEW ep \in Endpoints
               PROVE  Entry(ep).state = "free" /\ Entry(ep).count = 0 /\ Full(Entry(ep))
    OBVIOUS
  <2>1. ep[1] \in Protos /\ ep[2] \in Slots(ep[1]) BY OneEndpoint
  <2>2. Entry(ep) = FreeEntry(ep[1]) BY <1>1, <2>1 DEF Entry
  <2> QED BY <2>1, <2>2, FreeEntryTyped
<1>5. /\ IsPlace(pc["icmp_out"]) /\ pc["icmp_out"].at = "wait" /\ pc["icmp_out"].call = "none"
  BY <1>1, <1>2 DEF Idle, IsPlace
<1>6. \A a \in Actors : a # "icmp_out" => pc[a] = Idle /\ pc[a].at = "user" /\ pc[a].call = "none"
  BY <1>1, IdlePlace
<1>7. Placed(pc)
  <2>1. \A a \in Actors : IsPlace(pc[a]) BY <1>5, <1>6, IdlePlace
  <2> QED BY <1>1, <2>1 DEF Placed
<1>8. Types
  <2>1. \A p \in Procs : ProcAt(p) /\ MessageFor(p) BY <1>1, <1>2, <1>6 DEF ProcAt, MessageFor, Actors
  <2>2. NetinAt /\ IcmpOutAt BY <1>2, <1>5, <1>6 DEF NetinAt, IcmpOutAt
  <2>3. OutTyped
    <3>1. ICMP_OQSIZ \in Nat \ {0} BY Constants
    <3>2. /\ icoutq.queue = [i \in 0 .. ICMP_OQSIZ - 1 |-> FALSE] /\ icoutq.head = 0 /\ icoutq.tail = 0
          /\ icoutq = [queue |-> icoutq.queue, head |-> icoutq.head, tail |-> icoutq.tail]
      BY <1>1
    <3> QED BY <3>1, <3>2 DEF OutTyped
  <2> QED BY <1>1, <1>3, <1>7, <2>1, <2>2, <2>3 DEF Types
<1>9. AskIn(pc) = {} /\ GetIn(pc) = {} /\ UnsentIn(pc) = {}
  <2>1. \A a \in Actors : ~Asks(pc[a]) /\ ~Gets(pc[a]) /\ ~Unsent(pc[a])
    BY <1>5, <1>6 DEF Asks, Gets, Unsent
  <2> QED BY <2>1 DEF AskIn, GetIn, UnsentIn
<1>10. Holds(pool, {}) /\ Tokens(pool) = PoolSize - 1
  <2>1. PICK n \in Nat : n = PoolSize - 1 BY PoolIsLarge
  <2> QED BY <1>1, <2>1, SemHolds
<1>11. Holds(icosem, {"icmp_out"}) /\ Tokens(icosem) = 0
  <2>1. PICK sem : sem = SemWith(0) OBVIOUS
  <2>2. Holds(sem, {}) /\ Tokens(sem) = 0
    <3>1. 0 \in Nat OBVIOUS
    <3> QED BY <2>1, <3>1, SemHolds
  <2>3. sem.count <= 0 BY <2>1 DEF SemWith
  <2>4. Holds(WaitOn(sem, "icmp_out"), {} \cup {"icmp_out"})
        /\ Tokens(WaitOn(sem, "icmp_out")) = Tokens(sem)
    BY <2>2, <2>3, WaitOnHolds
  <2>5. {} \cup {"icmp_out"} = {"icmp_out"} OBVIOUS
  <2> QED BY <1>1, <2>1, <2>2, <2>4, <2>5
<1>12. Sems
  <2>1. WaitsForOut = {"icmp_out"} BY <1>5 DEF WaitsForOut
  <2>2. IsFiniteSet({}) BY FS_EmptySet
  <2> QED BY <1>9, <1>10, <1>11, <2>1, <2>2 DEF Sems
<1>13. Owned
  <2>1. \A ep \in Endpoints, p \in Procs : ~Owns(p, ep)
    BY <1>1, <1>2, <1>6 DEF Owns, Fills, Actors
  <2>2. \A p \in Procs : pc[p].at \notin Filling BY <1>2, <1>6 DEF Actors
  <2> QED BY <1>4, <2>1, <2>2 DEF Owned
<1>14. InOutq = 0 /\ Sending = 0 /\ Spare = 1
  BY <1>2, <1>5, <1>6, <1>11 DEF InOutq, Sending, Spare
<1>15. Room
  <2>1. PICK q : q = icoutq.queue OBVIOUS
  <2>2. q \in [0 .. ICMP_OQSIZ - 1 -> BOOLEAN] /\ \A j \in 0 .. ICMP_OQSIZ - 1 : ~q[j]
    BY <1>1, <2>1
  <2>3. ICMP_OQSIZ \in Nat BY Constants
  <2>4. Cardinality(Marked(q)) = 0 BY <2>2, <2>3, NoneMarked
  <2>5. Filled(icoutq) = Marked(q) BY <2>1 DEF Filled, Marked
  <2>6. Cardinality({}) = 0 BY FS_EmptySet
  <2> QED BY <1>4, <1>9, <1>14, <2>4, <2>5, <2>6 DEF Room, OutRing
<1>16. \A ep \in Endpoints : PidReads(ep) BY <1>4 DEF PidReads
<1>17. ReaderTold
  <2>1. \A p \in Procs : pc[p].at # "recv" BY <1>2, <1>6 DEF Actors
  <2> QED BY <2>1 DEF ReaderTold
<1>18. Summed
  <2>1. InRings = {}
    <3>1. \A ep \in Endpoints : {ep} \X (1 .. Entry(ep).count) = {}
      <4> SUFFICES ASSUME NEW ep \in Endpoints PROVE {ep} \X (1 .. Entry(ep).count) = {} OBVIOUS
      <4>1. 1 .. Entry(ep).count = {} BY <1>4
      <4> QED BY <4>1
    <3> QED BY <3>1 DEF InRings
  <2>2. Cardinality({}) = 0 BY FS_EmptySet
  <2>3. PoolSize - 1 + 0 + 0 + 0 + 0 + 1 + 0 = PoolSize /\ PoolSize \in Nat BY PoolIsLarge
  <2> QED BY <1>1, <1>9, <1>10, <1>14, <2>1, <2>2, <2>3 DEF Summed
<1> QED BY <1>8, <1>12, <1>13, <1>15, <1>16, <1>17, <1>18 DEF NetInv

LEMMA Stutter == NetInv /\ UNCHANGED vars => NetInv'
<1> SUFFICES ASSUME NetInv, UNCHANGED vars PROVE NetInv' OBVIOUS
<1>1. UNCHANGED <<tab, pool, icoutq, icosem, icmpmutex, hasmsg, pc, mine, arrived, registered, leaked, fault>>
  BY DEF vars
<1>2. Types'
  <2>1. Types BY DEF NetInv
  <2>2. IsTable(tab)' /\ Placed(pc)' BY <1>1, <2>1 DEF Types, IsTable, Placed
  <2>3. (\A p \in Procs : ProcAt(p) /\ MessageFor(p))' BY <1>1, <2>1 DEF Types, ProcAt, MessageFor
  <2>4. NetinAt' /\ IcmpOutAt' BY <1>1, <2>1 DEF Types, NetinAt, IcmpOutAt
  <2>5. OutTyped' BY <1>1, <2>1 DEF Types, OutTyped
  <2> QED BY <1>1, <2>1, <2>2, <2>3, <2>4, <2>5 DEF Types
<1>3. ASSUME Sane'
      PROVE  Sems' /\ Owned' /\ Room' /\ (\A ep \in Endpoints : PidReads(ep))'
             /\ Summed' /\ ReaderTold'
  <2>1. Sane BY <1>1, <1>3 DEF Sane
  <2>2. \A q \in Procs : pc'[q] = pc[q] BY <1>1
  <2>3. Owned' /\ (\A ep \in Endpoints : PidReads(ep))' /\ ReaderTold'
    BY <1>1, <1>2, <2>1, <2>2, EndpointsStay
  <2>4. Sems' BY <1>1, <2>1, SemsStay, Parts
  <2>5. Room'
    <3>1. Room /\ \A ep \in Endpoints : Full(Entry(ep)') BY <1>1, <2>1, Parts, TableStays
    <3>2. UNCHANGED icoutq /\ InOutq' = InOutq /\ UnsentIn(pc') = UnsentIn(pc)
      BY <1>1 DEF InOutq, Tokens
    <3> QED BY <3>1, <3>2, RoomThen
  <2>6. Summed'
    <3>1. /\ Cardinality(InRings') + 0 = Cardinality(InRings) + 0 /\ Cardinality(InRings') \in Nat
          /\ leaked' = leaked + 0
      BY <1>1, <2>1, TableStays
    <3>2. /\ Tokens(pool') = Tokens(pool) /\ Cardinality(GetIn(pc')) = Cardinality(GetIn(pc))
          /\ InOutq' = InOutq /\ Sending' = Sending /\ Spare' = Spare
      BY <1>1 DEF InOutq, Sending, Spare, Tokens
    <3>3. 0 \in Nat /\ 0 + 0 = 0 OBVIOUS
    <3> QED BY <2>1, <3>1, <3>2, <3>3, SumStays
  <2> QED BY <2>3, <2>4, <2>5, <2>6
<1> QED BY <1>2, <1>3, InvThen

LEMMA NextInv == NetInv /\ [NetNext]_vars => NetInv'
<1> SUFFICES ASSUME NetInv, [NetNext]_vars PROVE NetInv' OBVIOUS
<1>1. CASE UNCHANGED vars BY <1>1, Stutter
<1>2. ASSUME NEW src \in Hosts, NEW port \in Ports, UdpIn(src, port) PROVE NetInv'
  <2>1. PICK i \in Slots("udp") : Deliver(<<"udp", i>>) BY <1>2 DEF UdpIn
  <2>2. Sane /\ pc["netin"] = Idle BY <1>2 DEF UdpIn, Reading
  <2>3. <<"udp", i>> \in Endpoints BY OneProto DEF Protos
  <2> QED BY <2>1, <2>2, <2>3, DeliverStep
<1>3. ASSUME NEW src \in Hosts, NEW i \in Slots("icmp"), IcmpIn(src, i) PROVE NetInv'
  <2>1. Deliver(<<"icmp", i>>) /\ Sane /\ pc["netin"] = Idle BY <1>3 DEF IcmpIn, Reading
  <2>2. <<"icmp", i>> \in Endpoints BY OneProto DEF Protos
  <2> QED BY <2>1, <2>2, DeliverStep
<1>4. CASE NetinNext BY <1>4, NetinNextStep
<1>5. CASE EchoReply \/ EchoReplyWoken BY <1>5, EchoReplyStep, EchoReplyWokenStep
<1>6. CASE IcmpOutTakes \/ IcmpOutSent BY <1>6, IcmpOutTakesStep, IcmpOutSentStep
<1>7. ASSUME NEW p \in Procs, NEW key, UdpSearch(p, key) PROVE NetInv' BY <1>7, UdpSearchStep
<1>8. ASSUME NEW p \in Procs, NEW host, IcmpClaim(p, host) PROVE NetInv' BY <1>8, IcmpClaimStep
<1>9. ASSUME NEW p \in Procs, UdpClaim(p) \/ Timeout(p) \/ RecvWoken(p) PROVE NetInv'
  BY <1>9, UdpClaimStep, TimeoutStep, RecvWokenStep
<1>11. ASSUME NEW p \in Procs, FillPort(p) \/ FillHost(p) \/ FillCount(p) \/ FillHeads(p) PROVE NetInv'
  BY <1>11, FillKeyStep, FillCountStep, FillHeadsStep
<1>12. ASSUME NEW p \in Procs, IcmpSend(p) \/ IcmpLoad(p) \/ IcmpAdvance(p) \/ IcmpStore(p) PROVE NetInv'
  BY <1>12, IcmpSendStep, IcmpLoadStep, IcmpAdvanceStep, IcmpStoreStep
<1>13. ASSUME NEW p \in Procs, IcmpTest(p) \/ IcmpWrap(p) \/ IcmpSignal(p) PROVE NetInv'
  BY <1>13, IcmpTestStep, IcmpSignalStep
<1>10. ASSUME NEW p \in Procs, NEW ep \in mine[p], Recv(p, ep) \/ RecvWait(p, ep) \/ Release(p, ep)
       PROVE  NetInv'
  BY <1>10, RecvStep, RecvWaitStep, ReleaseStep
<1> QED BY <1>1, <1>2, <1>3, <1>4, <1>5, <1>6, <1>7, <1>8, <1>9, <1>10, <1>11, <1>12,
          <1>13
    DEF NetNext

THEOREM NetInvHolds == NetSpec => []NetInv
BY InitInv, NextInv, PTL DEF NetSpec
----------------------------------------------------------------------------
(***************************************************************************)
(* What the runs check, for every value of the constants.                  *)
(***************************************************************************)
(* Buffers are neither lost nor used twice until one of the faults: each   *)
(* one is in the pool, in a ring, in a place of icoutq, with icmp_out,     *)
(* netin or a sender, promised to a waiter, or was forgotten by a          *)
(* registration.                                                           *)
THEOREM BuffersAreAccounted == NetSpec => []BuffersAccounted
<1>1. ASSUME NetInv PROVE BuffersAccounted
  <2> SUFFICES ASSUME Sane PROVE BuffersAccounted BY DEF BuffersAccounted
  <2>1. /\ Types /\ Sems /\ Room /\ IcmpOutAt /\ NetinAt /\ \A p \in Procs : ProcAt(p) BY <1>1, Parts
  <2>2. IsFiniteSet(GetIn(pc)) /\ UnsentIn(pc) \subseteq GetIn(pc)
    BY <1>1, <2>1, UnsentCounted DEF Sems
  <2>3. GetIn(pc) = Holding \cup UnsentIn(pc) /\ Holding \cap UnsentIn(pc) = {}
    <3>1. \A a \in Actors : Gets(pc[a]) <=> a \in Holding \/ Unsent(pc[a])
      <4> SUFFICES ASSUME NEW a \in Actors PROVE Gets(pc[a]) <=> a \in Holding \/ Unsent(pc[a])
        OBVIOUS
      <4>1. CASE a \in Procs BY <2>1, <4>1 DEF ProcAt, Gets, Unsent, Holding
      <4>2. CASE a = "netin" BY <2>1, <4>2 DEF NetinAt, Gets, Unsent, Holding
      <4>3. CASE a = "icmp_out" BY <2>1, <4>3 DEF IcmpOutAt, Gets, Unsent, Holding
      <4> QED BY <4>1, <4>2, <4>3 DEF Actors
    <3>2. \A a \in Holding : a \in Actors /\ ~Unsent(pc[a]) BY DEF Holding, Unsent
    <3> QED BY <3>1, <3>2 DEF GetIn, UnsentIn
  <2>4. IsFiniteSet(Holding) /\ IsFiniteSet(UnsentIn(pc)) BY <2>2, <2>3, FS_Subset
  <2>5. /\ Cardinality(GetIn(pc)) = Cardinality(Holding) + Cardinality(UnsentIn(pc))
        /\ Cardinality(Holding) \in Nat
    BY <2>3, <2>4, CardinalityOfBoth
  <2>6. Cardinality(UnsentIn(pc)) \in Nat BY <2>4, FS_CardinalityType
  <2>7. Cardinality(Filled(icoutq)) = InOutq + Cardinality(UnsentIn(pc)) BY <2>1 DEF Room, OutRing
  <2>8. /\ Tokens(pool) + Cardinality(GetIn(pc)) + Cardinality(InRings) + InOutq + Sending + Spare
               + leaked = PoolSize
        /\ Tokens(pool) \in Nat /\ Cardinality(InRings) \in Nat /\ InOutq \in Nat
        /\ Sending \in {0, 1} /\ Spare \in {0, 1} /\ leaked \in Nat
    BY <1>1, <2>1, Parts, SumNow
  <2>9. Tokens(pool) + Cardinality(Holding) + Cardinality(InRings) + Cardinality(Filled(icoutq))
            + Sending + Spare + leaked = PoolSize
    BY <2>5, <2>6, <2>7, <2>8
  <2> QED BY <2>9 DEF BuffersAccounted, Sending, Spare
<1> QED BY <1>1, NetInvHolds, PTL

(* A process that waits in recvtime() is the one its endpoint tells, and   *)
(* its ring is empty unless netin is on its way to tell it.                *)
THEOREM ReadersAreTold == NetSpec => []ReaderTold
BY NetInvHolds, PTL DEF NetInv

(* Entries and places have their types; an entry in use has an owner, and  *)
(* a message is only there for a reader whose wait is over.  The head of a *)
(* ring, which is wrapped at the number of slots, is a place of it when    *)
(* there are no more slots than places: 6 and 8 in udp.h and icmp.h.       *)
THEOREM NetTypesHold ==
    ASSUME UDP_SLOTS <= UDP_QSIZ, ICMP_SLOTS <= ICMP_QSIZ
    PROVE  NetSpec => []NetTypeOK
<1>1. ASSUME NetInv PROVE NetTypeOK
  <2>1. Types BY <1>1 DEF NetInv
  <2>2. ASSUME NEW ep \in Endpoints
        PROVE  /\ Entry(ep).state \in {"free", "used", "recv"}
               /\ Entry(ep).count \in 0 .. QSize(ep[1]) + 1
               /\ {Entry(ep).head, Entry(ep).tail} \subseteq 0 .. QSize(ep[1]) - 1
               /\ Sane => Entry(ep).count = Cardinality(Filled(Entry(ep)))
               /\ Entry(ep).state # "free" /\ Sane =>
                      \E p \in Procs : ep \in mine[p] \/ (pc[p].at \in Filling /\ pc[p].ep = ep)
    <3>1. PICK e : e = Entry(ep) OBVIOUS
    <3>2. /\ e.state \in {"free", "used", "recv"} /\ e.count \in 0 .. QSize(ep[1]) + 1
          /\ e.head \in Nat /\ (e.head < QSize(ep[1]) \/ e.head < Cardinality(Slots(ep[1])))
          /\ e.tail \in 0 .. QSize(ep[1]) - 1
      BY <2>1, <3>1, EntryTyped DEF IsEntry
    <3>3. QSize(ep[1]) \in Nat /\ Cardinality(Slots(ep[1])) \in Nat
          /\ Cardinality(Slots(ep[1])) <= QSize(ep[1])
      <4>1. ep[1] \in Protos BY OneEndpoint
      <4>2. QSize(ep[1]) \in Nat /\ Cardinality(Slots(ep[1])) \in Nat BY <4>1, OneProto
      <4>3. PICK n \in Nat \ {0} : n <= QSize(ep[1]) /\ Slots(ep[1]) = 1 .. n
        BY <4>1, Constants DEF Protos, Slots, QSize
      <4>4. 1 \in Int /\ n \in Int /\ ~(1 > n) /\ n - 1 + 1 = n OBVIOUS
      <4>5. Cardinality(1 .. n) = n BY <4>4, FS_Interval
      <4> QED BY <4>2, <4>3, <4>5
    <3>4. e.head \in 0 .. QSize(ep[1]) - 1 BY <3>2, <3>3
    <3>5. ASSUME e.state # "free", Sane
          PROVE  \E p \in Procs : ep \in mine[p] \/ (pc[p].at \in Filling /\ pc[p].ep = ep)
      BY <1>1, <3>1, <3>5, Parts DEF Owned, Owns, Fills
    <3>6. ASSUME Sane PROVE e.count = Cardinality(Filled(e)) BY <1>1, <3>1, <3>6, Parts DEF Room, Full
    <3> QED BY <3>1, <3>2, <3>4, <3>5, <3>6
  <2>3. \A p \in Procs : hasmsg[p] => pc[p].at = "woken" /\ pc[p].call = "recv"
    BY <2>1 DEF Types, MessageFor
  <2> QED BY <2>1, <2>2, <2>3 DEF Types, OutTyped, NetTypeOK
<1> QED BY <1>1, NetInvHolds, PTL

LEMMA NobodyTakes ==
    ASSUME NEW sem, NEW P, Holds(sem, P), P # {}
    PROVE  Tokens(sem) = 0
BY DEF Holds, Tokens, Lists

LEMMA RingsInPlaces ==
    ASSUME NetInv, Sane
    PROVE  Cardinality(InRings) <= UDP_SLOTS * UDP_QSIZ + ICMP_SLOTS * ICMP_QSIZ
<1>1. Types /\ Room BY Parts
<1>2. InRings \subseteq Places
  <2> SUFFICES ASSUME NEW ep \in Endpoints, NEW x \in {ep} \X (1 .. Entry(ep).count)
               PROVE  x \in Places
    BY DEF InRings
  <2>2. ep[1] \in Protos /\ ep[2] \in Slots(ep[1]) /\ ep = <<ep[1], ep[2]>> BY OneEndpoint
  <2>1. Entry(ep).count \in Nat /\ Entry(ep).count <= QSize(ep[1])
    <3>1. PICK e : e = Entry(ep) OBVIOUS
    <3>2. IsEntry(e, ep[1]) /\ Full(e) BY <1>1, <3>1, EntryTyped DEF Room
    <3> QED BY <2>2, <3>1, <3>2, RingFilled DEF Full
  <2>3. QSize(ep[1]) \in Nat BY <2>2, OneProto
  <2>4. x = <<ep, x[2]>> /\ x[2] \in 1 .. QSize(ep[1]) BY <2>1, <2>3
  <2>5. CASE ep[1] = "udp" BY <2>2, <2>4, <2>5 DEF Places, QSize
  <2>6. CASE ep[1] = "icmp" BY <2>2, <2>4, <2>6 DEF Places, QSize
  <2> QED BY <2>2, <2>5, <2>6 DEF Protos
<1>3. Cardinality(InRings) <= Cardinality(Places) /\ Cardinality(InRings) \in Nat
  BY <1>2, PlacesCounted, FS_Subset, FS_CardinalityType
<1>4. PICK n \in Int : n = UDP_SLOTS * UDP_QSIZ + ICMP_SLOTS * ICMP_QSIZ
  <2>1. UDP_SLOTS * UDP_QSIZ \in Int BY Constants
  <2>2. ICMP_SLOTS * ICMP_QSIZ \in Int BY Constants
  <2> QED BY <2>1, <2>2
<1>5. Cardinality(Places) <= n /\ Cardinality(Places) \in Nat BY <1>4, PlacesCounted
<1> QED BY <1>3, <1>4, <1>5

(* netin waits for a buffer only while icmp_out has one to give back, or a *)
(* process is about to queue one, or one was forgotten, or after a fault:  *)
(* even when every ring is full the pool has more.                         *)
THEOREM NetinGoesOnHolds == NetSpec => []NetinGoesOn
<1>1. ASSUME NetInv PROVE NetinGoesOn
  <2> SUFFICES ASSUME Sane, pc["netin"].at = "wait", ~(leaked > 0), pc["icmp_out"].at = "wait",
                      \A p \in Procs : ~(pc[p].call = "send" /\ pc[p].at # "wait")
               PROVE  FALSE
    BY DEF NetinGoesOn
  <2>1. /\ Types /\ Sems /\ Summed /\ NetinAt /\ IcmpOutAt
        /\ \A p \in Procs : ProcAt(p)
    BY <1>1, Parts
  <2>2. Holds(pool, AskIn(pc)) /\ Holds(icosem, WaitsForOut) BY <2>1 DEF Sems
  <2>3. Tokens(pool) = 0
    <3>1. "netin" \in AskIn(pc) BY <2>1, Constants DEF NetinAt, AskIn, Asks
    <3> QED BY <2>2, <3>1, NobodyTakes
  <2>4. Tokens(icosem) = 0
    <3>1. "icmp_out" \in WaitsForOut BY DEF WaitsForOut
    <3> QED BY <2>2, <3>1, NobodyTakes
  <2>5. InOutq = 0 /\ Sending = 0 BY <2>4 DEF InOutq, Sending
  <2>6. Cardinality(GetIn(pc)) = 0
    <3>1. \A p \in Procs : ~Gets(pc[p]) BY <2>1 DEF ProcAt, Gets
    <3>2. ~Gets(pc["netin"]) /\ ~Gets(pc["icmp_out"]) BY DEF Gets
    <3>3. GetIn(pc) = {} BY <3>1, <3>2 DEF GetIn, Actors
    <3> QED BY <3>3, FS_EmptySet
  <2>7. /\ Tokens(pool) + Cardinality(GetIn(pc)) + Cardinality(InRings) + InOutq + Sending + Spare
               + leaked = PoolSize
        /\ Cardinality(InRings) \in Nat /\ Spare \in {0, 1} /\ leaked \in Nat
    BY <2>1, SumNow
  <2>8. Cardinality(InRings) + Spare = PoolSize BY <2>3, <2>5, <2>6, <2>7
  <2>9. PICK n \in Int : n = UDP_SLOTS * UDP_QSIZ + ICMP_SLOTS * ICMP_QSIZ
    <3>1. UDP_SLOTS * UDP_QSIZ \in Int BY Constants
    <3>2. ICMP_SLOTS * ICMP_QSIZ \in Int BY Constants
    <3> QED BY <3>1, <3>2
  <2>10. Cardinality(InRings) <= n BY <1>1, <2>9, RingsInPlaces
  <2>11. PoolSize = n + ICMP_OQSIZ + 1 BY <2>9 DEF PoolSize
  <2>12. ICMP_OQSIZ \in Nat \ {0} BY Constants
  <2> QED BY <2>7, <2>8, <2>9, <2>10, <2>11, <2>12
<1> QED BY <1>1, NetInvHolds, PTL
=============================================================================
