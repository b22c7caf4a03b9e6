--------------------------- MODULE XinuEthProofs ----------------------------
(***************************************************************************)
(* The Ethernet driver, for rings, an input buffer and a number of writers *)
(* of any size, and whatever the controller does: the interrupt handler    *)
(* always finds a buffer to put in the place of one it hands on.           *)
(*                                                                         *)
(* The buffers of the input pool are in the receive ring, in the input     *)
(* buffer, or free.  That the free ones are as many as the free places of  *)
(* the input buffer depends on ethRead() finding a packet whenever its     *)
(* wait() is over, which depends on the semaphore counting the packets,    *)
(* also while the reader has been made ready and has not run.              *)
(*                                                                         *)
(* Then the order of the frames in the two rings of input, and the         *)
(* buffers of the output ring.                                             *)
(***************************************************************************)
EXTENDS XinuEth, XinuQueueProofs

Points == {"user", "wait", "woken", "filled"}
Places == [at : Points, tail : Int]
Sems == [count : Int, queue : Seq(Procs)]

EthTypes ==
    /\ rxRing \in [RxPlaces -> Int] /\ rxHead \in RxPlaces /\ rxDMA \in RxPlaces
    /\ in \in [0 .. ETH_IBUFSIZ - 1 -> Int]
    /\ istart \in 0 .. ETH_IBUFSIZ - 1 /\ icount \in 0 .. ETH_IBUFSIZ
    /\ frames \in Nat
    /\ txHead \in Nat /\ txTail \in Nat /\ txHead <= txTail
    /\ pc \in [Procs -> Places]
    /\ isema \in Sems /\ inPool \in Sems /\ outPool \in Sems

(* The packets in the input buffer are there, and the pool has a buffer    *)
(* for each other place of it.                                             *)
InputBuffer ==
    /\ \A j \in 0 .. icount - 1 : in[(istart + j) % ETH_IBUFSIZ] # None
    /\ inPool.queue = <<>> /\ inPool.count = ETH_IBUFSIZ - icount

ReaderWaits == pc[Netin].at = "wait" /\ Reading(Netin)
ReaderWoken == pc[Netin].at = "woken" /\ Reading(Netin)

(* The semaphore counts the packets, with one that the reader was given,   *)
(* and only the reader waits for it.                                       *)
InputCounted ==
    /\ icount = Tokens(isema) + (IF ReaderWoken THEN 1 ELSE 0)
    /\ \/ isema.queue = <<>> /\ isema.count >= 0 /\ ~ReaderWaits
       \/ isema.queue = <<Netin>> /\ isema.count = -1 /\ ReaderWaits

(* Those who wait for an output buffer do so once, and are writers. *)
WaitsToWrite(queue, place) ==
    /\ \A i, j \in 1 .. Len(queue) : queue[i] = queue[j] => i = j
    /\ \A i \in 1 .. Len(queue) : place[queue[i]].at = "wait" /\ place[queue[i]].tail # -1

Writers == WaitsToWrite(outPool.queue, pc)

EthInv == EthTypes /\ InputBuffer /\ InputCounted /\ Writers

(* A nonempty set of numbers up to n has a greatest element. *)
LEMMA MaxIsIn ==
    ASSUME NEW n \in Nat, NEW S, S \subseteq 0 .. n, S # {}
    PROVE  Max(S) \in S
<1> DEFINE T == {n - k : k \in S}
<1>1. T \subseteq Nat /\ T # {}
  <2>1. \A k \in S : n - k \in Nat OBVIOUS
  <2>2. PICK k \in S : TRUE OBVIOUS
  <2>3. n - k \in T BY <2>2
  <2> QED BY <2>1, <2>3
<1>2. PICK x \in T : \A y \in T : x <= y BY <1>1, LeastExists
<1>3. PICK k \in S : x = n - k BY <1>2
<1>4. \A l \in S : n - k <= n - l BY <1>2, <1>3
<1>5. \A l \in S : l <= k BY <1>4
<1> QED BY <1>5 DEF Max

(* What signaln() does to those who wait: some of them are made ready, and *)
(* the others still wait.                                                  *)
LEMMA SignalledWriters ==
    ASSUME NEW sem \in Sems, NEW n \in Nat, NEW place \in [Procs -> Places],
           WaitsToWrite(sem.queue, place)
    PROVE  /\ SignalnOn(sem, n) \in Sems
           /\ Released(sem, n) \subseteq Procs
           /\ \A p \in Released(sem, n) : place[p].at = "wait" /\ place[p].tail # -1
           /\ WaitsToWrite(SignalnOn(sem, n).queue, Wake(place, Released(sem, n)))
<1> DEFINE q == sem.queue
           m == Min({n, Len(q)})
           r == SubSeq(q, m + 1, Len(q))
<1>1. q \in Seq(Procs) /\ Len(q) \in Nat /\ sem.count \in Int
      /\ \A i \in 1 .. Len(q) : q[i] \in Procs
  BY DEF Sems
<1>2. m \in 0 .. Len(q)
  <2>1. m = IF n <= Len(q) THEN n ELSE Len(q) BY <1>1, MinOfTwo
  <2> HIDE DEF m
  <2> QED BY <2>1, <1>1
<1>3. Released(sem, n) = {q[i] : i \in 1 .. m} BY DEF Released
<1>4. SignalnOn(sem, n) = [count |-> sem.count + n, queue |-> r] BY DEF SignalnOn
<1> HIDE DEF m
<1>5. /\ r \in Seq(Procs) /\ Len(r) = Len(q) - m
      /\ \A i \in 1 .. Len(q) - m : r[i] = q[m + i]
  <2>1. m + 1 \in Int /\ Len(q) \in Int BY <1>1, <1>2
  <2>2. \A i \in m + 1 .. Len(q) : q[i] \in Procs BY <1>1, <1>2
  <2>3. Len(r) = IF m + 1 <= Len(q) THEN Len(q) - (m + 1) + 1 ELSE 0
    BY <2>1, <2>2, <1>1, SubSeqProperties
  <2>4. \A i \in 1 .. Len(q) - (m + 1) + 1 : r[i] = q[m + 1 + i - 1]
    BY <2>1, <2>2, <1>1, SubSeqProperties
  <2>5. r \in Seq(Procs) BY <2>1, <2>2, <1>1, SubSeqProperties
  <2> HIDE DEF r, q
  <2> QED BY <2>3, <2>4, <2>5, <1>1, <1>2
<1> HIDE DEF r, q
<1>6. SignalnOn(sem, n) \in Sems BY <1>1, <1>4, <1>5 DEF Sems
<1>7. \A i \in 1 .. Len(q) : place[q[i]].at = "wait" /\ place[q[i]].tail # -1
      /\ \A j \in 1 .. Len(q) : q[i] = q[j] => i = j
  BY DEF WaitsToWrite, q
<1>8. \A p \in Released(sem, n) : p \in Procs /\ place[p].at = "wait" /\ place[p].tail # -1
  BY <1>1, <1>2, <1>3, <1>7
<1>9. WaitsToWrite(r, Wake(place, Released(sem, n)))
  <2>1. \A i \in 1 .. Len(r) : r[i] = q[m + i] /\ m + i \in 1 .. Len(q)
    BY <1>1, <1>2, <1>5
  <2>2. \A i \in 1 .. Len(r) : r[i] \in Procs /\ r[i] \notin Released(sem, n)
    <3> SUFFICES ASSUME NEW i \in 1 .. Len(r) PROVE r[i] \in Procs /\ r[i] \notin Released(sem, n)
      OBVIOUS
    <3>1. \A j \in 1 .. m : q[j] # q[m + i] BY <1>1, <1>2, <1>5, <1>7, <2>1
    <3> QED BY <1>1, <1>3, <2>1, <3>1
  <2>3. \A i \in 1 .. Len(r) : Wake(place, Released(sem, n))[r[i]] = place[r[i]]
    BY <2>2 DEF Wake
  <2>4. \A i \in 1 .. Len(r) : place[r[i]].at = "wait" /\ place[r[i]].tail # -1
    BY <2>1, <1>7
  <2>5. \A i, j \in 1 .. Len(r) : r[i] = r[j] => i = j
    BY SMTT(30), <1>1, <1>2, <1>5, <1>7, <2>1
  <2> QED BY <2>3, <2>4, <2>5 DEF WaitsToWrite
<1> QED BY <1>4, <1>6, <1>8, <1>9

LEMMA EthInitInv == EthInit => EthInv
<1> SUFFICES ASSUME EthInit PROVE EthInv OBVIOUS
<1> USE EthAssumption DEF EthInit
<1>1. Idle \in Places /\ Idle.at = "user" BY DEF Idle, Places, Points
<1>2. /\ isema = [count |-> 0, queue |-> <<>>]
      /\ inPool = [count |-> ETH_IBUFSIZ, queue |-> <<>>]
      /\ outPool = [count |-> ETH_TX_RING_ENTRIES, queue |-> <<>>]
  BY DEF SemWith, InPoolSize
<1>3. <<>> \in Seq(Procs) /\ Len(<<>>) = 0 OBVIOUS
<1>4. EthTypes
  <2>0. {0, ETH_IBUFSIZ, ETH_TX_RING_ENTRIES} \subseteq Int OBVIOUS
  <2>1. isema \in Sems /\ inPool \in Sems /\ outPool \in Sems
    BY ONLY <1>2, <1>3, <2>0 DEF Sems
  <2>2. 0 \in RxPlaces /\ 0 \in 0 .. ETH_IBUFSIZ - 1 /\ 0 \in 0 .. ETH_IBUFSIZ
    BY DEF RxPlaces
  <2>3. rxRing \in [RxPlaces -> Int] BY DEF Empty
  <2>4. in \in [0 .. ETH_IBUFSIZ - 1 -> Int] BY DEF None
  <2>5. pc \in [Procs -> Places] BY <1>1
  <2> QED BY <2>1, <2>2, <2>3, <2>4, <2>5 DEF EthTypes
<1>5. InputBuffer BY <1>2 DEF InputBuffer
<1>6. InputCounted BY <1>1, <1>2 DEF InputCounted, ReaderWaits, ReaderWoken, Tokens
<1>7. Writers BY <1>2, <1>3 DEF Writers, WaitsToWrite
<1> QED BY <1>4, <1>5, <1>6, <1>7 DEF EthInv

(* What the controller does, and what looks at nothing else. *)
LEMMA OtherStep ==
    ASSUME EthInv, EthTypes',
           UNCHANGED <<in, istart, icount, isema, inPool, outPool, pc>>
    PROVE  EthInv'
BY DEF EthInv, InputBuffer, InputCounted, Writers, WaitsToWrite, ReaderWaits, ReaderWoken,
       Reading, Tokens

(* A frame that is stored where the last packet of the input buffer is     *)
(* leaves a packet there.                                                  *)
LEMMA FrameArrivesInv == EthInv /\ FrameArrives => EthInv'
<1> SUFFICES ASSUME EthInv, FrameArrives PROVE EthInv' OBVIOUS
<1> DEFINE I == ETH_IBUFSIZ
<1>1. UNCHANGED <<istart, icount, isema, inPool, outPool, pc, rxHead, txHead, txTail>>
  BY DEF FrameArrives, txVars
<1>2. /\ NextRx(rxDMA) \in RxPlaces /\ in \in [0 .. I - 1 -> Int] /\ frames \in Nat
      /\ I \in Nat \ {0} /\ istart \in 0 .. I - 1 /\ icount \in 0 .. I
  BY EthAssumption DEF NextRx, RxPlaces, EthInv, EthTypes
<1>3. in' = in \/ in' = [in EXCEPT ![LastIn] = frames + 1] BY DEF FrameArrives
<1>4. in' \in [0 .. I - 1 -> Int] BY <1>2, <1>3
<1>5. EthTypes'
  <2>1. rxRing' \in [RxPlaces -> Int] /\ rxDMA' \in RxPlaces /\ frames' \in Nat
    BY <1>2 DEF EthInv, EthTypes, FrameArrives, Stale
  <2> QED BY <1>1, <1>4, <2>1 DEF EthInv, EthTypes
<1>6. InputBuffer'
  <2> SUFFICES ASSUME NEW j \in 0 .. icount - 1 PROVE in'[(istart + j) % I] # None
    BY <1>1 DEF EthInv, InputBuffer
  <2>1. in[(istart + j) % I] # None BY DEF EthInv, InputBuffer
  <2>2. (istart + j) % I \in 0 .. I - 1 BY <1>2
  <2>3. PICK k \in 0 .. I - 1 : k = (istart + j) % I BY <2>2
  <2>4. in'[k] # None
    <3>1. frames + 1 # None /\ in[k] # None BY <1>2, <2>1, <2>3 DEF None
    <3> QED BY <1>2, <1>3, <3>1
  <2> QED BY <2>3, <2>4
<1>7. InputCounted' BY <1>1 DEF EthInv, InputCounted, ReaderWaits, ReaderWoken, Reading, Tokens
<1>8. Writers' BY <1>1 DEF EthInv, Writers, WaitsToWrite
<1> QED BY <1>5, <1>6, <1>7, <1>8 DEF EthInv

LEMMA FrameSentInv == EthInv /\ FrameSent => EthInv'
<1> SUFFICES ASSUME EthInv, FrameSent PROVE EthInv' OBVIOUS
<1>1. UNCHANGED <<in, istart, icount, isema, inPool, outPool, pc, rxHead, txHead, txTail,
                  rxRing, rxDMA, frames>>
  BY DEF FrameSent, rxVars, rxNic, auxVars
<1>2. EthTypes' BY <1>1 DEF EthInv, EthTypes
<1> QED BY <1>1, <1>2, OtherStep

(* Those who are made ready while the reader is not. *)
LEMMA ReaderStays ==
    ASSUME EthInv, NEW rel, rel \subseteq Procs, NEW place, place = Wake(pc, rel),
           Netin \in rel => ~Reading(Netin)
    PROVE  /\ place \in [Procs -> Places]
           /\ (place[Netin].at = "wait" /\ place[Netin].tail = -1) <=> ReaderWaits
           /\ (place[Netin].at = "woken" /\ place[Netin].tail = -1) <=> ReaderWoken
<1>1. pc \in [Procs -> Places] /\ Netin \in Procs BY EthAssumption DEF EthInv, EthTypes
<1>2. \A p \in Procs : [pc[p] EXCEPT !.at = "woken"] \in Places
                       /\ [pc[p] EXCEPT !.at = "woken"].at = "woken"
                       /\ [pc[p] EXCEPT !.at = "woken"].tail = pc[p].tail
  BY <1>1 DEF Places, Points
<1>3. place = [p \in Procs |-> IF p \in rel THEN [pc[p] EXCEPT !.at = "woken"] ELSE pc[p]]
  BY <1>1 DEF Wake
<1>4. place \in [Procs -> Places] BY <1>1, <1>2, <1>3
<1>5. CASE Netin \in rel
  <2>1. pc[Netin].tail # -1 BY <1>5 DEF Reading
  <2>2. place[Netin].tail = pc[Netin].tail BY <1>1, <1>2, <1>3, <1>5
  <2> QED BY <1>4, <2>1, <2>2 DEF ReaderWaits, ReaderWoken, Reading
<1>6. CASE Netin \notin rel
  <2>1. place[Netin] = pc[Netin] BY <1>1, <1>3, <1>6
  <2> QED BY <1>4, <2>1 DEF ReaderWaits, ReaderWoken, Reading
<1> QED BY <1>5, <1>6

(* txPackets() frees a number of buffers and moves its head no further     *)
(* than the tail.                                                          *)
LEMMA TxFinished ==
    ASSUME EthInv
    PROVE  /\ FreedBuffers \in Nat
           /\ txHead + Finished \in Nat /\ txHead + Finished <= txTail
<1>1. txHead \in Nat /\ txTail \in Nat /\ txHead <= txTail BY DEF EthInv, EthTypes
<1>2. Finished \in 0 .. txTail - txHead
  <2> DEFINE S == {k \in 0 .. txTail - txHead :
                      \A j \in 0 .. k - 1 : ~txRing[(txHead + j) % ETH_TX_RING_ENTRIES]}
  <2>1. 0 \in S BY <1>1
  <2>2. txTail - txHead \in Nat /\ S \subseteq 0 .. txTail - txHead BY <1>1
  <2>3. Finished = Max(S) BY DEF Finished
  <2> HIDE DEF S
  <2>4. Max(S) \in S BY <2>1, <2>2, MaxIsIn
  <2> QED BY <2>2, <2>3, <2>4
<1>3. FreedBuffers \in Nat
  <2> DEFINE B == {i \in FinishedPlaces : txBufs[i]}
  <2>1. ETH_TX_RING_ENTRIES \in Nat \ {0} BY EthAssumption
  <2>2. FinishedPlaces \subseteq 0 .. ETH_TX_RING_ENTRIES - 1
    BY <1>1, <1>2, <2>1 DEF FinishedPlaces
  <2>3. B \subseteq 0 .. ETH_TX_RING_ENTRIES - 1 BY <2>2
  <2>4. IsFiniteSet(0 .. ETH_TX_RING_ENTRIES - 1) BY <2>1, FS_Interval
  <2>5. FreedBuffers = Cardinality(B) BY DEF FreedBuffers
  <2> HIDE DEF B
  <2> QED BY <2>3, <2>4, <2>5, FS_Subset, FS_CardinalityType
<1> QED BY <1>1, <1>2, <1>3

(* txPackets(): some who waited for a buffer are made ready, and nobody    *)
(* else.                                                                   *)
LEMMA TxPacketsWakes ==
    ASSUME EthInv, TxPackets
    PROVE  /\ outPool' \in Sems /\ txHead' \in Nat /\ txHead' <= txTail
           /\ Released(outPool, FreedBuffers) \subseteq Procs
           /\ Netin \in Released(outPool, FreedBuffers) => ~Reading(Netin) /\ pc[Netin].at = "wait"
           /\ WaitsToWrite(outPool'.queue, Wake(pc, Released(outPool, FreedBuffers)))
<1>1. /\ outPool \in Sems /\ pc \in [Procs -> Places] /\ WaitsToWrite(outPool.queue, pc)
      /\ FreedBuffers \in Nat
  BY TxFinished DEF EthInv, EthTypes, Writers
<1>2. outPool' = SignalnOn(outPool, FreedBuffers) /\ txHead' = txHead + Finished BY DEF TxPackets
<1>3. /\ SignalnOn(outPool, FreedBuffers) \in Sems
      /\ Released(outPool, FreedBuffers) \subseteq Procs
      /\ \A p \in Released(outPool, FreedBuffers) : pc[p].at = "wait" /\ pc[p].tail # -1
      /\ WaitsToWrite(SignalnOn(outPool, FreedBuffers).queue, Wake(pc, Released(outPool, FreedBuffers)))
  BY <1>1, SignalledWriters
<1> QED BY <1>2, <1>3, TxFinished DEF Reading

(* Making the reader ready leaves those who wait to write as they are. *)
LEMMA WakeReader ==
    ASSUME NEW place \in [Procs -> Places], NEW queue \in Seq(Procs),
           WaitsToWrite(queue, place), place[Netin].tail = -1
    PROVE  WaitsToWrite(queue, Wake(place, {Netin}))
<1>1. Len(queue) \in Nat /\ \A i \in 1 .. Len(queue) : queue[i] \in Procs OBVIOUS
<1>2. \A i \in 1 .. Len(queue) : queue[i] # Netin BY DEF WaitsToWrite
<1>3. \A i \in 1 .. Len(queue) : Wake(place, {Netin})[queue[i]] = place[queue[i]]
  BY <1>1, <1>2 DEF Wake
<1> QED BY <1>3 DEF WaitsToWrite

LEMMA WakeTwice ==
    ASSUME NEW place \in [Procs -> Places], NEW a, NEW b
    PROVE  Wake(Wake(place, a), b) = Wake(place, a \cup b)
BY DEF Wake, Places

(* A wait() that does not block takes a token and leaves the queue. *)
LEMMA TakeFields ==
    ASSUME NEW sem \in Sems
    PROVE  Take(sem) \in Sems /\ Take(sem).queue = sem.queue /\ Take(sem).count = sem.count - 1
<1>1. ASSUME NEW Q, NEW s \in [count : Int, queue : Q]
      PROVE  /\ [s EXCEPT !.count = s.count - 1] \in [count : Int, queue : Q]
             /\ [s EXCEPT !.count = s.count - 1].queue = s.queue
             /\ [s EXCEPT !.count = s.count - 1].count = s.count - 1
  BY <1>1
<1>2. sem \in [count : Int, queue : Seq(Procs)] BY DEF Sems
<1> QED BY <1>1, <1>2, Zenon DEF Take, Sems

(* rxPackets() as far as it hands a packet on.  The reader, if it waits,   *)
(* gets its token.                                                         *)
LEMMA DeliverInv ==
    ASSUME EthInv, RxDeliver, rxRing[rxHead] # Empty
    PROVE  /\ in' \in [0 .. ETH_IBUFSIZ - 1 -> Int] /\ icount' \in 0 .. ETH_IBUFSIZ
           /\ rxRing' \in [RxPlaces -> Int] /\ isema' \in Sems /\ inPool' \in Sems
           /\ \A j \in 0 .. icount' - 1 : in'[(istart + j) % ETH_IBUFSIZ] # None
           /\ inPool'.queue = <<>> /\ inPool'.count = ETH_IBUFSIZ - icount'
           /\ Released(isema, 1) = IF ReaderWaits THEN {Netin} ELSE {}
           /\ icount' = Tokens(isema') + (IF ReaderWoken \/ ReaderWaits THEN 1 ELSE 0)
           /\ isema'.queue = <<>> /\ isema'.count >= 0
<1> DEFINE I == ETH_IBUFSIZ
           place == (istart + icount) % I
<1>1. /\ I \in Nat \ {0} /\ Netin \in Procs
      /\ istart \in 0 .. I - 1 /\ icount \in 0 .. I - 1
      /\ in \in [0 .. I - 1 -> Int] /\ rxHead \in RxPlaces /\ rxRing \in [RxPlaces -> Int]
      /\ inPool \in Sems
  BY EthAssumption DEF EthInv, EthTypes, RxDeliver
<1>2. /\ inPool' = Take(inPool) /\ rxRing' = [rxRing EXCEPT ![rxHead] = Empty]
      /\ in' = [in EXCEPT ![place] = rxRing[rxHead]] /\ icount' = icount + 1
      /\ isema' = SignalnOn(isema, 1)
  BY DEF RxDeliver
<1>3. place \in 0 .. I - 1 /\ rxRing[rxHead] \in Int BY <1>1
<1>4. \A j \in 0 .. icount - 1 : in[(istart + j) % I] # None BY DEF EthInv, InputBuffer
<1>5. \A j \in 0 .. icount' - 1 : in'[(istart + j) % I] # None
  <2> SUFFICES ASSUME NEW j \in 0 .. icount' - 1 PROVE in'[(istart + j) % I] # None OBVIOUS
  <2>1. (istart + j) % I \in 0 .. I - 1 BY <1>1, <1>2
  <2>2. CASE (istart + j) % I = place BY <1>1, <1>2, <1>3, <2>2 DEF Empty, None
  <2>3. CASE (istart + j) % I # place
    <3>0. j # icount BY <2>3
    <3>1. j \in 0 .. icount - 1 BY <1>1, <1>2, <3>0
    <3>2. in'[(istart + j) % I] = in[(istart + j) % I] BY <1>1, <1>2, <2>1, <2>3
    <3> QED BY <1>4, <3>1, <3>2
  <2> QED BY <2>2, <2>3
<1>6. inPool' \in Sems /\ inPool'.queue = <<>> /\ inPool'.count = I - icount'
  <2>1. inPool.queue = <<>> /\ inPool.count = I - icount BY DEF EthInv, InputBuffer
  <2>2. Take(inPool) \in Sems /\ Take(inPool).queue = inPool.queue
        /\ Take(inPool).count = inPool.count - 1
    BY <1>1, TakeFields
  <2> QED BY <1>1, <1>2, <2>1, <2>2
<1>7. /\ Released(isema, 1) = IF ReaderWaits THEN {Netin} ELSE {}
      /\ isema' = [count |-> isema.count + 1, queue |-> <<>>]
      /\ isema.count >= 0 \/ (isema.count = -1 /\ ReaderWaits)
      /\ isema.count >= 0 <=> ~ReaderWaits
  <2>1. CASE isema.queue = <<>> /\ isema.count >= 0 /\ ~ReaderWaits
    <3>1. Len(isema.queue) = 0 /\ Min({1, Len(isema.queue)}) = 0 BY <2>1, MinOfTwo
    <3>2. Released(isema, 1) = {} BY <3>1 DEF Released
    <3>3. SubSeq(isema.queue, 1, 0) = <<>> BY <2>1
    <3> QED BY <1>2, <2>1, <3>1, <3>2, <3>3 DEF SignalnOn
  <2>2. CASE isema.queue = <<Netin>> /\ isema.count = -1 /\ ReaderWaits
    <3>1. Len(isema.queue) = 1 /\ isema.queue[1] = Netin /\ Min({1, Len(isema.queue)}) = 1
      BY <2>2, MinOfTwo
    <3>2. Released(isema, 1) = {Netin} BY <3>1 DEF Released
    <3>3. SubSeq(isema.queue, 2, 1) = <<>> BY <1>1, <2>2
    <3> QED BY <1>2, <2>2, <3>1, <3>2, <3>3 DEF SignalnOn
  <2> QED BY <2>1, <2>2 DEF EthInv, InputCounted
<1>8. isema.count \in Int BY DEF EthInv, EthTypes, Sems
<1>9. isema' \in Sems /\ isema'.queue = <<>> /\ isema'.count >= 0 BY <1>7, <1>8 DEF Sems
<1>10. icount' = Tokens(isema') + (IF ReaderWoken \/ ReaderWaits THEN 1 ELSE 0)
  <2>1. icount = Tokens(isema) + (IF ReaderWoken THEN 1 ELSE 0) BY DEF EthInv, InputCounted
  <2>2. ReaderWaits => ~ReaderWoken BY DEF ReaderWaits, ReaderWoken
  <2>3. isema'.count = isema.count + 1 BY <1>7
  <2> QED BY <1>1, <1>2, <1>7, <1>8, <2>1, <2>2, <2>3 DEF Tokens
<1> QED BY <1>1, <1>2, <1>3, <1>5, <1>6, <1>7, <1>9, <1>10 DEF Empty

(* ethInterrupt(): the processes that txPackets() makes ready, and the     *)
(* reader if a packet is handed on.                                        *)
LEMMA EthInterruptInv ==
    ASSUME EthInv, EthInterrupt
    PROVE  EthInv'
<1> DEFINE tx == IF txSent > 0 THEN Released(outPool, FreedBuffers) ELSE {}
           handsOn == rxCount > 0 /\ rxRing[rxHead] # Empty /\ icount < ETH_IBUFSIZ
           rx == IF handsOn THEN Released(isema, 1) ELSE {}
           place == Wake(pc, tx)
<1>1. /\ EthTypes /\ Netin \in Procs /\ rxHead \in RxPlaces /\ NextRx(rxHead) \in RxPlaces
  BY EthAssumption DEF EthInv, EthTypes, NextRx, RxPlaces
<1>2. /\ pc' = Wake(pc, tx \cup rx)
      /\ UNCHANGED <<istart, txTail, rxDMA, frames>>
      /\ IF txSent > 0 THEN TxPackets ELSE UNCHANGED <<txHead, outPool>>
      /\ IF rxCount > 0 THEN RxPackets
         ELSE UNCHANGED <<rxRing, rxHead, in, icount, isema, inPool>>
  BY DEF EthInterrupt
<1>3. /\ outPool' \in Sems /\ txHead' \in Nat /\ txHead' <= txTail
      /\ tx \subseteq Procs
      /\ Netin \in tx => ~Reading(Netin) /\ pc[Netin].at = "wait"
      /\ WaitsToWrite(outPool'.queue, place)
  <2>1. CASE txSent > 0 BY <1>2, <2>1, TxPacketsWakes
  <2>2. CASE ~(txSent > 0)
    <3>1. outPool' = outPool /\ txHead' = txHead /\ tx = {} BY <1>2, <2>2
    <3>2. place = pc BY <1>1, <3>1 DEF Wake, EthTypes
    <3> QED BY <1>1, <3>1, <3>2 DEF EthInv, EthTypes, Writers
  <2> QED BY <2>1, <2>2
<1> HIDE DEF tx
<1>4. /\ place \in [Procs -> Places]
      /\ (place[Netin].at = "wait" /\ place[Netin].tail = -1) <=> ReaderWaits
      /\ (place[Netin].at = "woken" /\ place[Netin].tail = -1) <=> ReaderWoken
  BY <1>3, ReaderStays
<1>5. pc' = Wake(place, rx)
  BY <1>1, <1>2, WakeTwice DEF EthTypes
<1> HIDE DEF place
<1>6. CASE handsOn
  <2>1. RxDeliver /\ rxRing[rxHead] # Empty /\ rxHead' = NextRx(rxHead)
    <3>1. rxHead' = NextRx(rxHead) /\ (RxDeliver \/ RxOverrun) BY <1>2, <1>6 DEF RxPackets
    <3>2. RxOverrun => icount >= ETH_IBUFSIZ BY DEF RxOverrun
    <3>3. icount \in Int /\ ETH_IBUFSIZ \in Int BY <1>1, EthAssumption DEF EthTypes
    <3> QED BY <1>6, <3>1, <3>2, <3>3
  <2>2. /\ in' \in [0 .. ETH_IBUFSIZ - 1 -> Int] /\ icount' \in 0 .. ETH_IBUFSIZ
        /\ rxRing' \in [RxPlaces -> Int] /\ isema' \in Sems /\ inPool' \in Sems
        /\ \A j \in 0 .. icount' - 1 : in'[(istart + j) % ETH_IBUFSIZ] # None
        /\ inPool'.queue = <<>> /\ inPool'.count = ETH_IBUFSIZ - icount'
        /\ Released(isema, 1) = IF ReaderWaits THEN {Netin} ELSE {}
        /\ icount' = Tokens(isema') + (IF ReaderWoken \/ ReaderWaits THEN 1 ELSE 0)
        /\ isema'.queue = <<>> /\ isema'.count >= 0
    BY <2>1, DeliverInv
  <2>3. /\ pc' \in [Procs -> Places] /\ WaitsToWrite(outPool'.queue, pc')
        /\ ~ReaderWaits' /\ (ReaderWoken' <=> (ReaderWoken \/ ReaderWaits))
    <3>1. CASE ReaderWaits
      <4>1. pc' = Wake(place, {Netin}) BY <1>5, <1>6, <2>2, <3>1
      <4>2. place[Netin].tail = -1 /\ place[Netin] \in Places BY <1>1, <1>4, <3>1
      <4>3. WaitsToWrite(outPool'.queue, pc')
        BY <1>3, <1>4, <4>1, <4>2, WakeReader DEF Sems
      <4>4. /\ [place[Netin] EXCEPT !.at = "woken"] \in Places
            /\ [place[Netin] EXCEPT !.at = "woken"].at = "woken"
            /\ [place[Netin] EXCEPT !.at = "woken"].tail = -1
        BY <4>2 DEF Places, Points
      <4>5. pc' = [p \in Procs |-> IF p = Netin THEN [place[p] EXCEPT !.at = "woken"] ELSE place[p]]
        BY <1>4, <4>1 DEF Wake
      <4>6. pc' \in [Procs -> Places] /\ pc'[Netin].at = "woken" /\ pc'[Netin].tail = -1
        BY <1>1, <1>4, <4>4, <4>5
      <4> QED BY <3>1, <4>3, <4>6 DEF ReaderWaits, ReaderWoken, Reading
    <3>2. CASE ~ReaderWaits
      <4>1. rx = {} BY <2>2, <3>2
      <4>2. pc' = place BY <1>4, <1>5, <4>1 DEF Wake
      <4> QED BY <1>3, <1>4, <3>2, <4>2 DEF ReaderWaits, ReaderWoken, Reading
    <3> QED BY <3>1, <3>2
  <2>4. EthTypes'
    <3>1. rxHead' \in RxPlaces BY <1>1, <2>1
    <3>2. UNCHANGED <<istart, txTail, rxDMA, frames>> BY <1>2
    <3> QED BY <1>1, <1>3, <2>2, <2>3, <3>1, <3>2 DEF EthTypes
  <2>5. InputBuffer' BY <1>2, <2>2 DEF InputBuffer
  <2>6. InputCounted' BY <2>2, <2>3 DEF InputCounted
  <2> QED BY <2>3, <2>4, <2>5, <2>6 DEF EthInv, Writers
<1>7. CASE ~handsOn
  <2>1. UNCHANGED <<in, icount, isema, inPool>> /\ rxHead' \in RxPlaces
        /\ rxRing' \in [RxPlaces -> Int]
    <3>1. CASE rxCount > 0 /\ rxRing[rxHead] # Empty
      <4>1. RxOverrun /\ rxHead' = NextRx(rxHead)
        BY <1>1, <1>2, <1>7, <3>1 DEF RxPackets, RxDeliver
      <4> QED BY <1>1, <4>1 DEF RxOverrun, EthTypes, Cleared
    <3>2. CASE ~(rxCount > 0 /\ rxRing[rxHead] # Empty)
      <4>1. UNCHANGED <<rxRing, rxHead, in, icount, isema, inPool>>
        BY <1>2, <3>2 DEF RxPackets
      <4> QED BY <1>1, <4>1 DEF EthTypes
    <3> QED BY <3>1, <3>2
  <2>2. pc' = place BY <1>4, <1>5, <1>7 DEF Wake
  <2>3. ReaderWaits' <=> ReaderWaits BY <1>4, <2>2 DEF ReaderWaits, Reading
  <2>4. ReaderWoken' <=> ReaderWoken BY <1>4, <2>2 DEF ReaderWoken, Reading
  <2>5. EthTypes' BY <1>1, <1>2, <1>3, <1>4, <2>1, <2>2 DEF EthTypes
  <2>6. InputBuffer' BY <1>2, <2>1 DEF InputBuffer, EthInv
  <2>7. InputCounted' BY <2>1, <2>3, <2>4 DEF InputCounted, EthInv, Tokens
  <2> QED BY <1>3, <2>2, <2>5, <2>6, <2>7 DEF EthInv, Writers
<1> QED BY <1>6, <1>7

(* ethRead() when its wait() is over: there is a packet to pick up.        *)
LEMMA PickUpBuffer ==
    ASSUME EthInv, PickUp, icount > 0
    PROVE  /\ in' \in [0 .. ETH_IBUFSIZ - 1 -> Int] /\ istart' \in 0 .. ETH_IBUFSIZ - 1
           /\ icount' = icount - 1 /\ icount' \in 0 .. ETH_IBUFSIZ /\ inPool' \in Sems
           /\ InputBuffer'
           /\ UNCHANGED <<rxRing, rxHead, rxDMA, frames, txHead, txTail, outPool>>
<1> DEFINE I == ETH_IBUFSIZ
<1>1. /\ I \in Nat \ {0} /\ istart \in 0 .. I - 1 /\ icount \in 1 .. I
      /\ in \in [0 .. I - 1 -> Int] /\ inPool \in Sems
      /\ inPool.queue = <<>> /\ inPool.count = I - icount
      /\ \A j \in 0 .. icount - 1 : in[(istart + j) % I] # None
  BY EthAssumption DEF EthInv, EthTypes, InputBuffer
<1>2. /\ in' = [in EXCEPT ![istart] = None]
      /\ istart' = (istart + 1) % I /\ icount' = icount - 1
      /\ in[istart] # None => inPool' = SignalnOn(inPool, 1)
      /\ UNCHANGED <<rxRing, rxHead, rxDMA, frames, txHead, txTail, outPool>>
  BY DEF PickUp, rxNic, txVars
<1>3. in[istart] # None
  <2>1. (istart + 0) % I = istart
    <3>1. 0 \in 0 .. I /\ istart + 0 = istart /\ istart < I BY <1>1
    <3>2. (istart + 0) % I = IF istart + 0 < I THEN istart + 0 ELSE istart + 0 - I
      BY <1>1, <3>1, Around
    <3> QED BY <3>1, <3>2
  <2>2. 0 \in 0 .. icount - 1 BY <1>1
  <2> QED BY <1>1, <2>1, <2>2
<1>4. inPool' = [count |-> I - icount', queue |-> <<>>]
  <2>1. Len(inPool.queue) = 0 /\ Min({1, Len(inPool.queue)}) = 0 BY <1>1, MinOfTwo
  <2>2. SubSeq(inPool.queue, 1, 0) = <<>> BY <1>1
  <2>3. SignalnOn(inPool, 1) = [count |-> inPool.count + 1, queue |-> <<>>]
    BY <2>1, <2>2 DEF SignalnOn
  <2> QED BY <1>1, <1>2, <1>3, <2>3
<1>5. istart' = IF istart + 1 < I THEN istart + 1 ELSE 0
  <2>1. 1 \in 0 .. I BY <1>1
  <2>2. (istart + 1) % I = IF istart + 1 < I THEN istart + 1 ELSE istart + 1 - I
    BY <1>1, <2>1, Around
  <2> DEFINE a == (istart + 1) % I
  <2>3. istart' = a BY <1>2
  <2> HIDE DEF a
  <2>4. a = IF istart + 1 < I THEN istart + 1 ELSE istart + 1 - I BY <2>2 DEF a
  <2> QED BY ONLY <1>1, <2>3, <2>4
<1>6. \A j \in 0 .. icount' - 1 : in'[(istart' + j) % I] # None
  <2> SUFFICES ASSUME NEW j \in 0 .. icount' - 1 PROVE in'[(istart' + j) % I] # None OBVIOUS
  <2>1. j \in 0 .. I /\ j + 1 \in 0 .. I /\ j + 1 \in 0 .. icount - 1 /\ istart' \in 0 .. I - 1
    BY <1>1, <1>2, <1>5
  <2>2. (istart + (j + 1)) % I = IF istart + (j + 1) < I THEN istart + (j + 1)
                                 ELSE istart + (j + 1) - I
    BY <1>1, <2>1, Around
  <2>3. (istart' + j) % I = IF istart' + j < I THEN istart' + j ELSE istart' + j - I
    BY <1>1, <2>1, Around
  <2>4. (istart' + j) % I = (istart + (j + 1)) % I BY <1>1, <1>5, <2>1, <2>2, <2>3
  <2>5. (istart + (j + 1)) % I # istart /\ (istart + (j + 1)) % I \in 0 .. I - 1
    <3> DEFINE a == (istart + (j + 1)) % I
    <3>1. a = IF istart + (j + 1) < I THEN istart + (j + 1) ELSE istart + (j + 1) - I
      BY <2>2
    <3> HIDE DEF a
    <3>2. a # istart /\ a \in 0 .. I - 1
      <4>1. I \in Nat /\ istart \in 0 .. I - 1 /\ icount \in 1 .. I BY <1>1
      <4>2. j \in Nat /\ j + 1 <= icount - 1
        <5>1. icount' = icount - 1 BY <1>2
        <5> QED BY ONLY <4>1, <5>1, j \in 0 .. icount' - 1
      <4> QED BY ONLY <3>1, <4>1, <4>2
    <3> QED BY <3>2 DEF a
  <2>6. in[(istart + (j + 1)) % I] # None BY <1>1, <2>1
  <2> QED BY <1>1, <1>2, <2>4, <2>5, <2>6
<1>7. icount' \in 0 .. I /\ istart' \in 0 .. I - 1 BY <1>1, <1>2, <1>5
<1>8. inPool' \in Sems /\ inPool'.queue = <<>> /\ inPool'.count = I - icount'
  <2>1. I - icount' \in Int /\ <<>> \in Seq(Procs) BY <1>1, <1>7
  <2> QED BY ONLY <1>4, <2>1 DEF Sems
<1>9. in' \in [0 .. I - 1 -> Int] BY <1>1, <1>2 DEF None
<1> QED BY <1>2, <1>6, <1>7, <1>8, <1>9 DEF InputBuffer

LEMMA ReadInv == EthInv /\ Read => EthInv'
<1> SUFFICES ASSUME EthInv, Read PROVE EthInv' OBVIOUS
<1>1. /\ isema \in Sems /\ isema.count > 0 /\ isema' = Take(isema) /\ PickUp
      /\ pc' = pc /\ pc[Netin] = Idle
  BY DEF EthInv, EthTypes, Read
<1>2. ~ReaderWoken /\ ~ReaderWaits /\ isema.queue = <<>> /\ icount = isema.count /\ icount \in Int
  <2>1. ~ReaderWoken /\ ~ReaderWaits BY <1>1 DEF Idle, ReaderWoken, ReaderWaits
  <2>2. icount \in Int /\ isema.queue = <<>> /\ icount = Tokens(isema) + 0
    BY <2>1 DEF EthInv, EthTypes, InputCounted
  <2>3. Tokens(isema) = isema.count /\ isema.count \in Int BY <1>1 DEF Tokens, Sems
  <2> QED BY <2>1, <2>2, <2>3
<1>3. isema' \in Sems /\ isema'.queue = <<>> /\ isema'.count = isema.count - 1
  BY <1>1, <1>2, TakeFields
<1>4. /\ in' \in [0 .. ETH_IBUFSIZ - 1 -> Int] /\ istart' \in 0 .. ETH_IBUFSIZ - 1
      /\ icount' = icount - 1 /\ icount' \in 0 .. ETH_IBUFSIZ /\ inPool' \in Sems
      /\ InputBuffer'
      /\ UNCHANGED <<rxRing, rxHead, rxDMA, frames, txHead, txTail, outPool>>
  BY <1>1, <1>2, PickUpBuffer
<1>5. EthTypes' BY <1>1, <1>3, <1>4 DEF EthInv, EthTypes
<1>6. InputCounted'
  <2>1. ~ReaderWoken' /\ ~ReaderWaits' BY <1>1, <1>2 DEF ReaderWoken, ReaderWaits, Reading
  <2>2. isema'.count = icount' /\ isema'.count >= 0 /\ icount' \in Int BY <1>1, <1>2, <1>3, <1>4
  <2> QED BY <1>3, <2>1, <2>2 DEF InputCounted, Tokens
<1>7. Writers' BY <1>1, <1>4 DEF EthInv, Writers
<1> QED BY <1>4, <1>5, <1>6, <1>7 DEF EthInv

(* A process that waits for no output buffer goes somewhere else. *)
LEMMA WritersStay ==
    ASSUME EthInv, NEW p \in Procs, pc[p].at # "wait" \/ pc[p].tail = -1, NEW q \in Places,
           pc' = [pc EXCEPT ![p] = q], outPool' = outPool
    PROVE  Writers'
<1>1. /\ pc \in [Procs -> Places] /\ outPool.queue \in Seq(Procs) /\ WaitsToWrite(outPool.queue, pc)
  BY DEF EthInv, EthTypes, Writers, Sems
<1>2. \A i \in 1 .. Len(outPool.queue) : outPool.queue[i] \in Procs BY <1>1
<1>3. \A i \in 1 .. Len(outPool.queue) : outPool.queue[i] # p BY <1>1 DEF WaitsToWrite
<1>4. \A i \in 1 .. Len(outPool.queue) : pc'[outPool.queue[i]] = pc[outPool.queue[i]]
  BY <1>1, <1>2, <1>3
<1> QED BY <1>1, <1>4 DEF Writers, WaitsToWrite

LEMMA ReadWaitInv == EthInv /\ ReadWait => EthInv'
<1> SUFFICES ASSUME EthInv, ReadWait PROVE EthInv' OBVIOUS
<1> DEFINE there == [at |-> "wait", tail |-> -1]
<1>1. /\ isema \in Sems /\ isema.count <= 0 /\ isema' = WaitOn(isema, Netin)
      /\ pc' = [pc EXCEPT ![Netin] = there] /\ pc[Netin] = Idle
      /\ pc \in [Procs -> Places] /\ Netin \in Procs
      /\ UNCHANGED <<rxRing, rxHead, rxDMA, in, istart, icount, inPool, frames, txHead, txTail, outPool>>
  BY EthAssumption DEF EthInv, EthTypes, ReadWait, rxNic, txVars, auxVars
<1>2. ~ReaderWoken /\ ~ReaderWaits /\ isema.queue = <<>> /\ isema.count = 0 /\ icount = 0
  BY <1>1 DEF EthInv, EthTypes, InputCounted, Idle, ReaderWoken, ReaderWaits, Tokens, Sems
<1>3. isema' = [count |-> -1, queue |-> <<Netin>>]
  <2>1. Append(<<>>, Netin) = <<Netin>> OBVIOUS
  <2> QED BY <1>1, <1>2, <2>1 DEF WaitOn
<1>4. isema' \in Sems /\ isema'.queue = <<Netin>> /\ isema'.count = -1
  <2>1. <<Netin>> \in Seq(Procs) BY <1>1
  <2> QED BY ONLY <1>3, <2>1 DEF Sems
<1>5. there \in Places BY DEF Places, Points
<1>6. pc' \in [Procs -> Places] /\ pc'[Netin] = there BY <1>1, <1>5
<1>7. ReaderWaits' /\ ~ReaderWoken' BY <1>6 DEF ReaderWaits, ReaderWoken, Reading
<1>8. EthTypes' BY <1>1, <1>4, <1>6 DEF EthInv, EthTypes
<1>9. InputCounted' BY <1>1, <1>2, <1>4, <1>7 DEF InputCounted, Tokens
<1>10. InputBuffer' BY <1>1 DEF EthInv, InputBuffer
<1>11. Writers'
  <2>1. pc[Netin].at # "wait" BY <1>1 DEF Idle
  <2> HIDE DEF there
  <2> QED BY <1>1, <1>5, <2>1, WritersStay
<1> QED BY <1>8, <1>9, <1>10, <1>11 DEF EthInv

LEMMA ReadWokenInv == EthInv /\ ReadWoken => EthInv'
<1> SUFFICES ASSUME EthInv, ReadWoken PROVE EthInv' OBVIOUS
<1>1. /\ isema' = isema /\ PickUp /\ pc' = [pc EXCEPT ![Netin] = Idle]
      /\ ReaderWoken /\ pc[Netin].at = "woken" /\ pc \in [Procs -> Places] /\ Netin \in Procs
      /\ isema \in Sems
  BY EthAssumption DEF EthInv, EthTypes, ReadWoken, ReaderWoken
<1>2. /\ ~ReaderWaits /\ isema.queue = <<>> /\ isema.count >= 0 /\ icount = isema.count + 1
      /\ icount \in Int /\ isema.count \in Int
  BY <1>1 DEF EthInv, EthTypes, InputCounted, ReaderWaits, Tokens, Sems
<1>3. /\ in' \in [0 .. ETH_IBUFSIZ - 1 -> Int] /\ istart' \in 0 .. ETH_IBUFSIZ - 1
      /\ icount' = icount - 1 /\ icount' \in 0 .. ETH_IBUFSIZ /\ inPool' \in Sems
      /\ InputBuffer'
      /\ UNCHANGED <<rxRing, rxHead, rxDMA, frames, txHead, txTail, outPool>>
  <2>1. icount > 0 BY <1>2
  <2> QED BY <1>1, <2>1, PickUpBuffer
<1>4. Idle \in Places BY DEF Idle, Places, Points
<1>5. pc' \in [Procs -> Places] /\ pc'[Netin] = Idle BY <1>1, <1>4
<1>6. ~ReaderWaits' /\ ~ReaderWoken' BY <1>5 DEF Idle, ReaderWaits, ReaderWoken, Reading
<1>7. EthTypes' BY <1>1, <1>3, <1>5 DEF EthInv, EthTypes
<1>8. InputCounted' BY <1>1, <1>2, <1>3, <1>6 DEF InputCounted, Tokens
<1>9. Writers' BY <1>1, <1>3, <1>4, WritersStay
<1> QED BY <1>3, <1>7, <1>8, <1>9 DEF EthInv

(* A step of a writer that leaves the input side alone, and netin neither  *)
(* waiting for a packet nor given one.                                     *)
LEMMA WriterStep ==
    ASSUME EthInv, NEW p \in Procs, NEW q \in Places, pc' = [pc EXCEPT ![p] = q],
           q.tail # -1, p = Netin => ~ReaderWaits /\ ~ReaderWoken,
           UNCHANGED <<rxRing, rxHead, rxDMA, in, istart, icount, isema, inPool, frames, txHead>>,
           txTail' \in Nat, txHead <= txTail', outPool' \in Sems, Writers'
    PROVE  EthInv'
<1>1. pc \in [Procs -> Places] /\ Netin \in Procs BY EthAssumption DEF EthInv, EthTypes
<1>2. pc' \in [Procs -> Places] /\ (p # Netin => pc'[Netin] = pc[Netin]) /\ pc'[p] = q BY <1>1
<1>3. (ReaderWaits' <=> ReaderWaits) /\ (ReaderWoken' <=> ReaderWoken)
  <2>1. CASE p = Netin BY <1>2, <2>1 DEF ReaderWaits, ReaderWoken, Reading
  <2>2. CASE p # Netin BY <1>2, <2>2 DEF ReaderWaits, ReaderWoken, Reading
  <2> QED BY <2>1, <2>2
<1>4. EthTypes' BY <1>2 DEF EthInv, EthTypes
<1>5. InputBuffer' BY DEF EthInv, InputBuffer
<1>6. InputCounted' BY <1>3 DEF EthInv, InputCounted, Tokens
<1> QED BY <1>4, <1>5, <1>6 DEF EthInv

LEMMA NotReading ==
    ASSUME EthInv, NEW p \in Procs, pc[p] = Idle \/ ~Reading(p) \/ pc[p].at = "filled"
    PROVE  p = Netin => ~ReaderWaits /\ ~ReaderWoken
BY DEF Idle, Reading, ReaderWaits, ReaderWoken

LEMMA TailPlace ==
    ASSUME EthInv
    PROVE  /\ txTail % ETH_TX_RING_ENTRIES \in Nat /\ txTail % ETH_TX_RING_ENTRIES # -1
           /\ txTail + 1 \in Nat /\ txHead <= txTail + 1
<1>1. ETH_TX_RING_ENTRIES \in Nat \ {0} /\ txTail \in Nat /\ txHead \in Nat /\ txHead <= txTail
  BY EthAssumption DEF EthInv, EthTypes
<1>2. txTail % ETH_TX_RING_ENTRIES \in 0 .. ETH_TX_RING_ENTRIES - 1 BY <1>1
<1>3. \A k \in 0 .. ETH_TX_RING_ENTRIES - 1 : k \in Nat /\ k # -1 BY <1>1
<1> QED BY <1>1, <1>2, <1>3

LEMMA WriteInv ==
    ASSUME EthInv, NEW p \in Procs, Write(p)
    PROVE  EthInv'
<1> DEFINE tail == txTail % ETH_TX_RING_ENTRIES
           q == [at |-> "filled", tail |-> tail]
<1>1. /\ pc' = [pc EXCEPT ![p] = q] /\ txTail' = txTail + 1 /\ outPool' = Take(outPool)
      /\ pc[p] = Idle /\ outPool \in Sems
      /\ UNCHANGED <<rxRing, rxHead, rxDMA, in, istart, icount, isema, inPool, frames, txHead>>
  BY DEF Write, MayWrite, Fill, EthInv, EthTypes, rxVars, rxNic
<1>2. tail \in Nat /\ tail # -1 /\ txTail + 1 \in Nat /\ txHead <= txTail + 1 BY TailPlace
<1> HIDE DEF tail
<1>3. q \in Places /\ q.tail # -1 BY <1>2 DEF Places, Points
<1>4. outPool' \in Sems /\ outPool'.queue = outPool.queue BY <1>1, TakeFields
<1> HIDE DEF q
<1>5. Writers'
  <2>1. /\ pc \in [Procs -> Places] /\ outPool.queue \in Seq(Procs) /\ WaitsToWrite(outPool.queue, pc)
    BY DEF EthInv, EthTypes, Writers, Sems
  <2>2. \A i \in 1 .. Len(outPool.queue) : outPool.queue[i] \in Procs BY <2>1
  <2>3. pc[p].at # "wait" BY <1>1 DEF Idle
  <2>4. \A i \in 1 .. Len(outPool.queue) : outPool.queue[i] # p BY <2>1, <2>3 DEF WaitsToWrite
  <2>5. \A i \in 1 .. Len(outPool.queue) : pc'[outPool.queue[i]] = pc[outPool.queue[i]]
    BY <1>1, <2>1, <2>2, <2>4
  <2> QED BY <1>4, <2>1, <2>5 DEF Writers, WaitsToWrite
<1> QED BY <1>1, <1>2, <1>3, <1>4, <1>5, NotReading, WriterStep

LEMMA WriteWaitInv ==
    ASSUME EthInv, NEW p \in Procs, WriteWait(p)
    PROVE  EthInv'
<1> DEFINE tail == txTail % ETH_TX_RING_ENTRIES
           q == [at |-> "wait", tail |-> tail]
           queue == outPool.queue
<1>1. /\ pc' = [pc EXCEPT ![p] = q] /\ txTail' = txTail
      /\ outPool' = [count |-> outPool.count - 1, queue |-> Append(queue, p)]
      /\ pc[p] = Idle /\ outPool \in Sems
      /\ UNCHANGED <<rxRing, rxHead, rxDMA, in, istart, icount, isema, inPool, frames, txHead>>
  BY DEF WriteWait, MayWrite, WaitOn, EthInv, EthTypes, rxVars, rxNic
<1>2. tail \in Nat /\ tail # -1 /\ txTail \in Nat /\ txHead <= txTail
  BY TailPlace DEF EthInv, EthTypes
<1> HIDE DEF tail
<1>3. q \in Places /\ q.at = "wait" /\ q.tail # -1 BY <1>2 DEF Places, Points
<1> HIDE DEF q
<1>4. /\ pc \in [Procs -> Places] /\ queue \in Seq(Procs) /\ WaitsToWrite(queue, pc)
      /\ outPool.count \in Int
  BY DEF EthInv, EthTypes, Writers, Sems
<1> HIDE DEF queue
<1>5. /\ Append(queue, p) \in Seq(Procs) /\ Len(Append(queue, p)) = Len(queue) + 1
      /\ Len(queue) \in Nat
      /\ \A i \in 1 .. Len(queue) : Append(queue, p)[i] = queue[i] /\ queue[i] \in Procs
      /\ Append(queue, p)[Len(queue) + 1] = p
  BY <1>4
<1>6. outPool' \in Sems /\ outPool'.queue = Append(queue, p)
  <2>1. outPool.count - 1 \in Int BY <1>4
  <2> QED BY ONLY <1>1, <1>5, <2>1 DEF Sems
<1>7. Writers'
  <2> DEFINE a == Append(queue, p)
  <2>1. pc[p].at # "wait" BY <1>1 DEF Idle
  <2>2. \A i \in 1 .. Len(queue) : queue[i] # p BY <1>4, <2>1 DEF WaitsToWrite
  <2>3. \A i \in 1 .. Len(queue) : pc'[queue[i]] = pc[queue[i]] BY <1>1, <1>4, <1>5, <2>2
  <2>4. pc'[p] = q BY <1>1, <1>4
  <2>5. \A i \in 1 .. Len(a) : i \in 1 .. Len(queue) \/ i = Len(queue) + 1 BY <1>5
  <2> HIDE DEF a
  <2>6. \A i \in 1 .. Len(a) : pc'[a[i]].at = "wait" /\ pc'[a[i]].tail # -1
    BY <1>3, <1>4, <1>5, <2>3, <2>4, <2>5 DEF WaitsToWrite, a
  <2>7. \A i, j \in 1 .. Len(a) : a[i] = a[j] => i = j
    BY <1>4, <1>5, <2>2, <2>5 DEF WaitsToWrite, a
  <2> QED BY <1>6, <2>6, <2>7 DEF Writers, WaitsToWrite, a
<1> QED BY <1>1, <1>2, <1>3, <1>6, <1>7, NotReading, WriterStep

LEMMA WriteWokenInv ==
    ASSUME EthInv, NEW p \in Procs, WriteWoken(p)
    PROVE  EthInv'
<1> DEFINE q == [at |-> "filled", tail |-> pc[p].tail]
<1>1. /\ pc' = [pc EXCEPT ![p] = q] /\ txTail' = txTail + 1 /\ outPool' = outPool
      /\ pc[p].at = "woken" /\ ~Reading(p) /\ outPool \in Sems /\ pc[p] \in Places
      /\ UNCHANGED <<rxRing, rxHead, rxDMA, in, istart, icount, isema, inPool, frames, txHead>>
  BY DEF WriteWoken, Fill, EthInv, EthTypes, rxVars, rxNic
<1>2. q \in Places /\ q.tail # -1 BY <1>1 DEF Places, Points, Reading
<1> HIDE DEF q
<1>3. pc[p].at # "wait" BY <1>1
<1>4. Writers' BY <1>1, <1>2, <1>3, WritersStay
<1>5. outPool' \in Sems BY <1>1
<1> QED BY <1>1, <1>2, <1>4, <1>5, TailPlace, NotReading, WriterStep

(* Who has interrupts off has filled its place. *)
Filled == \A p \in Procs : masked = p => pc[p].at = "filled"

LEMMA StartInv ==
    ASSUME EthInv, Filled, NEW p \in Procs, Start(p)
    PROVE  EthInv'
<1>1. /\ pc' = [pc EXCEPT ![p] = Idle] /\ outPool' = outPool /\ txTail' = txTail
      /\ UNCHANGED <<rxRing, rxHead, rxDMA, in, istart, icount, isema, inPool, frames, txHead>>
  BY DEF Start, rxVars, txVars, rxNic, auxVars
<1>2. pc[p].at = "filled" BY DEF Start, Filled
<1>3. Idle \in Places /\ Idle.tail # -1 BY DEF Idle, Places, Points
<1>4. pc[p].at # "wait" BY <1>2
<1>5. Writers' BY <1>1, <1>3, <1>4, WritersStay
<1>6. txTail' \in Nat /\ txHead <= txTail' /\ outPool' \in Sems BY <1>1 DEF EthInv, EthTypes
<1> QED BY <1>1, <1>2, <1>3, <1>5, <1>6, NotReading, WriterStep

(* An action that needs interrupts on, and turns them off for nobody. *)
LEMMA StillUnmasked ==
    ASSUME Unmasked, masked' = masked
    PROVE  Filled'
BY EthAssumption DEF Unmasked, Filled

(* Filling a place turns interrupts off. *)
LEMMA FillMasks ==
    ASSUME EthInv, NEW p \in Procs, NEW tail, NEW sem, Fill(p, tail, sem)
    PROVE  Filled'
<1>1. pc \in [Procs -> Places] BY DEF EthInv, EthTypes
<1>2. masked' = p /\ pc' = [pc EXCEPT ![p] = [at |-> "filled", tail |-> tail]] BY DEF Fill
<1> QED BY <1>1, <1>2 DEF Filled

(* Every step keeps the invariant. *)
LEMMA EthStep == EthInv /\ Filled /\ [EthNext]_vars => EthInv' /\ Filled'
<1> SUFFICES ASSUME EthInv, Filled, [EthNext]_vars PROVE EthInv' /\ Filled' OBVIOUS
<1>1. CASE UNCHANGED vars
  <2>1. UNCHANGED <<rxRing, rxHead, rxDMA, in, istart, icount, isema, inPool, frames, txHead,
                    txTail, outPool, pc, masked>>
    BY <1>1 DEF vars, rxVars, txVars, rxNic, auxVars
  <2>2. EthTypes' BY <2>1 DEF EthInv, EthTypes
  <2> QED BY <2>1, <2>2, OtherStep DEF Filled
<1>2. CASE Controller
  <2>1. pc' = pc /\ masked' = masked BY <1>2 DEF Controller, FrameArrives, FrameSent
  <2>2. EthInv' BY <1>2, FrameArrivesInv, FrameSentInv DEF Controller
  <2> QED BY <2>1, <2>2 DEF Filled
<1>3. CASE EthInterrupt
  <2>1. Unmasked /\ masked' = masked BY <1>3 DEF EthInterrupt
  <2> QED BY <1>3, <2>1, EthInterruptInv, StillUnmasked
<1>9. CASE HandlerEnds
  <2>1. UNCHANGED <<rxRing, rxHead, rxDMA, in, istart, icount, isema, inPool, frames, txHead,
                    txTail, outPool, pc, masked>>
    BY <1>9 DEF HandlerEnds, rxVars, txVars, auxVars
  <2>2. EthTypes' BY <2>1 DEF EthInv, EthTypes
  <2> QED BY <2>1, <2>2, OtherStep DEF Filled
<1>4. CASE Reads
  <2>1. Unmasked /\ masked' = masked BY <1>4 DEF Reads, Read, ReadWait, ReadWoken, PickUp
  <2> QED BY <1>4, <2>1, ReadInv, ReadWaitInv, ReadWokenInv, StillUnmasked DEF Reads
<1>5. ASSUME NEW p \in Procs, Write(p) PROVE EthInv' /\ Filled'
  BY <1>5, WriteInv, FillMasks DEF Write
<1>6. ASSUME NEW p \in Procs, WriteWait(p) PROVE EthInv' /\ Filled'
  <2>1. Unmasked /\ masked' = masked BY <1>6 DEF WriteWait, MayWrite
  <2> QED BY <1>6, <2>1, WriteWaitInv, StillUnmasked
<1>7. ASSUME NEW p \in Procs, WriteWoken(p) PROVE EthInv' /\ Filled'
  BY <1>7, WriteWokenInv, FillMasks DEF WriteWoken
<1>8. ASSUME NEW p \in Procs, Start(p) PROVE EthInv' /\ Filled'
  <2>1. masked' = Nobody BY <1>8 DEF Start
  <2>2. Filled' BY <2>1, EthAssumption DEF Filled
  <2> QED BY <1>8, <2>2, StartInv
<1> QED BY <1>1, <1>2, <1>3, <1>4, <1>5, <1>6, <1>7, <1>8, <1>9 DEF EthNext

LEMMA InitFilled == EthInit => Filled
BY EthAssumption DEF EthInit, Filled

(* ethInterrupt() never waits in getbuf(): while the input buffer has room *)
(* for a packet the pool has a buffer to replace it (allocRxBuffer.c).     *)
THEOREM HandlerFindsBuffer == EthSpec => []HandlerNeverWaits
<1>1. EthInv => HandlerNeverWaits
  <2> SUFFICES ASSUME EthInv, icount < ETH_IBUFSIZ PROVE inPool.count > 0
    BY DEF HandlerNeverWaits
  <2>1. inPool.count = ETH_IBUFSIZ - icount /\ icount \in Int /\ ETH_IBUFSIZ \in Int
    BY EthAssumption DEF EthInv, EthTypes, InputBuffer
  <2> QED BY <2>1
<1> QED BY <1>1, EthInitInv, InitFilled, EthStep, PTL DEF EthSpec
----------------------------------------------------------------------------
(***************************************************************************)
(* The two rings of input.  The controller is ahead of the handler by the  *)
(* frames that are not acknowledged, whatever else it found no place for;  *)
(* so the handler finds a full descriptor at its head for each of them,    *)
(* and the two rings together hold what was stored, in order, as long as   *)
(* the controller overwrote none of it.                                    *)
(***************************************************************************)
RxAt(j) == rxRing[(rxHead + j) % ETH_RX_RING_ENTRIES]
InAt(j) == in[(istart + j) % ETH_IBUFSIZ]

FramesInStep ==
    /\ \A i \in 1 .. icount : arrived[i] = InAt(i - 1)
    /\ \A j \in 1 .. rxCount : arrived[icount + j] = RxAt(j - 1)

InputRings ==
    /\ rxCount \in 0 .. ETH_RX_RING_ENTRIES
    /\ rxDMA = (rxHead + rxCount) % ETH_RX_RING_ENTRIES
    /\ arrived \in Seq(1 .. frames) /\ Len(arrived) = icount + rxCount
    /\ \A j \in 1 .. rxCount : RxAt(j - 1) # Empty
    /\ ~overwrote => FramesInStep

(* Going round a ring of n from the place after a, or to the one after j. *)
LEMMA NextAround ==
    ASSUME NEW n \in Nat \ {0}, NEW a \in 0 .. n - 1, NEW j \in 0 .. n - 1
    PROVE  /\ (a + 1) % n \in 0 .. n - 1
           /\ (((a + 1) % n) + j) % n = (a + (j + 1)) % n
           /\ (((a + j) % n) + 1) % n = (a + (j + 1)) % n
<1>1. 1 \in 0 .. n /\ j \in 0 .. n /\ j + 1 \in 0 .. n OBVIOUS
<1>2. (a + 1) % n = IF a + 1 < n THEN a + 1 ELSE a + 1 - n BY <1>1, Around
<1>3. (a + j) % n = IF a + j < n THEN a + j ELSE a + j - n BY <1>1, Around
<1>4. (a + (j + 1)) % n = IF a + (j + 1) < n THEN a + (j + 1) ELSE a + (j + 1) - n
  BY <1>1, Around
<1> DEFINE b == (a + 1) % n
           c == (a + j) % n
<1>5. b \in 0 .. n - 1 /\ c \in 0 .. n - 1 BY <1>2, <1>3
<1>6. b = (IF a + 1 < n THEN a + 1 ELSE a + 1 - n) /\ c = (IF a + j < n THEN a + j ELSE a + j - n)
  BY <1>2, <1>3
<1> HIDE DEF b, c
<1>7. (b + j) % n = IF b + j < n THEN b + j ELSE b + j - n BY <1>1, <1>5, Around
<1>8. (c + 1) % n = IF c + 1 < n THEN c + 1 ELSE c + 1 - n BY <1>1, <1>5, Around
<1>9. (b + j) % n = (a + (j + 1)) % n BY <1>4, <1>6, <1>7
<1>10. (c + 1) % n = (a + (j + 1)) % n BY <1>4, <1>6, <1>8
<1> QED BY <1>5, <1>9, <1>10 DEF b, c

LEMMA SeqOfMore ==
    ASSUME NEW S, NEW T, S \subseteq T, NEW s \in Seq(S)
    PROVE  s \in Seq(T) /\ \A i \in 1 .. Len(s) : s[i] \in S
<1>1. Len(s) \in Nat /\ s = [i \in 1 .. Len(s) |-> s[i]] /\ \A i \in 1 .. Len(s) : s[i] \in S
  BY LenProperties, ElementOfSeq
<1>2. s \in [1 .. Len(s) -> T] BY <1>1
<1> QED BY <1>1, <1>2 DEF Seq

LEMMA InputRingsInit == EthInit => InputRings
<1> SUFFICES ASSUME EthInit PROVE InputRings OBVIOUS
<1>1. /\ rxHead = 0 /\ rxDMA = 0 /\ rxCount = 0 /\ icount = 0 /\ arrived = <<>> /\ frames = 0
  BY DEF EthInit
<1>2. ETH_RX_RING_ENTRIES \in Nat \ {0} BY EthAssumption
<1>3. (0 + 0) % ETH_RX_RING_ENTRIES = 0
  <2>1. 0 \in 0 .. ETH_RX_RING_ENTRIES - 1 /\ 0 \in 0 .. ETH_RX_RING_ENTRIES BY <1>2
  <2>2. (0 + 0) % ETH_RX_RING_ENTRIES = IF 0 + 0 < ETH_RX_RING_ENTRIES THEN 0 + 0 ELSE 0 + 0 - ETH_RX_RING_ENTRIES
    BY <1>2, <2>1, Around
  <2> QED BY <1>2, <2>2
<1>4. <<>> \in Seq(1 .. frames) /\ Len(<<>>) = 0 /\ DOMAIN <<>> = {} OBVIOUS
<1> QED BY <1>1, <1>2, <1>3, <1>4 DEF InputRings, FramesInStep

(* What the handler looks at while there is a frame it has not seen. *)
LEMMA HeadOfRing ==
    ASSUME EthInv, InputRings, rxCount > 0
    PROVE  /\ rxRing[rxHead] = RxAt(0) /\ rxRing[rxHead] # Empty
           /\ ~overwrote => arrived[icount + 1] = rxRing[rxHead]
           /\ icount + 1 \in 1 .. Len(arrived)
<1>1. /\ ETH_RX_RING_ENTRIES \in Nat \ {0} /\ rxHead \in 0 .. ETH_RX_RING_ENTRIES - 1
      /\ icount \in Nat /\ rxCount \in Nat
      /\ Len(arrived) = icount + rxCount
  BY EthAssumption DEF EthInv, EthTypes, InputRings, RxPlaces
<1>2. icount + 1 \in 1 .. Len(arrived) BY <1>1
<1>3. (rxHead + 0) % ETH_RX_RING_ENTRIES = rxHead
  <2>1. 0 \in 0 .. ETH_RX_RING_ENTRIES BY <1>1
  <2>2. (rxHead + 0) % ETH_RX_RING_ENTRIES = IF rxHead + 0 < ETH_RX_RING_ENTRIES THEN rxHead + 0
                                             ELSE rxHead + 0 - ETH_RX_RING_ENTRIES
    BY <1>1, <2>1, Around
  <2> QED BY <1>1, <2>2
<1>4. rxRing[rxHead] = RxAt(0) BY <1>3 DEF RxAt
<1>5. 1 \in 1 .. rxCount /\ 1 - 1 = 0 BY <1>1
<1>6. RxAt(0) # Empty BY <1>5 DEF InputRings
<1>7. ~overwrote => arrived[icount + 1] = RxAt(0) BY <1>5 DEF InputRings, FramesInStep
<1> QED BY <1>2, <1>4, <1>6, <1>7

LEMMA FrameArrivesRings ==
    ASSUME EthInv, InputRings, FrameArrives
    PROVE  InputRings'
<1> DEFINE n == ETH_RX_RING_ENTRIES
<1>1. /\ n \in Nat \ {0} /\ rxHead \in 0 .. n - 1 /\ rxRing \in [0 .. n - 1 -> Int]
      /\ icount \in Nat /\ rxCount \in 0 .. n /\ frames \in Nat
      /\ arrived \in Seq(1 .. frames) /\ Len(arrived) = icount + rxCount
      /\ rxDMA = (rxHead + rxCount) % n
  BY EthAssumption DEF EthInv, EthTypes, InputRings, RxPlaces
<1>2. UNCHANGED <<rxHead, istart, icount>> /\ frames' = frames + 1
  BY DEF FrameArrives
<1>3. arrived \in Seq(1 .. frames') /\ \A i \in 1 .. Len(arrived) : arrived[i] \in 1 .. frames
  <2>1. 1 .. frames \subseteq 1 .. frames' BY <1>1, <1>2
  <2> QED BY <1>1, <2>1, SeqOfMore
<1>4. CASE ~(~rxOverflow /\ rxRing[rxDMA] = Empty)
  <2>1. UNCHANGED <<rxRing, in, rxDMA, rxCount, arrived, overwrote>> BY <1>4 DEF FrameArrives
  <2> QED BY <1>2, <1>3, <2>1 DEF InputRings, FramesInStep, RxAt, InAt
<1>5. CASE ~rxOverflow /\ rxRing[rxDMA] = Empty
  <2> DEFINE x == IF OldAddress THEN Stale ELSE frames + 1
  <2>1. /\ rxRing' = [rxRing EXCEPT ![rxDMA] = x] /\ rxDMA' = (rxDMA + 1) % n
        /\ rxCount' = rxCount + 1 /\ arrived' = Append(arrived, frames + 1)
        /\ ~overwrote' => ~overwrote /\ ~OldAddress
        /\ ~OldAddress => in' = in /\ x = frames + 1
        /\ x # Empty
    <3>1. x # Empty BY <1>1 DEF Stale, Empty
    <3>2. /\ rxDMA' = NextRx(rxDMA) /\ rxCount' = rxCount + 1
          /\ arrived' = Append(arrived, frames + 1)
          /\ rxRing' = [rxRing EXCEPT ![rxDMA] = x]
          /\ in' = IF OldAddress THEN [in EXCEPT ![LastIn] = frames + 1] ELSE in
          /\ overwrote' = (overwrote \/ OldAddress)
      BY <1>5, Zenon DEF FrameArrives
    <3> QED BY <3>1, <3>2, Zenon DEF NextRx
  <2> HIDE DEF x
  <2>2. rxCount < n
    <3> SUFFICES ASSUME rxCount = n PROVE FALSE BY <1>1
    <3>1. (rxHead + n) % n = IF rxHead + n < n THEN rxHead + n ELSE rxHead + n - n
      <4>1. n \in 0 .. n BY <1>1
      <4> QED BY <1>1, <4>1, Around
    <3>2. rxDMA = rxHead BY <1>1, <3>1
    <3>3. rxRing[rxHead] # Empty BY <1>1, HeadOfRing DEF Empty
    <3> QED BY <3>2, <3>3, <1>5
  <2>3. rxCount \in 0 .. n - 1 /\ rxCount' \in 0 .. n BY <1>1, <2>1, <2>2
  <2>4. rxDMA' = (rxHead' + rxCount') % n BY <1>1, <1>2, <2>1, <2>3, NextAround
  <2>5. rxDMA \in 0 .. n - 1 /\ \A j \in 0 .. rxCount - 1 : (rxHead + j) % n \in 0 .. n - 1 /\ (rxHead + j) % n # rxDMA
    <3>1. ASSUME NEW j \in 0 .. n - 1 PROVE (rxHead + j) % n \in 0 .. n - 1
      <4>1. j \in 0 .. n BY <1>1
      <4>2. (rxHead + j) % n = IF rxHead + j < n THEN rxHead + j ELSE rxHead + j - n
        BY <1>1, <4>1, Around
      <4> QED BY <1>1, <4>2
    <3>2. ASSUME NEW j \in 0 .. rxCount - 1 PROVE (rxHead + j) % n # rxDMA
      <4>1. j \in 0 .. n - 1 /\ j # rxCount BY <1>1, <2>3
      <4> QED BY <4>1, <1>1, <2>3, ApartAround
    <3>3. \A j \in 0 .. rxCount - 1 : j \in 0 .. n - 1 BY <1>1, <2>3
    <3> QED BY <3>1, <3>2, <3>3, <1>1, <2>3
  <2>6. \A j \in 0 .. rxCount - 1 : rxRing'[(rxHead + j) % n] = rxRing[(rxHead + j) % n]
    <3> SUFFICES ASSUME NEW j \in 0 .. rxCount - 1
                 PROVE  rxRing'[(rxHead + j) % n] = rxRing[(rxHead + j) % n]
      OBVIOUS
    <3>1. PICK k \in 0 .. n - 1 : k = (rxHead + j) % n /\ k # rxDMA BY <2>5
    <3>2. rxRing'[k] = rxRing[k] BY <3>1, <2>1, <2>5, <1>1
    <3> QED BY <3>1, <3>2
  <2>7. rxRing'[(rxHead + rxCount) % n] = x
    <3>1. rxRing'[rxDMA] = x BY <1>1, <2>1, <2>5
    <3> QED BY <3>1, <1>1
  <2>8. /\ arrived' \in Seq(1 .. frames') /\ Len(arrived') = icount' + rxCount'
        /\ \A i \in 1 .. Len(arrived) : arrived'[i] = arrived[i]
        /\ arrived'[Len(arrived) + 1] = frames + 1
    <3>1. frames + 1 \in 1 .. frames' BY <1>1, <1>2
    <3>2. /\ arrived' \in Seq(1 .. frames') /\ Len(arrived') = Len(arrived) + 1
          /\ \A i \in 1 .. Len(arrived) : arrived'[i] = arrived[i]
          /\ arrived'[Len(arrived) + 1] = frames + 1
      BY <3>1, <1>3, <2>1, AppendProperties
    <3> QED BY <3>2, <1>1, <1>2, <2>1
  <2>9. ASSUME NEW j \in 1 .. rxCount'
        PROVE  RxAt(j - 1)' # Empty
    <3>1. CASE j = rxCount + 1
      <4>1. j - 1 = rxCount BY <3>1, <1>1
      <4> QED BY <4>1, <1>2, <2>1, <2>7 DEF RxAt
    <3>2. CASE j \in 1 .. rxCount
      <4>1. j - 1 \in 0 .. rxCount - 1 BY <3>2, <1>1
      <4>2. RxAt(j - 1) # Empty BY <3>2 DEF InputRings
      <4> QED BY <4>1, <4>2, <1>2, <2>6 DEF RxAt
    <3> QED BY <3>1, <3>2, <1>1, <2>1
  <2>10. ASSUME ~overwrote'
         PROVE  FramesInStep'
    <3>1. in' = in /\ x = frames + 1 /\ FramesInStep BY <2>1, <2>10 DEF InputRings
    <3>2. \A i \in 1 .. icount' : arrived'[i] = InAt(i - 1)'
      <4>1. \A i \in 1 .. icount : i \in 1 .. Len(arrived) /\ arrived[i] = in[(istart + (i - 1)) % ETH_IBUFSIZ]
        BY <1>1, <3>1 DEF FramesInStep, InAt
      <4> QED BY <4>1, <3>1, <1>2, <2>8 DEF InAt
    <3>3. \A j \in 1 .. rxCount' : arrived'[icount' + j] = rxRing'[(rxHead' + (j - 1)) % n]
      <4> SUFFICES ASSUME NEW j \in 1 .. rxCount + 1
                   PROVE  arrived'[icount + j] = rxRing'[(rxHead + (j - 1)) % n]
        BY <1>2, <2>1
      <4>1. CASE j = rxCount + 1
        <5>1. icount + j = Len(arrived) + 1 /\ j - 1 = rxCount BY <4>1, <1>1
        <5> QED BY <5>1, <2>7, <2>8, <3>1
      <4>2. CASE j \in 1 .. rxCount
        <5>1. icount + j \in 1 .. Len(arrived) /\ j - 1 \in 0 .. rxCount - 1 BY <4>2, <1>1
        <5>2. arrived[icount + j] = rxRing[(rxHead + (j - 1)) % n]
          BY <4>2, <3>1 DEF FramesInStep, RxAt
        <5> QED BY <5>1, <5>2, <2>6, <2>8
      <4> QED BY <4>1, <4>2, <1>1
    <3> QED BY <3>2, <3>3 DEF FramesInStep, RxAt
  <2> QED BY <2>3, <2>4, <2>8, <2>9, <2>10 DEF InputRings
<1> QED BY <1>4, <1>5

(* The handler sees the frame at its head and goes on to the next place. *)
LEMMA HeadMoves ==
    ASSUME EthInv, InputRings, rxCount > 0, NEW x,
           rxHead' = NextRx(rxHead), rxCount' = rxCount - 1, rxDMA' = rxDMA,
           rxRing' = [rxRing EXCEPT ![rxHead] = x]
    PROVE  /\ rxCount' \in 0 .. ETH_RX_RING_ENTRIES
           /\ rxDMA' = (rxHead' + rxCount') % ETH_RX_RING_ENTRIES
           /\ \A j \in 1 .. rxCount' :
                  j + 1 \in 1 .. rxCount /\ RxAt(j - 1)' = RxAt((j + 1) - 1)
<1> DEFINE n == ETH_RX_RING_ENTRIES
<1>1. /\ n \in Nat \ {0} /\ rxHead \in 0 .. n - 1 /\ rxRing \in [0 .. n - 1 -> Int]
      /\ rxCount \in 1 .. n /\ rxDMA = (rxHead + rxCount) % n
  BY EthAssumption DEF EthInv, EthTypes, InputRings, RxPlaces
<1>2. rxHead' = (rxHead + 1) % n BY DEF NextRx
<1>3. \A j \in 0 .. n - 1 : (rxHead' + j) % n = (rxHead + (j + 1)) % n
  BY <1>1, <1>2, NextAround
<1>4. rxDMA' = (rxHead' + rxCount') % n
  <2>1. rxCount' \in 0 .. n - 1 /\ rxCount' + 1 = rxCount BY <1>1
  <2>2. (rxHead' + rxCount') % n = (rxHead + (rxCount' + 1)) % n BY <1>3, <2>1
  <2> QED BY <1>1, <2>1, <2>2
<1>5. ASSUME NEW j \in 1 .. rxCount'
      PROVE  j + 1 \in 1 .. rxCount /\ RxAt(j - 1)' = RxAt((j + 1) - 1)
  <2>1. j - 1 \in 0 .. n - 1 /\ (j - 1) + 1 = j /\ j \in 0 .. n - 1 /\ j # 0 /\ j \in 0 .. n
        /\ j + 1 \in 1 .. rxCount /\ (j + 1) - 1 = j /\ 0 \in 0 .. n - 1 /\ 0 \in 0 .. n
    BY <1>1
  <2>2. (rxHead' + (j - 1)) % n = (rxHead + j) % n BY <1>3, <2>1
  <2>3. (rxHead + j) % n # rxHead /\ (rxHead + j) % n \in 0 .. n - 1
    <3>1. (rxHead + j) % n = IF rxHead + j < n THEN rxHead + j ELSE rxHead + j - n
      BY <1>1, <2>1, Around
    <3> QED BY SMTT(30), <3>1, <1>1, <2>1
  <2>4. rxRing'[(rxHead + j) % n] = rxRing[(rxHead + j) % n]
    <3>1. PICK k \in 0 .. n - 1 : k = (rxHead + j) % n /\ k # rxHead BY <2>3
    <3>2. rxRing'[k] = rxRing[k] BY <3>1, <1>1
    <3> QED BY <3>1, <3>2
  <2> QED BY <2>1, <2>2, <2>4 DEF RxAt
<1>6. rxCount' \in 0 .. n BY <1>1
<1> QED BY <1>4, <1>5, <1>6

(* What is seen at the places that the handler has not got to is there     *)
(* when its head has moved.                                                *)
LEMMA UnseenStay ==
    ASSUME EthInv, InputRings, rxCount > 0, NEW x,
           rxHead' = NextRx(rxHead), rxCount' = rxCount - 1, rxDMA' = rxDMA,
           rxRing' = [rxRing EXCEPT ![rxHead] = x]
    PROVE  /\ rxCount' \in 0 .. ETH_RX_RING_ENTRIES
           /\ rxDMA' = (rxHead' + rxCount') % ETH_RX_RING_ENTRIES
           /\ \A j \in 1 .. rxCount' : RxAt(j - 1)' # Empty
           /\ ~overwrote => \A j \in 1 .. rxCount' : arrived[icount + (j + 1)] = RxAt(j - 1)'
<1>1. /\ rxCount' \in 0 .. ETH_RX_RING_ENTRIES
      /\ rxDMA' = (rxHead' + rxCount') % ETH_RX_RING_ENTRIES
      /\ \A j \in 1 .. rxCount' : j + 1 \in 1 .. rxCount /\ RxAt(j - 1)' = RxAt((j + 1) - 1)
  BY HeadMoves
<1>2. \A j \in 1 .. rxCount : RxAt(j - 1) # Empty BY DEF InputRings
<1>3. ~overwrote => \A j \in 1 .. rxCount : arrived[icount + j] = RxAt(j - 1)
  BY DEF InputRings, FramesInStep
<1>4. ASSUME NEW j \in 1 .. rxCount' PROVE RxAt(j - 1)' # Empty
  BY <1>1, <1>2
<1>5. ASSUME ~overwrote, NEW j \in 1 .. rxCount' PROVE arrived[icount + (j + 1)] = RxAt(j - 1)'
  BY <1>1, <1>3, <1>5
<1> QED BY <1>1, <1>4, <1>5

LEMMA DeliverRings ==
    ASSUME EthInv, InputRings, rxCount > 0, RxDeliver,
           rxHead' = NextRx(rxHead), rxCount' = rxCount - 1,
           UNCHANGED <<rxDMA, istart, frames, overwrote>>
    PROVE  InputRings'
<1> DEFINE n == ETH_IBUFSIZ
<1>1. /\ n \in Nat \ {0} /\ istart \in 0 .. n - 1 /\ in \in [0 .. n - 1 -> Int]
      /\ icount \in 0 .. n - 1 /\ rxCount \in Nat
      /\ arrived \in Seq(1 .. frames) /\ Len(arrived) = icount + rxCount
  <2>1. /\ n \in Nat \ {0} /\ istart \in 0 .. n - 1 /\ in \in [0 .. n - 1 -> Int]
        /\ icount \in 0 .. n
    BY EthAssumption DEF EthInv, EthTypes
  <2>2. rxCount \in 0 .. ETH_RX_RING_ENTRIES BY DEF InputRings
  <2>3. rxCount \in Nat BY <2>2, EthAssumption
  <2>4. icount < n BY DEF RxDeliver
  <2>5. arrived \in Seq(1 .. frames) /\ Len(arrived) = icount + rxCount BY DEF InputRings
  <2>6. icount \in 0 .. n - 1 BY <2>1, <2>4
  <2> QED BY <2>1, <2>3, <2>5, <2>6
<1>2. /\ rxRing' = [rxRing EXCEPT ![rxHead] = Empty] /\ arrived' = arrived /\ icount' = icount + 1
      /\ in' = [in EXCEPT ![(istart + icount) % n] = rxRing[rxHead]]
  BY DEF RxDeliver
<1>3. /\ rxCount' \in 0 .. ETH_RX_RING_ENTRIES
      /\ rxDMA' = (rxHead' + rxCount') % ETH_RX_RING_ENTRIES
      /\ \A j \in 1 .. rxCount' : RxAt(j - 1)' # Empty
      /\ ~overwrote => \A j \in 1 .. rxCount' : arrived[icount + (j + 1)] = RxAt(j - 1)'
  BY <1>2, UnseenStay
<1>4. ASSUME ~overwrote
      PROVE  FramesInStep'
  <2>1. ASSUME NEW j \in 1 .. rxCount' PROVE arrived'[icount' + j] = RxAt(j - 1)'
    <3>1. icount' + j = icount + (j + 1) BY <1>1, <1>2
    <3> QED BY <3>1, <1>2, <1>3, <1>4
  <2>2. ASSUME NEW i \in 1 .. icount' PROVE arrived'[i] = InAt(i - 1)'
    <3>1. i - 1 \in 0 .. n - 1 /\ i - 1 \in 0 .. n /\ icount \in 0 .. n BY <1>1, <1>2
    <3>2. PICK k \in 0 .. n - 1 : k = (istart + (i - 1)) % n
      <4>1. (istart + (i - 1)) % n = IF istart + (i - 1) < n THEN istart + (i - 1) ELSE istart + (i - 1) - n
        BY <1>1, <3>1, Around
      <4>2. (istart + (i - 1)) % n \in 0 .. n - 1 BY <4>1, <1>1, <3>1
      <4> QED BY <4>2
    <3>3. CASE i = icount + 1
      <4>1. (istart + (i - 1)) % n = (istart + icount) % n BY <3>3, <1>1
      <4>2. in'[k] = rxRing[rxHead] BY <4>1, <3>2, <1>1, <1>2
      <4>3. arrived'[i] = rxRing[rxHead] BY <3>3, <1>2, <1>4, HeadOfRing
      <4> QED BY <4>2, <4>3, <3>2, <1>2 DEF InAt
    <3>4. CASE i \in 1 .. icount
      <4>1. (istart + (i - 1)) % n # (istart + icount) % n
        <5>1. i - 1 # icount BY <3>4, <1>1
        <5> QED BY <5>1, <1>1, <3>1, ApartAround
      <4>2. in'[k] = in[k] BY <4>1, <3>2, <1>1, <1>2
      <4>3. arrived'[i] = in[k] BY <3>4, <1>2, <1>4, <3>2 DEF InputRings, FramesInStep, InAt
      <4> QED BY <4>2, <4>3, <3>2 DEF InAt
    <3> QED BY <3>3, <3>4, <1>1, <1>2
  <2> QED BY <2>1, <2>2 DEF FramesInStep
<1>5. Len(arrived') = icount' + rxCount' BY <1>1, <1>2
<1>6. arrived' \in Seq(1 .. frames') BY <1>1, <1>2
<1> QED BY <1>3, <1>4, <1>5, <1>6 DEF InputRings

LEMMA OverrunRings ==
    ASSUME EthInv, InputRings, rxCount > 0, RxOverrun,
           rxHead' = NextRx(rxHead), rxCount' = rxCount - 1,
           UNCHANGED <<rxDMA, istart, frames, overwrote>>
    PROVE  InputRings'
<1>1. /\ icount \in Nat /\ rxCount \in Nat
      /\ arrived \in Seq(1 .. frames) /\ Len(arrived) = icount + rxCount
  BY EthAssumption DEF EthInv, EthTypes, InputRings
<1>2. /\ rxRing' = [rxRing EXCEPT ![rxHead] = Cleared] /\ icount' = icount /\ in' = in
      /\ arrived' = RemoveAt(arrived, icount + 1)
  BY DEF RxOverrun
<1>3. /\ rxCount' \in 0 .. ETH_RX_RING_ENTRIES
      /\ rxDMA' = (rxHead' + rxCount') % ETH_RX_RING_ENTRIES
      /\ \A j \in 1 .. rxCount' : RxAt(j - 1)' # Empty
      /\ ~overwrote => \A j \in 1 .. rxCount' : arrived[icount + (j + 1)] = RxAt(j - 1)'
  BY <1>2, UnseenStay
<1>4. /\ arrived' \in Seq(1 .. frames) /\ Len(arrived') = Len(arrived) - 1
      /\ \A i \in 1 .. Len(arrived) - 1 :
             arrived'[i] = IF i < icount + 1 THEN arrived[i] ELSE arrived[i + 1]
  <2>1. icount + 1 \in 1 .. Len(arrived) BY HeadOfRing
  <2>2. PICK k \in 1 .. Len(arrived) : k = icount + 1 BY <2>1
  <2>3. arrived' = RemoveAt(arrived, k) BY <1>2, <2>2
  <2>4. /\ arrived' \in Seq(1 .. frames) /\ Len(arrived') = Len(arrived) - 1
        /\ \A i \in 1 .. Len(arrived) - 1 : arrived'[i] = IF i < k THEN arrived[i] ELSE arrived[i + 1]
    BY <1>1, <2>3, RemoveAtElements
  <2> QED BY <2>2, <2>4
<1>5. ASSUME ~overwrote
      PROVE  FramesInStep'
  <2>1. ASSUME NEW j \in 1 .. rxCount' PROVE arrived'[icount' + j] = RxAt(j - 1)'
    <3>1. /\ icount' + j = icount + j /\ icount + j \in 1 .. Len(arrived) - 1
          /\ ~(icount + j < icount + 1) /\ icount + j + 1 = icount + (j + 1)
      BY <1>1, <1>2
    <3> QED BY <3>1, <1>3, <1>4, <1>5
  <2>2. ASSUME NEW i \in 1 .. icount' PROVE arrived'[i] = InAt(i - 1)'
    <3>1. i \in 1 .. icount /\ i < icount + 1 /\ i \in 1 .. Len(arrived) - 1 BY <1>1, <1>2
    <3>2. arrived'[i] = arrived[i] BY <3>1, <1>4
    <3>3. arrived[i] = InAt(i - 1) BY <3>1, <1>5 DEF InputRings, FramesInStep
    <3> QED BY <3>2, <3>3, <1>2 DEF InAt
  <2> QED BY <2>1, <2>2 DEF FramesInStep
<1>6. Len(arrived') = icount' + rxCount' BY <1>1, <1>2, <1>4
<1> QED BY <1>3, <1>4, <1>5, <1>6 DEF InputRings

LEMMA EthInterruptRings ==
    ASSUME EthInv, InputRings, EthInterrupt
    PROVE  InputRings'
<1>1. UNCHANGED <<istart, rxDMA, frames, overwrote>> BY DEF EthInterrupt
<1>2. CASE ~(rxCount > 0)
  <2>1. UNCHANGED <<rxCount, rxRing, rxHead, in, icount, arrived>> BY <1>2 DEF EthInterrupt
  <2> QED BY <1>1, <2>1 DEF InputRings, FramesInStep, RxAt, InAt
<1>3. CASE rxCount > 0
  <2>1. RxPackets BY <1>3 DEF EthInterrupt
  <2>2. rxRing[rxHead] # Empty BY <1>3, HeadOfRing
  <2>3. rxCount' = rxCount - 1 /\ rxHead' = NextRx(rxHead) /\ (RxDeliver \/ RxOverrun)
    BY <2>1, <2>2 DEF RxPackets
  <2> QED BY <1>1, <1>3, <2>3, DeliverRings, OverrunRings
<1> QED BY <1>2, <1>3

LEMMA PickUpRings ==
    ASSUME EthInv, InputRings, PickUp, icount > 0
    PROVE  InputRings'
<1> DEFINE n == ETH_IBUFSIZ
<1>1. /\ n \in Nat \ {0} /\ istart \in 0 .. n - 1
      /\ icount \in 1 .. n /\ rxCount \in Nat
      /\ arrived \in Seq(1 .. frames) /\ Len(arrived) = icount + rxCount
  BY EthAssumption DEF EthInv, EthTypes, InputRings
<1>2. in[istart] # None
  <2>1. 0 \in 0 .. icount - 1 /\ 0 \in 0 .. n BY <1>1
  <2>2. (istart + 0) % n = IF istart + 0 < n THEN istart + 0 ELSE istart + 0 - n BY <1>1, <2>1, Around
  <2>3. (istart + 0) % n = istart BY <2>2, <1>1
  <2>4. in[(istart + 0) % n] # None BY <2>1 DEF EthInv, InputBuffer
  <2> QED BY <2>3, <2>4
<1>3. /\ in' = [in EXCEPT ![istart] = None] /\ istart' = (istart + 1) % n /\ icount' = icount - 1
      /\ arrived' = Tail(arrived)
      /\ UNCHANGED <<rxRing, rxHead, rxDMA, rxCount, frames, overwrote>>
  BY <1>2 DEF PickUp, rxNic
<1>4. /\ arrived' \in Seq(1 .. frames) /\ Len(arrived') = Len(arrived) - 1
      /\ \A i \in 1 .. Len(arrived) - 1 : arrived'[i] = arrived[i + 1]
  <2>1. arrived # <<>> BY <1>1, EmptySeq
  <2> QED BY <2>1, <1>1, <1>3, HeadTailProperties
<1>5. ASSUME ~overwrote, NEW i \in 1 .. icount' PROVE arrived'[i] = InAt(i - 1)'
  <2>1. /\ i \in 0 .. n - 1 /\ i \in 0 .. n /\ i # 0 /\ i - 1 \in 0 .. n - 1 /\ (i - 1) + 1 = i
        /\ i + 1 \in 1 .. icount /\ i \in 1 .. Len(arrived) - 1 /\ (i + 1) - 1 = i
    BY <1>1, <1>3
  <2>2. (istart' + (i - 1)) % n = (istart + i) % n
    <3>1. (((istart + 1) % n) + (i - 1)) % n = (istart + ((i - 1) + 1)) % n BY <1>1, <2>1, NextAround
    <3> QED BY <3>1, <1>3, <2>1
  <2>3. (istart + i) % n # istart /\ (istart + i) % n \in 0 .. n - 1
    <3>1. (istart + i) % n = IF istart + i < n THEN istart + i ELSE istart + i - n BY <1>1, <2>1, Around
    <3> QED BY <3>1, <1>1, <2>1
  <2>4. PICK k \in 0 .. n - 1 : k = (istart + i) % n /\ k # istart BY <2>3
  <2>5. in'[k] = in[k]
    <3>1. in \in [0 .. n - 1 -> Int] BY DEF EthInv, EthTypes
    <3> QED BY <3>1, <2>4, <1>3
  <2>6. arrived[i + 1] = in[k]
    <3>1. arrived[i + 1] = InAt((i + 1) - 1) BY <2>1, <1>5 DEF InputRings, FramesInStep
    <3> QED BY <3>1, <2>1, <2>4 DEF InAt
  <2> QED BY <2>1, <2>2, <2>4, <2>5, <2>6, <1>4 DEF InAt
<1>6. ASSUME ~overwrote, NEW j \in 1 .. rxCount' PROVE arrived'[icount' + j] = RxAt(j - 1)'
  <2>1. /\ j \in 1 .. rxCount /\ icount' + j \in 1 .. Len(arrived) - 1 /\ icount' + j + 1 = icount + j
    BY <1>1, <1>3
  <2>2. arrived[icount + j] = RxAt(j - 1) BY <2>1, <1>6 DEF InputRings, FramesInStep
  <2> QED BY <2>1, <2>2, <1>3, <1>4 DEF RxAt
<1>7. Len(arrived') = icount' + rxCount' BY <1>1, <1>3, <1>4
<1>8. /\ rxCount' \in 0 .. ETH_RX_RING_ENTRIES
      /\ rxDMA' = (rxHead' + rxCount') % ETH_RX_RING_ENTRIES
      /\ arrived' \in Seq(1 .. frames')
      /\ \A j \in 1 .. rxCount' : RxAt(j - 1)' # Empty
  BY <1>3, <1>4 DEF InputRings, RxAt
<1>9. ~overwrote' => FramesInStep' BY <1>3, <1>5, <1>6 DEF FramesInStep
<1> QED BY <1>7, <1>8, <1>9 DEF InputRings

LEMMA InputRingsStep ==
    ASSUME EthInv, InputRings, [EthNext]_vars
    PROVE  InputRings'
<1>1. ASSUME UNCHANGED <<rxRing, rxHead, in, istart, icount, rxDMA, rxCount, frames, arrived,
                         overwrote>>
      PROVE  InputRings'
  BY <1>1 DEF InputRings, FramesInStep, RxAt, InAt
<1>2. CASE UNCHANGED vars BY <1>1, <1>2 DEF vars, rxVars, rxNic, auxVars
<1>3. CASE FrameSent BY <1>1, <1>3 DEF FrameSent, rxVars, rxNic, auxVars
<1>9. CASE HandlerEnds BY <1>1, <1>9 DEF HandlerEnds, rxVars, auxVars
<1>4. ASSUME NEW p \in Procs, Write(p) \/ WriteWait(p) \/ WriteWoken(p) \/ Start(p)
      PROVE  InputRings'
  BY <1>1, <1>4 DEF Write, WriteWait, WriteWoken, Start, MayWrite, Fill, rxVars, rxNic, auxVars
<1>5. CASE ReadWait BY <1>1, <1>5 DEF ReadWait, rxNic, auxVars
<1>6. InputCounted /\ isema.count \in Int BY DEF EthInv, EthTypes, Sems
<1>7. CASE Read
  <2>1. icount > 0
    <3>1. Tokens(isema) > 0 BY <1>6, <1>7 DEF Read, Tokens
    <3>2. Tokens(isema) \in Int BY <1>6 DEF Tokens
    <3> QED BY <1>6, <3>1, <3>2 DEF InputCounted
  <2> QED BY <1>7, <2>1, PickUpRings DEF Read
<1>8. CASE ReadWoken
  <2>1. icount > 0
    <3>1. Tokens(isema) >= 0 /\ Tokens(isema) \in Int BY <1>6 DEF Tokens
    <3>2. ReaderWoken BY <1>8 DEF ReadWoken, ReaderWoken
    <3> QED BY <1>6, <3>1, <3>2 DEF InputCounted
  <2> QED BY <1>8, <2>1, PickUpRings DEF ReadWoken
<1> QED BY <1>2, <1>3, <1>4, <1>5, <1>7, <1>8, <1>9, FrameArrivesRings, EthInterruptRings
        DEF EthNext, Controller, Reads

(* netin reads every frame that was stored and not dropped for want of     *)
(* room, once and in order, and is never handed a NULL, for rings of any   *)
(* size and however many frames the controller stores between two steps of *)
(* the driver, until it stores one with the old address of a descriptor    *)
(* that allocRxBuffer() has made EMPTY; and the rings, the semaphore and   *)
(* the counts agree even then.                                             *)
THEOREM InputStaysInStep == EthSpec => []InputInStep
<1>1. ASSUME EthInv, InputRings, ~overwrote PROVE arrived = Pending \o Unseen
  <2> DEFINE s == Pending \o Unseen
             T == 1 .. frames
  <2>1. /\ icount \in Nat /\ rxCount \in Nat /\ arrived \in Seq(T) /\ Len(arrived) = icount + rxCount
        /\ \A i \in 1 .. Len(arrived) : arrived[i] \in T
    BY SMTT(30), <1>1, LenProperties DEF EthInv, EthTypes, InputRings
  <2>2. Pending \in Seq(T) /\ Len(Pending) = icount /\ \A i \in 1 .. icount : Pending[i] = arrived[i]
    <3>1. ASSUME NEW i \in 1 .. icount PROVE Pending[i] = arrived[i] /\ arrived[i] \in T
      <4>1. istart \in Int /\ (istart + i) - 1 = istart + (i - 1) BY <1>1, EthAssumption DEF EthInv, EthTypes
      <4>2. Pending[i] = InAt(i - 1) BY <4>1 DEF Pending, InAt
      <4> QED BY <4>2, <1>1, <2>1 DEF InputRings, FramesInStep
    <3>2. Pending \in [1 .. icount -> T] BY <3>1 DEF Pending
    <3>3. Pending \in Seq(T)
      <4> HIDE DEF T
      <4> QED BY <2>1, <3>2 DEF Seq
    <3> QED BY <2>1, <3>1, <3>2, <3>3, LenProperties
  <2>3. Unseen \in Seq(T) /\ Len(Unseen) = rxCount /\ \A j \in 1 .. rxCount : Unseen[j] = arrived[icount + j]
    <3>1. ASSUME NEW j \in 1 .. rxCount PROVE Unseen[j] = arrived[icount + j] /\ arrived[icount + j] \in T
      <4>1. rxHead \in Int /\ (rxHead + j) - 1 = rxHead + (j - 1) /\ icount + j \in 1 .. Len(arrived)
        BY <1>1, <2>1, EthAssumption DEF EthInv, EthTypes, RxPlaces
      <4>2. Unseen[j] = RxAt(j - 1) BY <4>1 DEF Unseen, RxAt
      <4> QED BY <4>1, <4>2, <1>1, <2>1 DEF InputRings, FramesInStep
    <3>2. Unseen \in [1 .. rxCount -> T] BY <3>1 DEF Unseen
    <3>3. Unseen \in Seq(T)
      <4> HIDE DEF T
      <4> QED BY <2>1, <3>2 DEF Seq
    <3> QED BY <2>1, <3>1, <3>2, <3>3, LenProperties
  <2>4. /\ s \in Seq(T) /\ Len(s) = icount + rxCount
        /\ \A i \in 1 .. icount + rxCount : s[i] = IF i <= icount THEN Pending[i] ELSE Unseen[i - icount]
    BY ZenonT(30), <2>2, <2>3, ConcatProperties
  <2> HIDE DEF s, T
  <2>5. ASSUME NEW i \in 1 .. icount + rxCount PROVE s[i] = arrived[i]
    <3>1. CASE i <= icount BY <3>1, <2>1, <2>2, <2>4
    <3>2. CASE ~(i <= icount)
      <4>1. i - icount \in 1 .. rxCount /\ icount + (i - icount) = i BY <3>2, <2>1
      <4> QED BY <4>1, <3>2, <2>3, <2>4
    <3> QED BY <3>1, <3>2
  <2>6. arrived = s BY <2>1, <2>4, <2>5, SeqEqual
  <2> QED BY <2>6 DEF s
<1>2. EthInv /\ InputRings => InputInStep
  BY <1>1 DEF EthInv, InputCounted, ReaderWoken, InputRings, InputInStep
<1> QED BY <1>2, EthInitInv, InitFilled, EthStep, InputRingsInit, InputRingsStep, PTL DEF EthSpec
----------------------------------------------------------------------------
(***************************************************************************)
(* The output ring.  txHead and txTail only grow, and the buffers are in   *)
(* the places from the one to the other, taken round the ring, as long as  *)
(* nobody wrote to a place that was not the tail.                          *)
(***************************************************************************)
(* The k places from h on. *)
Window(h, k) == {(h + j) % ETH_TX_RING_ENTRIES : j \in 0 .. k - 1}

(* Who waits for a buffer to write to, and who was given one. *)
WaitForBuffers(place) == {p \in Procs : place[p].at = "wait" /\ place[p].tail # -1}
HaveBuffers(place) == {p \in Procs : place[p].at = "woken" /\ place[p].tail # -1}

OutputTypes ==
    /\ txRing \in [TxPlaces -> BOOLEAN] /\ txBufs \in [TxPlaces -> BOOLEAN]
    /\ raced \in BOOLEAN
    /\ Holds(outPool, WaitForBuffers(pc))
    /\ IsFiniteSet(HaveBuffers(pc))

InWindow ==
    /\ \A i \in TxPlaces : txBufs[i] <=> i \in Window(txHead, txTail - txHead)
    /\ \A i \in TxPlaces : txRing[i] => txBufs[i]
    /\ Tokens(outPool) + Cardinality(HaveBuffers(pc)) + (txTail - txHead) = ETH_TX_RING_ENTRIES

OutputInv == OutputTypes /\ (~raced => InWindow)

(* So k places are k, up to one round. *)
LEMMA WindowCounted ==
    ASSUME NEW h \in Nat, NEW k \in 0 .. ETH_TX_RING_ENTRIES
    PROVE  /\ Window(h, k) \subseteq TxPlaces
           /\ IsFiniteSet(Window(h, k)) /\ Cardinality(Window(h, k)) = k
<1> DEFINE n == ETH_TX_RING_ENTRIES
           W == Window(h, k)
           f == [j \in 0 .. k - 1 |-> (h + j) % n]
<1>1. n \in Nat \ {0} /\ k \in Nat /\ k <= n BY EthAssumption
<1>2. \A j \in 0 .. k - 1 : j \in 0 .. n - 1 /\ j \in Nat BY <1>1
<1>3. W \subseteq TxPlaces BY <1>1, <1>2, OnTheRing DEF Window, TxPlaces
<1>4. f \in [0 .. k - 1 -> W] BY DEF Window
<1>5. \A i, j \in 0 .. k - 1 : f[i] = f[j] => i = j BY <1>1, <1>2, ApartOnTheRing
<1>6. \A w \in W : \E j \in 0 .. k - 1 : f[j] = w BY DEF Window
<1>7. ExistsBijection(0 .. k - 1, W)
  <2>1. f \in Injection(0 .. k - 1, W) BY <1>4, <1>5 DEF Injection, IsInjective
  <2>2. f \in Surjection(0 .. k - 1, W) BY <1>4, <1>6 DEF Surjection
  <2> QED BY <2>1, <2>2 DEF Bijection, ExistsBijection
<1>8. IsFiniteSet(0 .. k - 1) /\ Cardinality(0 .. k - 1) = k
  <2>1. 0 \in Int /\ k - 1 \in Int /\ (IF 0 > k - 1 THEN 0 ELSE k - 1 - 0 + 1) = k BY <1>1
  <2> QED BY <2>1, FS_Interval
<1> QED BY <1>3, <1>7, <1>8, FS_Bijection

(* The first k of d places, and the others. *)
LEMMA WindowSplits ==
    ASSUME NEW h \in Nat, NEW d \in 0 .. ETH_TX_RING_ENTRIES, NEW k \in 0 .. d
    PROVE  /\ Window(h, k) \subseteq Window(h, d)
           /\ Window(h + k, d - k) = Window(h, d) \ Window(h, k)
<1> DEFINE n == ETH_TX_RING_ENTRIES
<1>1. n \in Nat \ {0} /\ d \in Nat /\ d <= n /\ k \in Nat /\ k <= d BY EthAssumption
<1>2. \A j \in 0 .. k - 1 : j \in 0 .. d - 1 BY <1>1
<1>3. Window(h, k) \subseteq Window(h, d) BY <1>2 DEF Window
<1>4. \A j \in 0 .. d - 1 : j \in 0 .. n - 1 BY <1>1
<1>5. \A i, j \in 0 .. d - 1 : (h + i) % n = (h + j) % n => i = j
  BY <1>1, <1>4, ApartOnTheRing
<1>6. Window(h + k, d - k) = {(h + j) % n : j \in k .. d - 1}
  <2>1. ASSUME NEW i \in 0 .. (d - k) - 1 PROVE i + k \in k .. d - 1 /\ (h + k) + i = h + (i + k)
    BY <1>1
  <2>2. ASSUME NEW j \in k .. d - 1 PROVE j - k \in 0 .. (d - k) - 1 /\ (h + k) + (j - k) = h + j
    BY <1>1
  <2> QED BY <2>1, <2>2 DEF Window
<1>7. \A j \in 0 .. d - 1 : j \in k .. d - 1 <=> j \notin 0 .. k - 1 BY <1>1
<1>8. \A j \in k .. d - 1 : j \in 0 .. d - 1 BY <1>1
<1>9. ASSUME NEW x \in Window(h + k, d - k) PROVE x \in Window(h, d) /\ x \notin Window(h, k)
  <2>1. PICK j \in k .. d - 1 : x = (h + j) % n BY <1>6
  <2>2. j \in 0 .. d - 1 /\ j \notin 0 .. k - 1 BY <1>7, <1>8
  <2>3. \A i \in 0 .. k - 1 : x # (h + i) % n BY <2>1, <2>2, <1>2, <1>5
  <2> QED BY <2>1, <2>2, <2>3 DEF Window
<1>10. ASSUME NEW x \in Window(h, d), x \notin Window(h, k) PROVE x \in Window(h + k, d - k)
  <2>1. PICK j \in 0 .. d - 1 : x = (h + j) % n BY DEF Window
  <2>2. j \notin 0 .. k - 1 BY <2>1, <1>10 DEF Window
  <2>3. j \in k .. d - 1 BY <2>2, <1>7
  <2> QED BY <2>1, <2>3, <1>6
<1> QED BY <1>3, <1>9, <1>10

(* One more place. *)
LEMMA WindowGrows ==
    ASSUME NEW h \in Nat, NEW d \in Nat, d < ETH_TX_RING_ENTRIES
    PROVE  /\ Window(h, d + 1) = Window(h, d) \cup {(h + d) % ETH_TX_RING_ENTRIES}
           /\ (h + d) % ETH_TX_RING_ENTRIES \notin Window(h, d)
           /\ (h + d) % ETH_TX_RING_ENTRIES \in TxPlaces
<1> DEFINE n == ETH_TX_RING_ENTRIES
<1>1. n \in Nat \ {0} BY EthAssumption
<1>2. \A j \in 0 .. (d + 1) - 1 : j \in 0 .. d - 1 \/ j = d BY <1>1
<1>3. \A j \in 0 .. d - 1 : j \in 0 .. (d + 1) - 1 /\ j \in 0 .. n - 1 /\ j # d BY <1>1
<1>4. d \in 0 .. (d + 1) - 1 /\ d \in 0 .. n - 1 BY <1>1
<1>5. Window(h, d + 1) = Window(h, d) \cup {(h + d) % n} BY <1>2, <1>3, <1>4 DEF Window
<1>6. \A j \in 0 .. d - 1 : (h + d) % n # (h + j) % n BY <1>1, <1>3, <1>4, ApartOnTheRing
<1>7. (h + d) % n \in TxPlaces BY <1>1, OnTheRing DEF TxPlaces
<1> QED BY <1>5, <1>6, <1>7 DEF Window

(* A process that goes from one place of its code to another. *)
LEMMA GoesOn ==
    ASSUME NEW place \in [Procs -> Places], NEW p \in Procs, NEW q \in Places,
           NEW new, new[p] = q, \A o \in Procs : o # p => new[o] = place[o]
    PROVE  /\ WaitForBuffers(new) = (WaitForBuffers(place) \ {p})
                  \cup (IF q.at = "wait" /\ q.tail # -1 THEN {p} ELSE {})
           /\ HaveBuffers(new) = (HaveBuffers(place) \ {p})
                  \cup (IF q.at = "woken" /\ q.tail # -1 THEN {p} ELSE {})
BY DEF WaitForBuffers, HaveBuffers

(* Some of those who waited are made ready, and the reader may be. *)
LEMMA WakesWriters ==
    ASSUME NEW place \in [Procs -> Places], NEW A, A \subseteq WaitForBuffers(place),
           NEW B, \A p \in B : p \in Procs /\ place[p].tail = -1,
           NEW new, new = Wake(place, A \cup B)
    PROVE  /\ WaitForBuffers(new) = WaitForBuffers(place) \ A
           /\ HaveBuffers(new) = HaveBuffers(place) \cup A
<1>1. \A p \in Procs : /\ [place[p] EXCEPT !.at = "woken"].at = "woken"
                       /\ [place[p] EXCEPT !.at = "woken"].tail = place[p].tail
  <2>1. \A p \in Procs : place[p] \in [at : Points, tail : Int] BY DEF Places
  <2> QED BY <2>1
<1>2. \A p \in Procs : new[p] = IF p \in A \cup B THEN [place[p] EXCEPT !.at = "woken"]
                                ELSE place[p]
  BY DEF Wake
<1>3. \A p \in A : p \in Procs /\ place[p].at = "wait" /\ place[p].tail # -1
  BY DEF WaitForBuffers
<1>4. ASSUME NEW p \in Procs
      PROVE  /\ p \in A => new[p].at = "woken" /\ new[p].tail # -1
             /\ p \in B => new[p].tail = -1 /\ place[p].tail = -1
             /\ p \notin A \cup B => new[p] = place[p]
  BY ZenonT(30), <1>1, <1>2, <1>3
<1>5. ASSUME NEW p \in Procs
      PROVE  new[p].at = "wait" /\ new[p].tail # -1
             <=> place[p].at = "wait" /\ place[p].tail # -1 /\ p \notin A
  <2>1. CASE p \in A BY <1>4, <2>1
  <2>2. CASE p \notin A /\ p \in B BY <1>4, <2>2
  <2>3. CASE p \notin A /\ p \notin B BY <1>4, <2>3
  <2> QED BY <2>1, <2>2, <2>3
<1>6. ASSUME NEW p \in Procs
      PROVE  new[p].at = "woken" /\ new[p].tail # -1
             <=> (place[p].at = "woken" /\ place[p].tail # -1) \/ p \in A
  <2>1. CASE p \in A BY <1>4, <2>1
  <2>2. CASE p \notin A /\ p \in B BY <1>4, <2>2
  <2>3. CASE p \notin A /\ p \notin B BY <1>4, <2>3
  <2> QED BY <2>1, <2>2, <2>3
<1>7. HaveBuffers(new) = HaveBuffers(place) \cup A
  BY <1>3, <1>6 DEF HaveBuffers
<1> QED BY <1>5, <1>7 DEF WaitForBuffers

LEMMA OutputInit == EthInit => OutputInv
<1> SUFFICES ASSUME EthInit PROVE OutputInv OBVIOUS
<1>1. /\ txRing = [i \in TxPlaces |-> FALSE] /\ txBufs = [i \in TxPlaces |-> FALSE]
      /\ txHead = 0 /\ txTail = 0 /\ raced = FALSE
      /\ outPool = SemWith(ETH_TX_RING_ENTRIES) /\ pc = [p \in Procs |-> Idle]
  BY DEF EthInit
<1>2. ETH_TX_RING_ENTRIES \in Nat BY EthAssumption
<1>3. WaitForBuffers(pc) = {} /\ HaveBuffers(pc) = {}
  BY <1>1 DEF WaitForBuffers, HaveBuffers, Idle
<1>4. Holds(outPool, {}) /\ Tokens(outPool) = ETH_TX_RING_ENTRIES BY <1>1, <1>2, SemHolds
<1>5. IsFiniteSet(HaveBuffers(pc)) /\ Cardinality(HaveBuffers(pc)) = 0
  BY <1>3, FS_EmptySet
<1>6. Window(txHead, txTail - txHead) = {} BY <1>1 DEF Window
<1>7. OutputTypes BY <1>1, <1>3, <1>4, <1>5 DEF OutputTypes
<1>8. InWindow BY <1>1, <1>2, <1>4, <1>5, <1>6 DEF InWindow
<1> QED BY <1>7, <1>8 DEF OutputInv

(* What does not touch the output ring but, at most, to send from it. *)
LEMMA OutputStays ==
    ASSUME OutputInv, UNCHANGED <<txBufs, txHead, txTail, outPool, raced>>,
           txRing' \in [TxPlaces -> BOOLEAN], \A i \in TxPlaces : txRing'[i] => txRing[i],
           WaitForBuffers(pc') = WaitForBuffers(pc), HaveBuffers(pc') = HaveBuffers(pc)
    PROVE  OutputInv'
<1>1. OutputTypes' BY DEF OutputInv, OutputTypes
<1>2. ASSUME ~raced' PROVE InWindow'
  <2>1. InWindow BY <1>2 DEF OutputInv
  <2>2. Window(txHead, txTail - txHead)' = Window(txHead, txTail - txHead) BY DEF Window
  <2>3. Cardinality(HaveBuffers(pc))' = Cardinality(HaveBuffers(pc)) OBVIOUS
  <2>4. Tokens(outPool)' = Tokens(outPool) BY DEF Tokens
  <2> QED BY <2>1, <2>2, <2>3, <2>4 DEF InWindow
<1> QED BY <1>1, <1>2 DEF OutputInv

LEMMA FrameSentOutput ==
    ASSUME OutputInv, FrameSent
    PROVE  OutputInv'
<1>1. /\ txRing' = [txRing EXCEPT ![txDMA] = FALSE]
      /\ UNCHANGED <<txBufs, txHead, txTail, outPool, raced, pc>>
  BY DEF FrameSent, auxVars
<1>2. txRing \in [TxPlaces -> BOOLEAN] BY DEF OutputInv, OutputTypes
<1>3. txRing' \in [TxPlaces -> BOOLEAN] /\ \A i \in TxPlaces : txRing'[i] => txRing[i]
  BY <1>1, <1>2
<1> QED BY <1>1, <1>3, OutputStays

(* txPackets() finds a number of places that were sent. *)
LEMMA FinishedWindow ==
    ASSUME EthInv
    PROVE  /\ Finished \in 0 .. txTail - txHead
           /\ FinishedPlaces = Window(txHead, Finished)
           /\ \A i \in Window(txHead, Finished) : ~txRing[i]
<1> DEFINE S == {k \in 0 .. txTail - txHead :
                    \A j \in 0 .. k - 1 : ~txRing[(txHead + j) % ETH_TX_RING_ENTRIES]}
<1>1. txHead \in Nat /\ txTail \in Nat /\ txHead <= txTail BY DEF EthInv, EthTypes
<1>2. 0 \in S BY <1>1
<1>3. txTail - txHead \in Nat /\ S \subseteq 0 .. txTail - txHead BY <1>1
<1>4. Finished = Max(S) BY DEF Finished
<1>5. Max(S) \in S
  <2> HIDE DEF S
  <2> QED BY <1>2, <1>3, MaxIsIn
<1>6. Finished \in 0 .. txTail - txHead
      /\ \A j \in 0 .. Finished - 1 : ~txRing[(txHead + j) % ETH_TX_RING_ENTRIES]
  BY <1>4, <1>5
<1> QED BY <1>6 DEF FinishedPlaces, Window

LEMMA InterruptOutput ==
    ASSUME EthInv, OutputInv, EthInterrupt
    PROVE  OutputInv'
<1> DEFINE n == ETH_TX_RING_ENTRIES
<1>1. /\ txHead \in Nat /\ txTail \in Nat /\ txHead <= txTail /\ pc \in [Procs -> Places]
      /\ n \in Nat \ {0}
  BY EthAssumption DEF EthInv, EthTypes
<1>2. /\ txRing \in [TxPlaces -> BOOLEAN] /\ txBufs \in [TxPlaces -> BOOLEAN]
      /\ raced \in BOOLEAN /\ Holds(outPool, WaitForBuffers(pc))
      /\ IsFiniteSet(HaveBuffers(pc))
  BY DEF OutputInv, OutputTypes
<1>3. UNCHANGED <<txRing, txTail, raced>> BY DEF EthInterrupt
<1>4. PICK A, B :
        /\ A = (IF txSent > 0 THEN Released(outPool, FreedBuffers) ELSE {})
        /\ B = (IF rxCount > 0 /\ rxRing[rxHead] # Empty /\ icount < ETH_IBUFSIZ
                THEN Released(isema, 1) ELSE {})
  OBVIOUS
<1>5. pc' = Wake(pc, A \cup B) BY <1>4 DEF EthInterrupt
<1>6. \A p \in B : p \in Procs /\ pc[p].tail = -1
  <2>1. \/ isema.queue = <<>>
        \/ isema.queue = <<Netin>> /\ ReaderWaits
    BY DEF EthInv, InputCounted
  <2>2. CASE isema.queue = <<>>
    <3>1. Len(isema.queue) = 0 /\ Min({1, Len(isema.queue)}) = 0 BY <2>2, MinOfTwo
    <3>2. Released(isema, 1) = {} BY <3>1 DEF Released
    <3> QED BY <1>4, <3>2
  <2>3. CASE isema.queue = <<Netin>> /\ ReaderWaits
    <3>1. Len(isema.queue) = 1 /\ isema.queue[1] = Netin /\ Min({1, Len(isema.queue)}) = 1
      BY <2>3, MinOfTwo
    <3>2. Released(isema, 1) = {Netin} BY <3>1 DEF Released
    <3>3. Netin \in Procs BY EthAssumption
    <3> QED BY <1>4, <2>3, <3>2, <3>3 DEF ReaderWaits, Reading
  <2> QED BY <2>1, <2>2, <2>3
<1>7. CASE txSent > 0
  <2>1. TxPackets BY <1>7 DEF EthInterrupt
  <2>2. PICK k, F : k = Finished /\ F = FreedBuffers OBVIOUS
  <2>3. /\ k \in 0 .. txTail - txHead /\ FinishedPlaces = Window(txHead, k)
        /\ \A i \in Window(txHead, k) : ~txRing[i]
        /\ F \in Nat
    BY <2>2, FinishedWindow, TxFinished
  <2>4. /\ txHead' = txHead + k
        /\ txBufs' = [i \in TxPlaces |-> txBufs[i] /\ i \notin Window(txHead, k)]
        /\ outPool' = SignalnOn(outPool, F)
        /\ A = Released(outPool, F)
    BY <1>4, <1>7, <2>1, <2>2, <2>3 DEF TxPackets
  <2>5. /\ A \subseteq WaitForBuffers(pc) /\ IsFiniteSet(A) /\ Cardinality(A) \in Nat
        /\ Holds(outPool', WaitForBuffers(pc) \ A)
        /\ Tokens(outPool') + Cardinality(A) = Tokens(outPool) + F
        /\ Tokens(outPool') \in Nat /\ Tokens(outPool) \in Nat
    <3>1. PICK sem, P : sem = outPool /\ P = WaitForBuffers(pc) OBVIOUS
    <3>2. Holds(sem, P) /\ A = Released(sem, F) BY <1>2, <2>4, <3>1
    <3>3. /\ A \subseteq P /\ IsFiniteSet(A) /\ Cardinality(A) \in Nat
          /\ Holds(SignalnOn(sem, F), P \ A)
          /\ Tokens(SignalnOn(sem, F)) + Cardinality(A) = Tokens(sem) + F
          /\ Tokens(SignalnOn(sem, F)) \in Nat /\ Tokens(sem) \in Nat
      BY <2>3, <3>2, SignalnHolds
    <3> QED BY <2>4, <3>1, <3>3
  <2>6. PICK new : new = pc' OBVIOUS
  <2>7. /\ WaitForBuffers(new) = WaitForBuffers(pc) \ A
        /\ HaveBuffers(new) = HaveBuffers(pc) \cup A
        /\ HaveBuffers(pc) \cap A = {}
    <3>1. new = Wake(pc, A \cup B) BY <1>5, <2>6
    <3>2. A \subseteq WaitForBuffers(pc) BY <2>5
    <3>3. PICK old : old = pc OBVIOUS
    <3>4. /\ old \in [Procs -> Places] /\ A \subseteq WaitForBuffers(old)
          /\ \A p \in B : p \in Procs /\ old[p].tail = -1
          /\ new = Wake(old, A \cup B)
      BY <1>1, <1>6, <3>1, <3>2, <3>3
    <3>5. /\ WaitForBuffers(new) = WaitForBuffers(old) \ A
          /\ HaveBuffers(new) = HaveBuffers(old) \cup A
      BY ONLY <3>4, WakesWriters
    <3>6. HaveBuffers(pc) \cap A = {} BY <3>2 DEF WaitForBuffers, HaveBuffers
    <3> QED BY <3>3, <3>5, <3>6
  <2>8. /\ IsFiniteSet(HaveBuffers(new))
        /\ Cardinality(HaveBuffers(new)) = Cardinality(HaveBuffers(pc)) + Cardinality(A)
        /\ Cardinality(HaveBuffers(pc)) \in Nat
    <3>1. PICK S, T : S = HaveBuffers(pc) /\ T = A OBVIOUS
    <3>2. IsFiniteSet(S) /\ IsFiniteSet(T) /\ S \cap T = {} BY <1>2, <2>5, <2>7, <3>1
    <3>3. /\ IsFiniteSet(S \cup T) /\ Cardinality(S) \in Nat
          /\ Cardinality(S \cup T) = Cardinality(S) + Cardinality(T)
      BY ONLY <3>2, CardinalityOfBoth
    <3> QED BY <2>7, <3>1, <3>3
  <2>9. OutputTypes'
    <3>1. txBufs' \in [TxPlaces -> BOOLEAN] BY <1>2, <2>4
    <3>2. raced' \in BOOLEAN /\ txRing' \in [TxPlaces -> BOOLEAN] BY <1>2, <1>3
    <3>3. Holds(outPool', WaitForBuffers(pc')) /\ IsFiniteSet(HaveBuffers(pc'))
      BY <2>5, <2>6, <2>7, <2>8
    <3> QED BY <3>1, <3>2, <3>3 DEF OutputTypes
  <2>10. ASSUME ~raced' PROVE InWindow'
    <3>1. PICK d : d = txTail - txHead OBVIOUS
    <3>2. /\ \A i \in TxPlaces : txBufs[i] <=> i \in Window(txHead, d)
          /\ \A i \in TxPlaces : txRing[i] => txBufs[i]
          /\ Tokens(outPool) + Cardinality(HaveBuffers(pc)) + d = n
      BY <2>10, <1>3, <3>1 DEF OutputInv, InWindow
    <3>3. d \in 0 .. n /\ k \in 0 .. d BY <1>1, <2>3, <2>5, <2>8, <3>1, <3>2
    <3>4. /\ Window(txHead, k) \subseteq Window(txHead, d)
          /\ Window(txHead + k, d - k) = Window(txHead, d) \ Window(txHead, k)
      BY <1>1, <3>3, WindowSplits
    <3>5. txTail' - txHead' = d - k BY <1>1, <1>3, <2>3, <2>4, <3>1, <3>3
    <3>6. \A i \in TxPlaces : txBufs'[i] <=> i \in Window(txHead', txTail' - txHead')
      BY <2>4, <3>2, <3>4, <3>5
    <3>7. \A i \in TxPlaces : txRing'[i] => txBufs'[i]
      BY <1>3, <2>3, <2>4, <3>2
    <3>8. F = k
      <4>1. k \in 0 .. n BY <3>3, <1>1
      <4>2. Window(txHead, k) \subseteq TxPlaces /\ Cardinality(Window(txHead, k)) = k
        BY <1>1, <4>1, WindowCounted
      <4>3. {i \in Window(txHead, k) : txBufs[i]} = Window(txHead, k)
        BY <4>2, <3>2, <3>4
      <4> QED BY <2>2, <2>3, <4>2, <4>3 DEF FreedBuffers
    <3>9. Tokens(outPool') + Cardinality(HaveBuffers(pc')) + (txTail' - txHead') = n
      BY <1>1, <2>5, <2>6, <2>8, <3>2, <3>3, <3>5, <3>8
    <3> QED BY <3>6, <3>7, <3>9 DEF InWindow, Window, Tokens
  <2> QED BY <2>9, <2>10 DEF OutputInv
<1>8. CASE ~(txSent > 0)
  <2>1. UNCHANGED <<txHead, txBufs, outPool>> BY <1>8 DEF EthInterrupt
  <2>2. A = {} BY <1>4, <1>8
  <2>3. PICK new : new = pc' OBVIOUS
  <2>4. /\ WaitForBuffers(new) = WaitForBuffers(pc) \ A
        /\ HaveBuffers(new) = HaveBuffers(pc) \cup A
    <3>1. PICK old : old = pc OBVIOUS
    <3>2. /\ old \in [Procs -> Places] /\ A \subseteq WaitForBuffers(old)
          /\ \A p \in B : p \in Procs /\ old[p].tail = -1
          /\ new = Wake(old, A \cup B)
      BY <1>1, <1>5, <1>6, <2>2, <2>3, <3>1
    <3>3. /\ WaitForBuffers(new) = WaitForBuffers(old) \ A
          /\ HaveBuffers(new) = HaveBuffers(old) \cup A
      BY ONLY <3>2, WakesWriters
    <3> QED BY <3>1, <3>3
  <2>5. WaitForBuffers(pc') = WaitForBuffers(pc) /\ HaveBuffers(pc') = HaveBuffers(pc)
    BY <2>2, <2>3, <2>4
  <2> QED BY <1>2, <1>3, <2>1, <2>5, OutputStays
<1> QED BY <1>7, <1>8

(* ethRead() does not touch the output ring; the reader is no writer.      *)
LEMMA ReadsOutput ==
    ASSUME EthInv, OutputInv, Reads
    PROVE  OutputInv'
<1>1. /\ UNCHANGED <<txRing, txBufs, txHead, txTail, outPool, raced>>
      /\ Netin \in Procs /\ pc \in [Procs -> Places]
  BY EthAssumption
  DEF Reads, Read, ReadWait, ReadWoken, PickUp, txVars, auxVars, EthInv, EthTypes
<1>2. \/ pc' = pc
      \/ \E q \in Places : /\ pc' = [pc EXCEPT ![Netin] = q]
                           /\ q = Idle \/ q.tail = -1
                           /\ pc[Netin] = Idle \/ pc[Netin].tail = -1
  <2>1. Idle \in Places /\ [at |-> "wait", tail |-> -1] \in Places
    BY DEF Idle, Places, Points
  <2>2. CASE Read BY <2>2 DEF Read
  <2>3. CASE ReadWait BY <2>1, <2>3 DEF ReadWait
  <2>4. CASE ReadWoken BY <2>1, <2>4 DEF ReadWoken, Reading
  <2> QED BY <2>2, <2>3, <2>4 DEF Reads
<1>3. WaitForBuffers(pc') = WaitForBuffers(pc) /\ HaveBuffers(pc') = HaveBuffers(pc)
  <2>1. CASE pc' = pc BY <2>1
  <2>2. CASE pc' # pc
    <3>1. PICK q \in Places : /\ pc' = [pc EXCEPT ![Netin] = q]
                              /\ q = Idle \/ q.tail = -1
                              /\ pc[Netin] = Idle \/ pc[Netin].tail = -1
      BY <1>2, <2>2
    <3>2. PICK new : new = pc' OBVIOUS
    <3>3. /\ WaitForBuffers(new) = (WaitForBuffers(pc) \ {Netin})
                  \cup (IF q.at = "wait" /\ q.tail # -1 THEN {Netin} ELSE {})
          /\ HaveBuffers(new) = (HaveBuffers(pc) \ {Netin})
                  \cup (IF q.at = "woken" /\ q.tail # -1 THEN {Netin} ELSE {})
      <4>1. PICK old, p : old = pc /\ p = Netin OBVIOUS
      <4>2. old \in [Procs -> Places] /\ p \in Procs /\ q \in Places
            /\ new[p] = q /\ \A o \in Procs : o # p => new[o] = old[o]
        BY <1>1, <3>1, <3>2, <4>1
      <4>3. /\ WaitForBuffers(new) = (WaitForBuffers(old) \ {p})
                    \cup (IF q.at = "wait" /\ q.tail # -1 THEN {p} ELSE {})
            /\ HaveBuffers(new) = (HaveBuffers(old) \ {p})
                    \cup (IF q.at = "woken" /\ q.tail # -1 THEN {p} ELSE {})
        BY ONLY <4>2, GoesOn
      <4> QED BY <4>1, <4>3
    <3>4. Idle.at = "user" BY DEF Idle
    <3>5. Netin \notin WaitForBuffers(pc) /\ Netin \notin HaveBuffers(pc)
      BY <3>1, <3>4 DEF WaitForBuffers, HaveBuffers
    <3> QED BY <3>1, <3>2, <3>3, <3>4, <3>5
  <2> QED BY <2>1, <2>2
<1>4. txRing' \in [TxPlaces -> BOOLEAN] /\ \A i \in TxPlaces : txRing'[i] => txRing[i]
  BY <1>1 DEF OutputInv, OutputTypes
<1> QED BY <1>1, <1>3, <1>4, OutputStays

(* ethWrite() with a buffer in its hands: the place it fills is the next   *)
(* one after the window, unless others moved on meanwhile.                 *)
LEMMA FillOutput ==
    ASSUME EthInv, OutputInv, NEW p \in Procs, NEW tail \in Int, NEW sem,
           Fill(p, tail, sem), txHead' = txHead,
           p \notin WaitForBuffers(pc), Holds(sem, WaitForBuffers(pc)),
           Tokens(sem) + Cardinality(HaveBuffers(pc) \ {p}) + 1
               = Tokens(outPool) + Cardinality(HaveBuffers(pc))
    PROVE  OutputInv'
<1> DEFINE n == ETH_TX_RING_ENTRIES
           q == [at |-> "filled", tail |-> tail]
<1>1. /\ txHead \in Nat /\ txTail \in Nat /\ txHead <= txTail /\ pc \in [Procs -> Places]
      /\ n \in Nat \ {0}
  BY EthAssumption DEF EthInv, EthTypes
<1>2. /\ txRing \in [TxPlaces -> BOOLEAN] /\ txBufs \in [TxPlaces -> BOOLEAN]
      /\ raced \in BOOLEAN /\ IsFiniteSet(HaveBuffers(pc))
  BY DEF OutputInv, OutputTypes
<1>3. /\ outPool' = sem /\ txTail' = txTail + 1
      /\ txBufs' = [txBufs EXCEPT ![tail] = TRUE]
      /\ txRing' = [txRing EXCEPT ![tail] = TRUE]
      /\ raced' = (raced \/ tail # txTail % n)
      /\ pc' = [pc EXCEPT ![p] = q]
  BY DEF Fill
<1>4. WaitForBuffers(pc') = WaitForBuffers(pc) /\ HaveBuffers(pc') = HaveBuffers(pc) \ {p}
  <2>1. PICK old, new : old = pc /\ new = pc' OBVIOUS
  <2>2. q \in Places /\ q.at = "filled" BY DEF Places, Points
  <2> HIDE DEF q
  <2>3. /\ old \in [Procs -> Places]
        /\ new[p] = q /\ \A o \in Procs : o # p => new[o] = old[o]
    BY <1>1, <1>3, <2>1
  <2>4. /\ WaitForBuffers(new) = (WaitForBuffers(old) \ {p})
                \cup (IF q.at = "wait" /\ q.tail # -1 THEN {p} ELSE {})
        /\ HaveBuffers(new) = (HaveBuffers(old) \ {p})
                \cup (IF q.at = "woken" /\ q.tail # -1 THEN {p} ELSE {})
    BY ONLY <2>2, <2>3, GoesOn
  <2> QED BY <2>1, <2>2, <2>4
<1>5. /\ IsFiniteSet(HaveBuffers(pc')) /\ Cardinality(HaveBuffers(pc')) \in Nat
      /\ Tokens(sem) \in Nat
  <2>1. IsFiniteSet(HaveBuffers(pc) \ {p}) BY <1>2, FS_Subset
  <2>2. Tokens(sem) \in Nat BY DEF Tokens, Holds
  <2> QED BY <1>4, <2>1, <2>2, FS_CardinalityType
<1>6. OutputTypes'
  <2>1. txBufs' \in [TxPlaces -> BOOLEAN] BY <1>2, <1>3
  <2>2. txRing' \in [TxPlaces -> BOOLEAN] BY <1>2, <1>3
  <2>3. raced' \in BOOLEAN BY <1>3
  <2>4. Holds(outPool', WaitForBuffers(pc')) BY <1>3, <1>4
  <2> QED BY <1>5, <2>1, <2>2, <2>3, <2>4 DEF OutputTypes
<1>7. ASSUME ~raced' PROVE InWindow'
  <2>1. ~raced /\ tail = txTail % n BY <1>3, <1>7
  <2>2. PICK d, C : d = txTail - txHead /\ C = Cardinality(HaveBuffers(pc)) OBVIOUS
  <2>3. /\ \A i \in TxPlaces : txBufs[i] <=> i \in Window(txHead, d)
        /\ \A i \in TxPlaces : txRing[i] => txBufs[i]
        /\ Tokens(outPool) + C + d = n
    BY <2>1, <2>2 DEF OutputInv, InWindow
  <2>4. Tokens(sem) + Cardinality(HaveBuffers(pc')) + 1 = Tokens(outPool) + C
    BY <1>4, <2>2
  <2>5. Tokens(outPool) \in Nat BY DEF OutputInv, OutputTypes, Tokens, Holds
  <2>6. C \in Nat BY <1>2, <2>2, FS_CardinalityType
  <2>7. d \in Nat /\ d < n BY <1>1, <1>5, <2>2, <2>3, <2>4, <2>5, <2>6
  <2>8. txHead + d = txTail /\ txTail' - txHead' = d + 1 BY <1>1, <1>3, <2>2
  <2>9. /\ Window(txHead, d + 1) = Window(txHead, d) \cup {tail}
        /\ tail \in TxPlaces
    <3>1. PICK h : h = txHead OBVIOUS
    <3>2. h \in Nat /\ h + d = txTail BY <1>1, <2>8, <3>1
    <3>3. /\ Window(h, d + 1) = Window(h, d) \cup {(h + d) % n}
          /\ (h + d) % n \in TxPlaces
      BY <2>7, <3>2, WindowGrows
    <3> QED BY <2>1, <3>1, <3>2, <3>3
  <2>10. ASSUME NEW i \in TxPlaces
         PROVE  /\ txBufs'[i] <=> i \in Window(txHead', txTail' - txHead')
                /\ txRing'[i] => txBufs'[i]
    <3>1. txBufs'[i] = IF i = tail THEN TRUE ELSE txBufs[i] BY <1>2, <1>3
    <3>2. txRing'[i] = IF i = tail THEN TRUE ELSE txRing[i] BY <1>2, <1>3
    <3>3. i \in Window(txHead', txTail' - txHead') <=> i \in Window(txHead, d) \/ i = tail
      BY <2>8, <2>9
    <3> QED BY <2>3, <3>1, <3>2, <3>3
  <2>11. Tokens(outPool') + Cardinality(HaveBuffers(pc')) + (txTail' - txHead') = n
    BY <1>1, <1>3, <1>5, <2>3, <2>4, <2>5, <2>6, <2>7, <2>8
  <2> QED BY <2>10, <2>11 DEF InWindow, Window, Tokens
<1> QED BY <1>6, <1>7 DEF OutputInv

LEMMA WriteOutput ==
    ASSUME EthInv, OutputInv, NEW p \in Procs, Write(p)
    PROVE  OutputInv'
<1>1. /\ pc[p] = Idle /\ outPool.count > 0 /\ txHead' = txHead
      /\ Fill(p, txTail % ETH_TX_RING_ENTRIES, Take(outPool))
  BY DEF Write, MayWrite
<1>2. PICK tail, sem, P :
          tail = txTail % ETH_TX_RING_ENTRIES /\ sem = outPool /\ P = WaitForBuffers(pc)
  OBVIOUS
<1>3. tail \in Int BY <1>2, TailPlace
<1>4. p \notin WaitForBuffers(pc) /\ HaveBuffers(pc) \ {p} = HaveBuffers(pc)
  BY <1>1 DEF Idle, WaitForBuffers, HaveBuffers
<1>5. Holds(sem, P) /\ sem.count > 0 BY <1>1, <1>2 DEF OutputInv, OutputTypes
<1>6. Holds(Take(sem), P) /\ Tokens(Take(sem)) = Tokens(sem) - 1 /\ Tokens(sem) \in Nat
  BY <1>5, TakeHolds
<1>7. Cardinality(HaveBuffers(pc)) \in Nat BY FS_CardinalityType DEF OutputInv, OutputTypes
<1>8. PICK new : new = Take(sem) OBVIOUS
<1>9. /\ Fill(p, tail, new) /\ Holds(new, WaitForBuffers(pc))
      /\ Tokens(new) + Cardinality(HaveBuffers(pc) \ {p}) + 1
             = Tokens(outPool) + Cardinality(HaveBuffers(pc))
  <2>1. Fill(p, tail, new) BY <1>1, <1>2, <1>8
  <2>2. Holds(new, WaitForBuffers(pc)) BY <1>2, <1>6, <1>8
  <2>3. Tokens(new) = Tokens(outPool) - 1 /\ Tokens(outPool) \in Nat BY <1>2, <1>6, <1>8
  <2>4. Cardinality(HaveBuffers(pc) \ {p}) = Cardinality(HaveBuffers(pc)) BY <1>4
  <2> QED BY <1>7, <2>1, <2>2, <2>3, <2>4
<1> QED BY <1>1, <1>3, <1>4, <1>9, FillOutput

LEMMA WriteWokenOutput ==
    ASSUME EthInv, OutputInv, NEW p \in Procs, WriteWoken(p)
    PROVE  OutputInv'
<1>1. /\ pc[p].at = "woken" /\ pc[p].tail # -1 /\ txHead' = txHead
      /\ Fill(p, pc[p].tail, outPool) /\ pc[p].tail \in Int
  BY DEF WriteWoken, Reading, EthInv, EthTypes, Places
<1>2. PICK tail, sem : tail = pc[p].tail /\ sem = outPool OBVIOUS
<1>3. p \notin WaitForBuffers(pc) /\ p \in HaveBuffers(pc)
  BY <1>1 DEF WaitForBuffers, HaveBuffers
<1>4. Holds(sem, WaitForBuffers(pc)) /\ IsFiniteSet(HaveBuffers(pc))
  BY <1>2 DEF OutputInv, OutputTypes
<1>5. PICK S : S = HaveBuffers(pc) OBVIOUS
<1>6. Cardinality(S \ {p}) = Cardinality(S) - 1 /\ Cardinality(S) \in Nat
  BY <1>3, <1>4, <1>5, FS_RemoveElement, FS_CardinalityType
<1>7. Tokens(sem) \in Nat BY <1>4 DEF Tokens, Holds
<1>8. Tokens(sem) + Cardinality(HaveBuffers(pc) \ {p}) + 1
          = Tokens(outPool) + Cardinality(HaveBuffers(pc))
  BY <1>2, <1>5, <1>6, <1>7
<1> QED BY <1>1, <1>2, <1>3, <1>4, <1>8, FillOutput

LEMMA WriteWaitOutput ==
    ASSUME EthInv, OutputInv, NEW p \in Procs, WriteWait(p)
    PROVE  OutputInv'
<1> DEFINE q == [at |-> "wait", tail |-> txTail % ETH_TX_RING_ENTRIES]
<1>1. /\ pc[p] = Idle /\ outPool.count <= 0 /\ outPool' = WaitOn(outPool, p)
      /\ pc' = [pc EXCEPT ![p] = q]
      /\ UNCHANGED <<txRing, txBufs, txHead, txTail, raced>>
  BY DEF WriteWait, MayWrite
<1>2. q \in Places /\ q.at = "wait" /\ q.tail # -1
  BY TailPlace DEF Places, Points
<1> HIDE DEF q
<1>3. p \notin WaitForBuffers(pc) /\ p \notin HaveBuffers(pc)
  BY <1>1 DEF Idle, WaitForBuffers, HaveBuffers
<1>4. WaitForBuffers(pc') = WaitForBuffers(pc) \cup {p} /\ HaveBuffers(pc') = HaveBuffers(pc)
  <2>1. PICK old, new : old = pc /\ new = pc' OBVIOUS
  <2>2. /\ old \in [Procs -> Places]
        /\ new[p] = q /\ \A o \in Procs : o # p => new[o] = old[o]
    BY <1>1, <2>1 DEF EthInv, EthTypes
  <2>3. /\ WaitForBuffers(new) = (WaitForBuffers(old) \ {p})
                \cup (IF q.at = "wait" /\ q.tail # -1 THEN {p} ELSE {})
        /\ HaveBuffers(new) = (HaveBuffers(old) \ {p})
                \cup (IF q.at = "woken" /\ q.tail # -1 THEN {p} ELSE {})
    BY ONLY <1>2, <2>2, GoesOn
  <2> QED BY <1>2, <1>3, <2>1, <2>3
<1>5. PICK sem, P : sem = outPool /\ P = WaitForBuffers(pc) OBVIOUS
<1>6. Holds(sem, P) /\ sem.count <= 0 /\ p \notin P
  BY <1>1, <1>3, <1>5 DEF OutputInv, OutputTypes
<1>7. /\ Holds(WaitOn(sem, p), P \cup {p})
      /\ Tokens(WaitOn(sem, p)) = Tokens(sem)
  BY <1>6, WaitOnHolds
<1>8. Holds(outPool', WaitForBuffers(pc')) /\ Tokens(outPool') = Tokens(outPool)
  BY <1>1, <1>4, <1>5, <1>7
<1>9. OutputTypes' BY <1>1, <1>4, <1>8 DEF OutputInv, OutputTypes
<1>10. ASSUME ~raced' PROVE InWindow'
  <2>1. InWindow BY <1>1, <1>10 DEF OutputInv
  <2>2. Window(txHead, txTail - txHead)' = Window(txHead, txTail - txHead)
    BY <1>1 DEF Window
  <2>3. Cardinality(HaveBuffers(pc))' = Cardinality(HaveBuffers(pc)) BY <1>4
  <2>4. Tokens(outPool)' = Tokens(outPool) BY <1>8 DEF Tokens
  <2> QED BY <1>1, <2>1, <2>2, <2>3, <2>4 DEF InWindow
<1> QED BY <1>9, <1>10 DEF OutputInv

LEMMA StartOutput ==
    ASSUME EthInv, Filled, OutputInv, NEW p \in Procs, Start(p)
    PROVE  OutputInv'
<1>1. /\ pc' = [pc EXCEPT ![p] = Idle]
      /\ UNCHANGED <<txRing, txBufs, txHead, txTail, outPool, raced>>
  BY DEF Start, txVars, auxVars
<1>2. pc[p].at = "filled" BY DEF Start, Filled
<1>3. p \notin WaitForBuffers(pc) /\ p \notin HaveBuffers(pc)
  BY <1>2 DEF WaitForBuffers, HaveBuffers
<1>4. WaitForBuffers(pc') = WaitForBuffers(pc) /\ HaveBuffers(pc') = HaveBuffers(pc)
  <2>1. PICK old, new, q : old = pc /\ new = pc' /\ q = Idle OBVIOUS
  <2>2. /\ old \in [Procs -> Places] /\ q \in Places
        /\ new[p] = q /\ \A o \in Procs : o # p => new[o] = old[o]
    BY <1>1, <2>1 DEF EthInv, EthTypes, Idle, Places, Points
  <2>3. /\ WaitForBuffers(new) = (WaitForBuffers(old) \ {p})
                \cup (IF q.at = "wait" /\ q.tail # -1 THEN {p} ELSE {})
        /\ HaveBuffers(new) = (HaveBuffers(old) \ {p})
                \cup (IF q.at = "woken" /\ q.tail # -1 THEN {p} ELSE {})
    BY ONLY <2>2, GoesOn
  <2>4. q.at = "user" BY <2>1 DEF Idle
  <2> QED BY <1>3, <2>1, <2>3, <2>4
<1>5. txRing' \in [TxPlaces -> BOOLEAN] /\ \A i \in TxPlaces : txRing'[i] => txRing[i]
  BY <1>1 DEF OutputInv, OutputTypes
<1> QED BY <1>1, <1>4, <1>5, OutputStays

LEMMA OutputStep ==
    ASSUME EthInv, Filled, OutputInv, [EthNext]_vars
    PROVE  OutputInv'
<1>1. CASE FrameArrives
  <2>1. UNCHANGED <<txRing, txBufs, txHead, txTail, outPool, raced, pc>>
    BY <1>1 DEF FrameArrives, txVars
  <2>2. txRing' \in [TxPlaces -> BOOLEAN] /\ \A i \in TxPlaces : txRing'[i] => txRing[i]
    BY <2>1 DEF OutputInv, OutputTypes
  <2> QED BY <2>1, <2>2, OutputStays
<1>2. CASE FrameSent BY <1>2, FrameSentOutput
<1>3. CASE EthInterrupt BY <1>3, InterruptOutput
<1>4. CASE Reads BY <1>4, ReadsOutput
<1>5. ASSUME NEW p \in Procs, Write(p) \/ WriteWait(p) \/ WriteWoken(p) \/ Start(p)
      PROVE  OutputInv'
  BY <1>5, WriteOutput, WriteWaitOutput, WriteWokenOutput, StartOutput
<1>6. CASE UNCHANGED vars
  <2>1. UNCHANGED <<txRing, txBufs, txHead, txTail, outPool, raced, pc>>
    BY <1>6 DEF vars, txVars, auxVars
  <2>2. txRing' \in [TxPlaces -> BOOLEAN] /\ \A i \in TxPlaces : txRing'[i] => txRing[i]
    BY <2>1 DEF OutputInv, OutputTypes
  <2> QED BY <2>1, <2>2, OutputStays
<1>7. CASE HandlerEnds
  <2>1. UNCHANGED <<txRing, txBufs, txHead, txTail, outPool, raced, pc>>
    BY <1>7 DEF HandlerEnds, txVars, auxVars
  <2>2. txRing' \in [TxPlaces -> BOOLEAN] /\ \A i \in TxPlaces : txRing'[i] => txRing[i]
    BY <2>1 DEF OutputInv, OutputTypes
  <2> QED BY <2>1, <2>2, OutputStays
<1> QED BY <1>1, <1>2, <1>3, <1>4, <1>5, <1>6, <1>7 DEF EthNext, Controller

(* The window is what the property counts. *)
LEMMA OutputIsCounted ==
    ASSUME EthInv, OutputInv
    PROVE  OutputAccounted
<1> SUFFICES ASSUME ~raced
             PROVE  /\ \A i \in TxPlaces : txRing[i] => txBufs[i]
                    /\ Tokens(outPool) + Cardinality({p \in Procs : pc[p].at = "woken" /\ ~Reading(p)})
                           + Cardinality({i \in TxPlaces : txBufs[i]}) = ETH_TX_RING_ENTRIES
  BY DEF OutputAccounted
<1>1. /\ \A i \in TxPlaces : txBufs[i] <=> i \in Window(txHead, txTail - txHead)
      /\ \A i \in TxPlaces : txRing[i] => txBufs[i]
      /\ Tokens(outPool) + Cardinality(HaveBuffers(pc)) + (txTail - txHead) = ETH_TX_RING_ENTRIES
  BY DEF OutputInv, InWindow
<1>2. PICK h, d : h = txHead /\ d = txTail - txHead OBVIOUS
<1>3. /\ Tokens(outPool) \in Nat /\ Cardinality(HaveBuffers(pc)) \in Nat
  <2>1. Tokens(outPool) \in Nat BY DEF OutputInv, OutputTypes, Tokens, Holds
  <2>2. IsFiniteSet(HaveBuffers(pc)) BY DEF OutputInv, OutputTypes
  <2> QED BY <2>1, <2>2, FS_CardinalityType
<1>4. ETH_TX_RING_ENTRIES \in Nat BY EthAssumption
<1>5. h \in Nat /\ d \in 0 .. ETH_TX_RING_ENTRIES
  BY <1>1, <1>2, <1>3, <1>4 DEF EthInv, EthTypes
<1>6. Window(h, d) \subseteq TxPlaces /\ Cardinality(Window(h, d)) = d
  BY <1>5, WindowCounted
<1>7. {i \in TxPlaces : txBufs[i]} = Window(h, d) BY <1>1, <1>2, <1>6
<1>8. {p \in Procs : pc[p].at = "woken" /\ ~Reading(p)} = HaveBuffers(pc)
  BY DEF HaveBuffers, Reading
<1> QED BY <1>1, <1>2, <1>6, <1>7, <1>8

(* The output ring: for a ring of any size and any number of writers, the  *)
(* controller never sends from a place without a buffer, and every buffer  *)
(* is free, given to somebody who waited for one, or in the ring, as long  *)
(* as no writer that waited in getbuf() filled a place that others had     *)
(* moved on from.                                                          *)
THEOREM OutputIsAccounted == EthSpec => []OutputAccounted
<1>1. EthInv /\ OutputInv => OutputAccounted BY OutputIsCounted
<1>2. EthInv /\ Filled /\ OutputInv /\ [EthNext]_vars => OutputInv' BY OutputStep
<1> QED BY <1>1, <1>2, EthInitInv, InitFilled, EthStep, OutputInit, PTL DEF EthSpec
=============================================================================
