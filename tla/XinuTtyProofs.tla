--------------------------- MODULE XinuTtyProofs ----------------------------
(***************************************************************************)
(* The console driver, for rings of any size, any number of processes and  *)
(* any keys: the two semaphores hand out exactly the characters that may   *)
(* be read and the places that are free, and characters come out in the    *)
(* order in which they went in.                                            *)
(*                                                                         *)
(* The pointers of the rings are the lengths of the histories, modulo the  *)
(* size of the ring.  A reader finds its character because its token       *)
(* counts one, and a writer its place because no other is promised to it.  *)
(***************************************************************************)
EXTENDS XinuTty, XinuQueueProofs

Ops == {"none", "get", "put", "nextc"}
Points == {"user", "driver", "wait", "woken"}
Places == [op : Ops, at : Points, left : Int, line : {"no", "first", "rest"}]

Getting == {"get", "nextc"}
Putting == {"put"}

WaitFor(place, ops) == {p \in Procs : place[p].op \in ops /\ place[p].at = "wait"}
WokenFor(place, ops) == {p \in Procs : place[p].op \in ops /\ place[p].at = "woken"}

(* ops wait for sem, and those made ready are so many. *)
Serves(sem, ops) ==
    /\ Holds(sem, WaitFor(pc, ops))
    /\ IsFiniteSet(WokenFor(pc, ops))

InTypes ==
    /\ ibuf \in [0 .. TY_IBUFLEN - 1 -> Nat] /\ ihead \in Int /\ itail \in Int
    /\ icursor \in Nat /\ uncounted \in Nat
    /\ stored \in Seq(AllKeys) /\ input \in Seq(Nat) /\ got \in Seq(Nat)
    /\ overrun \in BOOLEAN

OutTypes ==
    /\ obuf \in [0 .. TY_OBUFLEN - 1 -> Nat]
    /\ ohead \in 0 .. TY_OBUFLEN - 1 /\ otail \in 0 .. TY_OBUFLEN - 1
    /\ osem.count <= TY_OBUFLEN
    /\ written \in Nat /\ sent \in Seq(Nat) /\ outrun \in BOOLEAN

InputCounted ==
    Len(got) + Tokens(isem) + Cardinality(WokenFor(pc, Getting))
        = Len(input) - icursor - uncounted

OutputCounted ==
    written - Len(sent) + Tokens(osem) + Cardinality(WokenFor(pc, Putting)) = TY_OBUFLEN

(* What was taken is the beginning of what was stored, and the rest of it  *)
(* is in the ring.                                                         *)
InputRing ==
    /\ \A i \in 1 .. Len(got) : got[i] = input[i]
    /\ Len(input) - Len(got) <= TY_IBUFLEN
    /\ InBuffer =>
           /\ ihead = Len(got) % TY_IBUFLEN /\ itail = Len(input) % TY_IBUFLEN
           /\ \A i \in Len(got) + 1 .. Len(input) : ibuf[(i - 1) % TY_IBUFLEN] = input[i]

(* What was sent is the beginning of what was written, and the rest of it  *)
(* is in the ring; a character is its number.                              *)
OutputRing ==
    /\ Len(sent) <= written /\ \A i \in 1 .. Len(sent) : sent[i] = i
    /\ ohead = Len(sent) % TY_OBUFLEN /\ otail = written % TY_OBUFLEN
    /\ \A i \in Len(sent) + 1 .. written : obuf[(i - 1) % TY_OBUFLEN] = i

InSide == InTypes /\ Serves(isem, Getting) /\ InputCounted /\ (~overrun => InputRing)
OutSide == OutTypes /\ Serves(osem, Putting) /\ OutputCounted /\ (~outrun => OutputRing)

(* A process that runs in the driver found the pointers in the buffer.     *)
Driver ==
    /\ pc \in [Procs -> Places]
    /\ echoes \in Nat
    /\ kernel # NoProc => InBuffer

TtyInv == Driver /\ InSide /\ OutSide

(* A process that goes from one place of its code to another. *)
LEMMA PlaceMoves ==
    ASSUME NEW place \in [Procs -> Places], NEW p \in Procs, NEW q \in Places,
           NEW new, new[p] = q, \A o \in Procs : o # p => new[o] = place[o], NEW ops
    PROVE  /\ WaitFor(new, ops) = (WaitFor(place, ops) \ {p})
                  \cup (IF q.op \in ops /\ q.at = "wait" THEN {p} ELSE {})
           /\ WokenFor(new, ops) = (WokenFor(place, ops) \ {p})
                  \cup (IF q.op \in ops /\ q.at = "woken" THEN {p} ELSE {})
BY DEF WaitFor, WokenFor

(* Some of those who wait for one thing are made ready, and nobody else. *)
LEMMA PlaceWakes ==
    ASSUME NEW place \in [Procs -> Places], NEW ops, NEW A, A \subseteq WaitFor(place, ops)
    PROVE  /\ Wake(place, A) \in [Procs -> Places]
           /\ WaitFor(Wake(place, A), ops) = WaitFor(place, ops) \ A
           /\ WokenFor(Wake(place, A), ops) = WokenFor(place, ops) \cup A
<1> DEFINE new == Wake(place, A)
<1>1. \A p \in Procs : /\ [place[p] EXCEPT !.at = "woken"] \in Places
                       /\ [place[p] EXCEPT !.at = "woken"].at = "woken"
                       /\ [place[p] EXCEPT !.at = "woken"].op = place[p].op
  <2>1. \A p \in Procs : place[p] \in Places OBVIOUS
  <2> QED BY <2>1 DEF Places, Points
<1>2. new = [p \in Procs |-> IF p \in A THEN [place[p] EXCEPT !.at = "woken"] ELSE place[p]]
  BY DEF Wake
<1>3. new \in [Procs -> Places] BY <1>1, <1>2
<1>4. \A p \in A : p \in Procs /\ place[p].op \in ops /\ place[p].at = "wait"
  BY DEF WaitFor
<1>5. ASSUME NEW p \in Procs
      PROVE  /\ p \in A => new[p].op = place[p].op /\ new[p].at = "woken"
             /\ p \notin A => new[p] = place[p]
  BY <1>1, <1>2
<1> HIDE DEF new
<1>6. WaitFor(new, ops) = WaitFor(place, ops) \ A BY <1>4, <1>5 DEF WaitFor
<1>7. WokenFor(new, ops) = WokenFor(place, ops) \cup A BY <1>4, <1>5 DEF WokenFor
<1> QED BY <1>3, <1>6, <1>7 DEF new

LEMMA OthersSleep ==
    ASSUME NEW place \in [Procs -> Places], NEW ops, NEW A, A \subseteq WaitFor(place, ops),
           NEW others, others \cap ops = {}
    PROVE  /\ WaitFor(Wake(place, A), others) = WaitFor(place, others)
           /\ WokenFor(Wake(place, A), others) = WokenFor(place, others)
<1>1. \A p \in Procs : [place[p] EXCEPT !.at = "woken"].op = place[p].op
  <2>1. \A p \in Procs : place[p] \in [op : Ops, at : Points, left : Int, line : {"no", "first", "rest"}]
    BY DEF Places
  <2> QED BY <2>1
<1>2. PICK new : new = Wake(place, A) OBVIOUS
<1>3. new = [p \in Procs |-> IF p \in A THEN [place[p] EXCEPT !.at = "woken"] ELSE place[p]]
  BY <1>2 DEF Wake
<1>4. \A p \in A : p \in Procs /\ place[p].op \notin others BY DEF WaitFor
<1>5. ASSUME NEW p \in Procs
      PROVE  /\ p \in A => new[p].op = place[p].op
             /\ p \notin A => new[p] = place[p]
  BY <1>1, <1>3
<1>6. WaitFor(new, others) = WaitFor(place, others)
      /\ WokenFor(new, others) = WokenFor(place, others)
  BY <1>4, <1>5 DEF WaitFor, WokenFor
<1> QED BY <1>2, <1>6

(* Signalling a semaphore hands out n tokens. *)
LEMMA SignalServes ==
    ASSUME NEW place \in [Procs -> Places], NEW sem, NEW ops, NEW n \in Nat,
           Holds(sem, WaitFor(place, ops)), IsFiniteSet(WokenFor(place, ops)),
           NEW new, new = Wake(place, Released(sem, n))
    PROVE  /\ new \in [Procs -> Places]
           /\ Holds(SignalnOn(sem, n), WaitFor(new, ops)) /\ IsFiniteSet(WokenFor(new, ops))
           /\ Tokens(SignalnOn(sem, n)) + Cardinality(WokenFor(new, ops))
                  = Tokens(sem) + Cardinality(WokenFor(place, ops)) + n
           /\ Released(sem, n) \subseteq WaitFor(place, ops)
<1> DEFINE P == WaitFor(place, ops)
           W == WokenFor(place, ops)
<1>1. PICK R : R = Released(sem, n) OBVIOUS
<1>2. /\ R \subseteq P /\ IsFiniteSet(R) /\ Cardinality(R) \in Nat
      /\ Holds(SignalnOn(sem, n), P \ R)
      /\ Tokens(SignalnOn(sem, n)) + Cardinality(R) = Tokens(sem) + n
      /\ Tokens(SignalnOn(sem, n)) \in Nat /\ Tokens(sem) \in Nat
  BY SMTT(30), <1>1, SignalnHolds
<1>3. /\ new \in [Procs -> Places] /\ WaitFor(new, ops) = P \ R /\ WokenFor(new, ops) = W \cup R
  <2>1. place \in [Procs -> Places] /\ R \subseteq WaitFor(place, ops) BY <1>2
  <2>2. /\ Wake(place, R) \in [Procs -> Places]
        /\ WaitFor(Wake(place, R), ops) = WaitFor(place, ops) \ R
        /\ WokenFor(Wake(place, R), ops) = WokenFor(place, ops) \cup R
    BY ONLY <2>1, PlaceWakes
  <2>3. new = Wake(place, R) BY <1>1
  <2> QED BY <2>2, <2>3
<1>4. W \cap R = {} BY <1>2 DEF WaitFor, WokenFor
<1> HIDE DEF P, W
<1>5. IsFiniteSet(W \cup R) /\ Cardinality(W \cup R) = Cardinality(W) + Cardinality(R)
      /\ Cardinality(W) \in Nat
  BY <1>2, <1>4, CardinalityOfBoth DEF W
<1>6. Tokens(SignalnOn(sem, n)) + Cardinality(W \cup R) = Tokens(sem) + Cardinality(W) + n
  BY <1>2, <1>5
<1> QED BY <1>1, <1>2, <1>3, <1>5, <1>6 DEF P, W

(* When the interrupt half does not touch the output, or the input.        *)
LEMMA OutSideStays ==
    ASSUME OutSide, UNCHANGED <<obuf, ohead, otail, osem, written, sent, outrun>>,
           WaitFor(pc', Putting) = WaitFor(pc, Putting),
           WokenFor(pc', Putting) = WokenFor(pc, Putting)
    PROVE  OutSide'
<1>1. OutTypes' BY DEF OutSide, OutTypes
<1>2. Serves(osem, Putting)' BY DEF OutSide, Serves
<1>3. OutputCounted' BY DEF OutSide, OutputCounted, Tokens
<1>4. ~outrun' => OutputRing' BY DEF OutSide, OutputRing
<1> QED BY <1>1, <1>2, <1>3, <1>4 DEF OutSide

LEMMA InSideStays ==
    ASSUME InSide,
           UNCHANGED <<ibuf, ihead, itail, icursor, isem, stored, input, got, overrun, uncounted>>,
           WaitFor(pc', Getting) = WaitFor(pc, Getting),
           WokenFor(pc', Getting) = WokenFor(pc, Getting)
    PROVE  InSide'
<1>1. InTypes' BY DEF InSide, InTypes
<1>2. Serves(isem, Getting)' BY DEF InSide, Serves
<1>3. InputCounted' BY DEF InSide, InputCounted, Tokens
<1>4. ~overrun' => InputRing' BY DEF InSide, InputRing, InBuffer
<1> QED BY <1>1, <1>2, <1>3, <1>4 DEF InSide

(* The histories' lengths, and what the counts say of them.                *)
LEMMA InLengths ==
    ASSUME InSide
    PROVE  /\ Len(input) \in Nat /\ Len(got) \in Nat /\ Len(stored) \in Nat
           /\ Tokens(isem) \in Nat /\ Cardinality(WokenFor(pc, Getting)) \in Nat
           /\ icursor \in Nat /\ uncounted \in Nat
           /\ Len(got) + icursor <= Len(input)
           /\ isem.count > 0 \/ WokenFor(pc, Getting) # {} => Len(got) < Len(input)
<1>1. /\ Len(input) \in Nat /\ Len(got) \in Nat /\ Len(stored) \in Nat
      /\ icursor \in Nat /\ uncounted \in Nat
  BY LenProperties DEF InSide, InTypes
<1>2. Tokens(isem) \in Nat /\ (isem.count > 0 => Tokens(isem) > 0)
  BY DEF InSide, Serves, Holds, Tokens
<1>3. Cardinality(WokenFor(pc, Getting)) \in Nat /\ IsFiniteSet(WokenFor(pc, Getting))
  BY FS_CardinalityType DEF InSide, Serves
<1>4. WokenFor(pc, Getting) # {} => Cardinality(WokenFor(pc, Getting)) # 0
  BY <1>3, FS_EmptySet
<1>5. Len(got) + Tokens(isem) + Cardinality(WokenFor(pc, Getting))
          = Len(input) - icursor - uncounted
  BY DEF InSide, InputCounted
<1> QED BY <1>1, <1>2, <1>3, <1>4, <1>5

LEMMA OutLengths ==
    ASSUME OutSide
    PROVE  /\ Len(sent) \in Nat /\ written \in Nat
           /\ Tokens(osem) \in Nat /\ Cardinality(WokenFor(pc, Putting)) \in Nat
           /\ osem.count > 0 \/ WokenFor(pc, Putting) # {} => written - Len(sent) < TY_OBUFLEN
<1>1. Len(sent) \in Nat /\ written \in Nat /\ TY_OBUFLEN \in Nat
  BY LenProperties, TtyAssumption DEF OutSide, OutTypes
<1>2. Tokens(osem) \in Nat /\ (osem.count > 0 => Tokens(osem) > 0)
  BY DEF OutSide, Serves, Holds, Tokens
<1>3. Cardinality(WokenFor(pc, Putting)) \in Nat /\ IsFiniteSet(WokenFor(pc, Putting))
  BY FS_CardinalityType DEF OutSide, Serves
<1>4. WokenFor(pc, Putting) # {} => Cardinality(WokenFor(pc, Putting)) # 0
  BY <1>3, FS_EmptySet
<1>5. written - Len(sent) + Tokens(osem) + Cardinality(WokenFor(pc, Putting)) = TY_OBUFLEN
  BY DEF OutSide, OutputCounted
<1> QED BY <1>1, <1>2, <1>3, <1>4, <1>5

LEMMA TtyInitInv == TtyInit => TtyInv
<1> SUFFICES ASSUME TtyInit PROVE TtyInv OBVIOUS
<1> DEFINE I == TY_IBUFLEN
           O == TY_OBUFLEN
<1>1. /\ I \in Nat \ {0} /\ O \in Nat \ {0} BY TtyAssumption
<1>2. /\ ibuf = [i \in 0 .. I - 1 |-> 0] /\ ihead = 0 /\ itail = 0
      /\ obuf = [i \in 0 .. O - 1 |-> 0] /\ ohead = 0 /\ otail = 0
      /\ echoes = 0 /\ isem = SemWith(0) /\ osem = SemWith(O) /\ icursor = 0
      /\ pc = [p \in Procs |-> Idle] /\ kernel = NoProc
      /\ stored = <<>> /\ input = <<>> /\ got = <<>> /\ sent = <<>>
      /\ overrun = FALSE /\ uncounted = 0 /\ written = 0 /\ outrun = FALSE
  BY DEF TtyInit
<1>3. Idle \in Places /\ Idle.at = "user" BY DEF Idle, Places, Ops, Points
<1>4. pc \in [Procs -> Places] BY <1>2, <1>3
<1>5. /\ WaitFor(pc, Getting) = {} /\ WokenFor(pc, Getting) = {}
      /\ WaitFor(pc, Putting) = {} /\ WokenFor(pc, Putting) = {}
  BY <1>2, <1>3 DEF WaitFor, WokenFor
<1>6. IsFiniteSet({}) /\ Cardinality({}) = 0 BY FS_EmptySet
<1>7. /\ Holds(isem, {}) /\ Tokens(isem) = 0
      /\ Holds(osem, {}) /\ Tokens(osem) = O /\ osem.count = O
  BY <1>1, <1>2, SemHolds DEF SemWith
<1>8. Len(<<>>) = 0 /\ <<>> \in Seq(Nat) /\ <<>> \in Seq(AllKeys) BY EmptySeq
<1>9. Driver BY <1>2, <1>4 DEF Driver
<1>10. 0 % I = 0 /\ 0 % O = 0
  <2>1. 0 \in 0 .. I - 1 /\ 0 \in 0 .. I /\ 0 \in 0 .. O - 1 /\ 0 \in 0 .. O BY <1>1
  <2>2. (0 + 0) % I = IF 0 + 0 < I THEN 0 + 0 ELSE 0 + 0 - I BY <1>1, <2>1, Around
  <2>3. (0 + 0) % O = IF 0 + 0 < O THEN 0 + 0 ELSE 0 + 0 - O BY <1>1, <2>1, Around
  <2> QED BY <1>1, <2>2, <2>3
<1>11. InSide
  <2>1. InTypes
    <3>1. ibuf \in [0 .. I - 1 -> Nat] BY <1>2
    <3>2. ihead \in Int /\ itail \in Int /\ icursor \in Nat /\ uncounted \in Nat BY <1>2
    <3>3. stored \in Seq(AllKeys) /\ input \in Seq(Nat) /\ got \in Seq(Nat)
          /\ overrun \in BOOLEAN
      BY <1>2, <1>8
    <3> QED BY <3>1, <3>2, <3>3 DEF InTypes
  <2>2. Serves(isem, Getting) BY <1>5, <1>6, <1>7 DEF Serves
  <2>3. InputCounted
    <3>1. Len(got) = 0 /\ Len(input) = 0 /\ icursor = 0 /\ uncounted = 0 BY <1>2, <1>8
    <3>2. Cardinality(WokenFor(pc, Getting)) = 0 BY <1>5, <1>6
    <3> QED BY <1>7, <3>1, <3>2 DEF InputCounted
  <2>4. InputRing BY <1>1, <1>2, <1>8, <1>10 DEF InputRing
  <2> QED BY <2>1, <2>2, <2>3, <2>4 DEF InSide
<1>12. OutSide
  <2>1. OutTypes
    <3>1. obuf \in [0 .. O - 1 -> Nat] BY <1>2
    <3>2. 0 \in 0 .. O - 1 /\ O <= O BY <1>1
    <3> QED BY <1>2, <1>7, <1>8, <3>1, <3>2 DEF OutTypes
  <2>2. Serves(osem, Putting) BY <1>5, <1>6, <1>7 DEF Serves
  <2>3. OutputCounted BY <1>1, <1>2, <1>5, <1>6, <1>7, <1>8 DEF OutputCounted
  <2>4. OutputRing BY <1>1, <1>2, <1>8, <1>10 DEF OutputRing
  <2> QED BY <2>1, <2>2, <2>3, <2>4 DEF OutSide
<1> QED BY <1>9, <1>11, <1>12 DEF TtyInv
----------------------------------------------------------------------------
(* A character put at the tail of the ring, and n tokens with it.          *)
LEMMA PutInRing ==
    ASSUME InSide, InBuffer, ~overrun => InputRing, NEW key \in AllKeys, NEW tail, NEW n \in Nat,
           PutIn(key, tail, n), tail = itail + 1 \/ tail = Wrap(itail + 1)
    PROVE  /\ ibuf' \in [0 .. TY_IBUFLEN - 1 -> Nat] /\ itail' \in Int
           /\ stored' \in Seq(AllKeys) /\ input' \in Seq(Nat) /\ overrun' \in BOOLEAN
           /\ Len(input') = Len(input) + 1
           /\ ~overrun' => InputRing'
<1> DEFINE I == TY_IBUFLEN
<1>1. /\ I \in Nat \ {0} /\ ibuf \in [0 .. I - 1 -> Nat]
      /\ ihead \in 0 .. I - 1 /\ itail \in 0 .. I - 1
      /\ stored \in Seq(AllKeys) /\ input \in Seq(Nat) /\ got \in Seq(Nat)
      /\ overrun \in BOOLEAN
  BY TtyAssumption DEF InSide, InTypes, InBuffer
<1>2. PICK g, l : g = Len(got) /\ l = Len(input) OBVIOUS
<1>3. g \in Nat /\ l \in Nat /\ g <= l BY <1>2, InLengths
<1>4. PICK c : c = Len(stored') OBVIOUS
<1>5. /\ stored' = Append(stored, key) /\ ibuf' = [ibuf EXCEPT ![itail] = c]
      /\ itail' = tail /\ input' = Append(input, c)
      /\ overrun' = (overrun \/ l - g >= I)
      /\ ihead' = ihead /\ got' = got
  BY <1>2, <1>4 DEF PutIn
<1>6. stored' \in Seq(AllKeys) /\ c \in Nat
  BY <1>1, <1>4, <1>5, AppendProperties, LenProperties
<1>7. /\ input' \in Seq(Nat) /\ Len(input') = l + 1 /\ input'[l + 1] = c
      /\ \A i \in 1 .. l : input'[i] = input[i]
  BY <1>1, <1>2, <1>5, <1>6, AppendProperties
<1>8. tail \in Int /\ (tail \in 0 .. I - 1 => tail = IF itail + 1 >= I THEN 0 ELSE itail + 1)
  BY <1>1 DEF Wrap
<1>9. ibuf' \in [0 .. I - 1 -> Nat] BY <1>1, <1>5, <1>6
<1>10. ASSUME ~overrun' PROVE InputRing'
  <2>1. ~overrun /\ l - g < I
    <3>1. ~(overrun \/ l - g >= I) BY <1>5, <1>10
    <3> QED BY <1>1, <1>3, <3>1
  <2>2. /\ \A i \in 1 .. g : got[i] = input[i]
        /\ ihead = g % I /\ itail = l % I
        /\ \A i \in g + 1 .. l : ibuf[(i - 1) % I] = input[i]
    BY <1>2, <2>1 DEF InputRing
  <2>3. \A i \in 1 .. Len(got') : got'[i] = input'[i]
    <3>1. \A i \in 1 .. g : i \in 1 .. l BY <1>3
    <3> QED BY <1>2, <1>5, <1>7, <2>2, <3>1
  <2>4. Len(input') - Len(got') <= I BY <1>1, <1>2, <1>3, <1>5, <1>7, <2>1
  <2>5. ASSUME InBuffer'
        PROVE  /\ ihead' = Len(got') % I /\ itail' = Len(input') % I
               /\ \A i \in Len(got') + 1 .. Len(input') : ibuf'[(i - 1) % I] = input'[i]
    <3>1. ihead' = Len(got') % I BY <1>2, <1>5, <2>2
    <3>2. itail' = Len(input') % I
      <4>1. tail = IF (l % I) + 1 >= I THEN 0 ELSE (l % I) + 1
        BY <1>5, <1>8, <2>2, <2>5 DEF InBuffer
      <4>2. (l + 1) % I = IF (l % I) + 1 >= I THEN 0 ELSE (l % I) + 1
        BY <1>1, <1>3, NextOnTheRing
      <4> QED BY <1>5, <1>7, <4>1, <4>2
    <3>3. ASSUME NEW i \in g + 1 .. l + 1 PROVE ibuf'[(i - 1) % I] = input'[i]
      <4>1. PICK x \in Nat : x = i - 1 BY <1>3
      <4>2. x % I \in 0 .. I - 1 BY <1>1, <4>1, Quotient
      <4>3. CASE x = l
        <5>1. i = l + 1 BY <1>3, <4>1, <4>3
        <5> QED BY <1>1, <1>5, <1>7, <2>2, <4>1, <4>3, <5>1
      <4>4. CASE x # l
        <5>1. x <= l /\ l - x < I /\ i \in g + 1 .. l /\ i \in 1 .. l
          BY <1>1, <1>3, <2>1, <4>1, <4>4
        <5>2. x % I # l % I BY <1>1, <1>3, <4>4, <5>1, ApartInARound
        <5>3. ibuf'[x % I] = ibuf[x % I] BY <1>1, <1>5, <2>2, <4>2, <5>2
        <5> QED BY <1>7, <2>2, <4>1, <5>1, <5>3
      <4> QED BY <4>3, <4>4
    <3>4. Len(got') = g /\ Len(input') = l + 1 BY <1>2, <1>5, <1>7
    <3> QED BY <3>1, <3>2, <3>3, <3>4
  <2> QED BY <2>3, <2>4, <2>5 DEF InputRing
<1> QED BY <1>1, <1>2, <1>5, <1>6, <1>7, <1>8, <1>9, <1>10

LEMMA PutInKeeps ==
    ASSUME TtyInv, Enabled, NEW key \in AllKeys, NEW tail, NEW n \in Nat,
           PutIn(key, tail, n), tail = itail + 1 \/ tail = Wrap(itail + 1),
           icursor' \in Nat, uncounted' \in Nat,
           icursor + uncounted + 1 = icursor' + uncounted' + n,
           UNCHANGED outVars, kernel' = kernel, echoes' \in Nat
    PROVE  TtyInv'
<1>1. pc \in [Procs -> Places] /\ InSide /\ OutSide /\ InBuffer /\ (~overrun => InputRing)
  BY DEF TtyInv, Driver, Enabled, InSide
<1>2. /\ isem' = SignalnOn(isem, n) /\ pc' = Wake(pc, Released(isem, n))
      /\ ihead' = ihead /\ got' = got
  BY DEF PutIn
<1>3. PICK place, sem : place = pc /\ sem = isem OBVIOUS
<1>4. PICK new : new = pc' OBVIOUS
<1>5. /\ Holds(sem, WaitFor(place, Getting)) /\ IsFiniteSet(WokenFor(place, Getting))
      /\ new = Wake(place, Released(sem, n)) /\ place \in [Procs -> Places]
  BY <1>1, <1>2, <1>3, <1>4 DEF InSide, Serves
<1>6. /\ new \in [Procs -> Places]
      /\ Holds(SignalnOn(sem, n), WaitFor(new, Getting)) /\ IsFiniteSet(WokenFor(new, Getting))
      /\ Tokens(SignalnOn(sem, n)) + Cardinality(WokenFor(new, Getting))
             = Tokens(sem) + Cardinality(WokenFor(place, Getting)) + n
      /\ Released(sem, n) \subseteq WaitFor(place, Getting)
  <2>1. PICK ops : ops = Getting OBVIOUS
  <2>2. /\ Holds(sem, WaitFor(place, ops)) /\ IsFiniteSet(WokenFor(place, ops))
        /\ new = Wake(place, Released(sem, n)) /\ place \in [Procs -> Places] /\ n \in Nat
    BY <1>5, <2>1
  <2>3. new \in [Procs -> Places] /\ Holds(SignalnOn(sem, n), WaitFor(new, ops))
        /\ IsFiniteSet(WokenFor(new, ops))
    BY ONLY <2>2, SignalServes
  <2>4. Tokens(SignalnOn(sem, n)) + Cardinality(WokenFor(new, ops))
            = Tokens(sem) + Cardinality(WokenFor(place, ops)) + n
    BY ONLY <2>2, SignalServes
  <2>5. Released(sem, n) \subseteq WaitFor(place, ops)
    BY ONLY <2>2, SignalServes
  <2> QED BY <2>1, <2>3, <2>4, <2>5
<1>7. WaitFor(new, Putting) = WaitFor(place, Putting)
      /\ WokenFor(new, Putting) = WokenFor(place, Putting)
  <2>1. Putting \cap Getting = {} BY DEF Putting, Getting
  <2>2. PICK A, ops, others : A = Released(sem, n) /\ ops = Getting /\ others = Putting OBVIOUS
  <2>3. A \subseteq WaitFor(place, ops) /\ others \cap ops = {} /\ place \in [Procs -> Places]
    BY <1>5, <1>6, <2>1, <2>2
  <2>4. WaitFor(Wake(place, A), others) = WaitFor(place, others)
        /\ WokenFor(Wake(place, A), others) = WokenFor(place, others)
    BY ONLY <2>3, OthersSleep
  <2> QED BY <1>5, <2>2, <2>4
<1>8. /\ ibuf' \in [0 .. TY_IBUFLEN - 1 -> Nat] /\ itail' \in Int
      /\ stored' \in Seq(AllKeys) /\ input' \in Seq(Nat) /\ overrun' \in BOOLEAN
      /\ Len(input') = Len(input) + 1
      /\ ~overrun' => InputRing'
  BY <1>1, PutInRing
<1>9. InTypes' BY <1>1, <1>2, <1>8 DEF InSide, InTypes
<1>10. Serves(isem, Getting)' BY <1>2, <1>3, <1>4, <1>6 DEF Serves
<1>11. InputCounted'
  <2>1. Tokens(isem') + Cardinality(WokenFor(pc', Getting))
            = Tokens(isem) + Cardinality(WokenFor(pc, Getting)) + n
    BY <1>2, <1>3, <1>4, <1>6
  <2>2. Len(got) + Tokens(isem) + Cardinality(WokenFor(pc, Getting))
            = Len(input) - icursor - uncounted
    BY <1>1 DEF InSide, InputCounted
  <2>3. Len(got') = Len(got) BY <1>2
  <2>4. /\ Len(input) \in Nat /\ Len(got) \in Nat /\ Tokens(isem) \in Nat
        /\ Cardinality(WokenFor(pc, Getting)) \in Nat /\ icursor \in Nat /\ uncounted \in Nat
    BY <1>1, InLengths
  <2>5. Tokens(isem') \in Nat /\ Cardinality(WokenFor(pc', Getting)) \in Nat
    BY <1>10, FS_CardinalityType DEF Serves, Holds, Tokens
  <2>6. Len(got') + Tokens(isem') + Cardinality(WokenFor(pc', Getting))
            = Len(input') - icursor' - uncounted'
    <3>1. PICK t, w, u, v, l, m :
              /\ t = Tokens(isem) /\ w = Cardinality(WokenFor(pc, Getting))
              /\ u = Tokens(isem') /\ v = Cardinality(WokenFor(pc', Getting))
              /\ l = Len(input) /\ m = Len(input')
      OBVIOUS
    <3>2. u + v = t + w + n /\ m = l + 1 BY <1>8, <2>1, <3>1
    <3>3. Len(got) + t + w = l - icursor - uncounted BY <2>2, <3>1
    <3>4. t \in Nat /\ w \in Nat /\ u \in Nat /\ v \in Nat /\ l \in Nat
      BY <2>4, <2>5, <3>1
    <3>5. PICK g, a, b, c, d :
              g = Len(got) /\ a = icursor /\ b = uncounted /\ c = icursor' /\ d = uncounted'
      OBVIOUS
    <3>6. /\ g \in Nat /\ a \in Nat /\ b \in Nat /\ c \in Nat /\ d \in Nat /\ n \in Nat
          /\ a + b + 1 = c + d + n /\ g + t + w = l - a - b
      BY <2>4, <3>3, <3>5
    <3>7. g + u + v = m - c - d BY ONLY <3>2, <3>4, <3>6
    <3> QED BY <2>3, <3>1, <3>5, <3>7
  <2> QED BY <2>6 DEF InputCounted, Tokens
<1>12. InSide' BY <1>8, <1>9, <1>10, <1>11 DEF InSide
<1>13. OutSide' BY <1>1, <1>3, <1>4, <1>7, OutSideStays DEF outVars
<1>14. Driver' BY <1>4, <1>6 DEF Driver, Enabled
<1> QED BY <1>12, <1>13, <1>14 DEF TtyInv

(* The last k characters of the line being typed are taken back.           *)
LEMMA Shortened ==
    ASSUME TtyInv, Enabled, NEW k \in Nat, k <= icursor,
           input' = SubSeq(input, 1, Len(input) - k), icursor' = icursor - k,
           itail' \in Int, ihead' \in Int,
           InBuffer' => ihead' = ihead,
           InBuffer' /\ itail = Len(input) % TY_IBUFLEN
               => itail' = (Len(input) - k) % TY_IBUFLEN,
           UNCHANGED <<ibuf, isem, stored, got, overrun, uncounted, pc, kernel, outVars>>,
           echoes' \in Nat
    PROVE  TtyInv'
<1> DEFINE I == TY_IBUFLEN
<1>1. pc \in [Procs -> Places] /\ InSide /\ OutSide /\ InBuffer /\ (~overrun => InputRing)
  BY DEF TtyInv, Driver, Enabled, InSide
<1>2. PICK g, l : g = Len(got) /\ l = Len(input) OBVIOUS
<1>3. g \in Nat /\ l \in Nat /\ icursor \in Nat /\ g + icursor <= l /\ uncounted \in Nat
      /\ I \in Nat \ {0}
  BY <1>1, <1>2, InLengths, TtyAssumption
<1>4. input \in Seq(Nat) /\ \A i \in 1 .. l : input[i] \in Nat
  BY <1>1, <1>2, LenProperties DEF InSide, InTypes
<1>5. l - k \in Nat /\ g <= l - k /\ icursor - k \in Nat BY <1>3
<1>6. input' \in Seq(Nat) /\ Len(input') = l - k /\ \A i \in 1 .. l - k : input'[i] = input[i]
  <2>1. PICK m, t : m = l - k /\ t = SubSeq(input, 1, m) OBVIOUS
  <2>2. 1 \in Int /\ m \in Int /\ \A i \in 1 .. m : input[i] \in Nat BY <1>3, <1>4, <1>5, <2>1
  <2>3. t \in Seq(Nat) /\ Len(t) = (IF 1 <= m THEN m - 1 + 1 ELSE 0)
        /\ \A i \in 1 .. m - 1 + 1 : t[i] = input[1 + i - 1]
    BY <1>2, <1>3, <1>4, <2>1, <2>2, SubSeqProperties
  <2>4. Len(t) = m /\ \A i \in 1 .. m : i \in 1 .. m - 1 + 1 /\ 1 + i - 1 = i
    BY <1>5, <2>1, <2>3
  <2> QED BY <1>2, <2>1, <2>3, <2>4
<1>7. InTypes' BY <1>1, <1>5, <1>6 DEF InSide, InTypes
<1>8. Serves(isem, Getting)' BY <1>1 DEF InSide, Serves
<1>9. InputCounted'
  <2>1. PICK t, w : t = Tokens(isem) /\ w = Cardinality(WokenFor(pc, Getting)) OBVIOUS
  <2>2. t \in Nat /\ w \in Nat BY <1>1, <2>1, InLengths
  <2>3. g + t + w = l - icursor - uncounted BY <1>1, <1>2, <2>1 DEF InSide, InputCounted
  <2>4. g + t + w = (l - k) - (icursor - k) - uncounted BY <1>3, <2>2, <2>3
  <2>5. Tokens(isem') = t /\ Cardinality(WokenFor(pc', Getting)) = w /\ Len(got') = g
    BY <1>2, <2>1
  <2> QED BY <1>6, <2>4, <2>5 DEF InputCounted, Tokens
<1>10. ASSUME ~overrun' PROVE InputRing'
  <2>1. /\ \A i \in 1 .. g : got[i] = input[i]
        /\ l - g <= I
        /\ ihead = g % I /\ itail = l % I
        /\ \A i \in g + 1 .. l : ibuf[(i - 1) % I] = input[i]
    BY <1>1, <1>2, <1>10 DEF InputRing
  <2>2. \A i \in 1 .. g : i \in 1 .. l - k BY <1>3, <1>5
  <2>3. \A i \in g + 1 .. l - k : i \in 1 .. l - k /\ i \in g + 1 .. l BY <1>3, <1>5
  <2>4. got' = got /\ ibuf' = ibuf /\ Len(got') = g /\ Len(input') = l - k BY <1>2, <1>6
  <2>5. \A i \in 1 .. g : got'[i] = input'[i] BY <1>6, <2>1, <2>2, <2>4
  <2>6. \A i \in g + 1 .. l - k : ibuf'[(i - 1) % I] = input'[i] BY <1>6, <2>1, <2>3, <2>4
  <2>7. (l - k) - g <= I BY <1>3, <2>1
  <2>8. InBuffer' => ihead' = g % I /\ itail' = (l - k) % I BY <1>2, <2>1
  <2> QED BY <2>4, <2>5, <2>6, <2>7, <2>8 DEF InputRing
<1>11. InSide' BY <1>7, <1>8, <1>9, <1>10 DEF InSide
<1>12. OutSide' BY <1>1, OutSideStays DEF outVars
<1>13. Driver' BY <1>1 DEF Driver, Enabled
<1> QED BY <1>11, <1>12, <1>13 DEF TtyInv

LEMMA Echoes ==
    ASSUME TtyInv, NEW n \in Nat, Eputc(n) \/ Echoch(n) \/ echoes' = echoes
    PROVE  echoes' \in Nat
<1>1. TY_EBUFLEN \in Nat \ {0} /\ echoes \in Nat BY TtyAssumption DEF TtyInv, Driver
<1>2. PICK x \in Nat : x = echoes + n BY <1>1
<1>3. x % TY_EBUFLEN \in 0 .. TY_EBUFLEN - 1 BY <1>1, <1>2, Quotient
<1>4. x % TY_EBUFLEN \in Nat BY <1>1, <1>3
<1> QED BY <1>1, <1>2, <1>4 DEF Eputc, Echoch

(* What touches neither ring nor a process. *)
LEMMA Untouched ==
    ASSUME TtyInv, UNCHANGED <<inVars, outVars, pc>>, kernel' = kernel, echoes' \in Nat
    PROVE  TtyInv'
<1>1. InSide' BY InSideStays DEF TtyInv, inVars
<1>2. OutSide' BY OutSideStays DEF TtyInv, outVars
<1>3. Driver' BY DEF TtyInv, Driver, InBuffer, inVars
<1> QED BY <1>1, <1>2, <1>3 DEF TtyInv

LEMMA LineKillKeeps == TtyInv /\ LineKill => TtyInv'
<1> SUFFICES ASSUME TtyInv, LineKill PROVE TtyInv' OBVIOUS
<1> DEFINE I == TY_IBUFLEN
<1>1. /\ Enabled /\ kernel' = kernel /\ UNCHANGED outVars /\ Eputc(2)
      /\ itail' = itail - icursor
      /\ ihead' = (IF itail - icursor < 0 THEN ihead + I ELSE ihead)
      /\ input' = SubSeq(input, 1, Len(input) - icursor) /\ icursor' = 0
      /\ UNCHANGED <<ibuf, isem, stored, got, overrun, uncounted, pc>>
  BY DEF LineKill, Edited, Arrives
<1>2. PICK k : k = icursor OBVIOUS
<1>3. /\ k \in Nat /\ Len(input) \in Nat /\ k <= Len(input)
      /\ itail \in 0 .. I - 1 /\ ihead \in 0 .. I - 1 /\ I \in Nat \ {0}
  <2>1. InSide BY DEF TtyInv
  <2>2. icursor \in Nat /\ Len(input) \in Nat /\ Len(got) \in Nat
        /\ Len(got) + icursor <= Len(input)
    BY <2>1, InLengths
  <2> QED BY <1>1, <1>2, <2>2, TtyAssumption DEF Enabled, InBuffer
<1>4. itail' \in Int /\ ihead' \in Int /\ icursor' = icursor - k /\ k <= icursor
  BY <1>1, <1>2, <1>3
<1>5. InBuffer' => itail - k >= 0 BY <1>1, <1>2, <1>3 DEF InBuffer
<1>6. InBuffer' => ihead' = ihead BY <1>1, <1>2, <1>3, <1>5
<1>7. ASSUME InBuffer', itail = Len(input) % I
      PROVE  itail' = (Len(input) - k) % I
  <2>1. PICK l : l = Len(input) OBVIOUS
  <2>2. k <= l % I BY <1>3, <1>5, <1>7, <2>1
  <2>3. (l - k) % I = (l % I) - k BY <1>3, <2>1, <2>2, BackOnTheRing
  <2> QED BY <1>1, <1>2, <1>7, <2>1, <2>3
<1>8. 2 \in Nat /\ echoes' \in Nat BY <1>1, Echoes
<1> QED BY <1>1, <1>2, <1>3, <1>4, <1>6, <1>7, <1>8, Shortened

LEMMA EraseCharKeeps == TtyInv /\ EraseChar => TtyInv'
<1> SUFFICES ASSUME TtyInv, EraseChar PROVE TtyInv' OBVIOUS
<1> DEFINE I == TY_IBUFLEN
<1>1. /\ Enabled /\ kernel' = kernel /\ UNCHANGED outVars
      /\ UNCHANGED <<ibuf, ihead, isem, stored, got, overrun, uncounted, pc>>
  BY DEF EraseChar, Edited, Arrives
<1>2. CASE ~(icursor > 0)
  <2>1. UNCHANGED <<icursor, itail, input, echoes>> BY <1>2 DEF EraseChar
  <2>2. echoes' \in Nat BY <2>1 DEF TtyInv, Driver
  <2> QED BY <1>1, <2>1, <2>2, Untouched DEF inVars
<1>3. CASE icursor > 0
  <2>1. /\ icursor' = icursor - 1 /\ Erase1 BY <1>3 DEF EraseChar
  <2>2. /\ itail' = (IF itail = 0 THEN I - 1 ELSE itail - 1)
        /\ input' = Front(input)
        /\ \E n \in Nat : Echoch(n)
    <3>1. \A key : 3 * EchoLength(key) \in Nat BY DEF EchoLength
    <3> QED BY <2>1, <3>1 DEF Erase1
  <2>3. echoes' \in Nat BY <2>2, Echoes
  <2>4. PICK l : l = Len(input) OBVIOUS
  <2>5. /\ icursor \in Nat /\ l \in Nat /\ 1 <= icursor /\ 1 <= l
        /\ itail \in 0 .. I - 1 /\ ihead \in Int /\ I \in Nat \ {0}
    <3>1. InSide BY DEF TtyInv
    <3>2. icursor \in Nat /\ Len(input) \in Nat /\ Len(got) \in Nat
          /\ Len(got) + icursor <= Len(input)
      BY <3>1, InLengths
    <3> QED BY <1>1, <1>3, <2>4, <3>1, <3>2, TtyAssumption DEF Enabled, InBuffer, InSide, InTypes
  <2>6. input' = SubSeq(input, 1, Len(input) - 1) BY <2>2 DEF Front
  <2>7. ASSUME itail = l % I PROVE itail' = (l - 1) % I
    <3>1. PICK x \in Nat : x = l - 1 BY <2>5
    <3>2. x % I \in 0 .. I - 1 /\ (x + 1) % I = IF (x % I) + 1 >= I THEN 0 ELSE (x % I) + 1
      BY <2>5, NextOnTheRing
    <3>3. x + 1 = l BY <2>5, <3>1
    <3>4. PICK a \in 0 .. I - 1 : a = x % I BY <3>2
    <3>5. itail = IF a + 1 >= I THEN 0 ELSE a + 1 BY <2>7, <3>2, <3>3, <3>4
    <3>6. itail' = a BY <2>2, <2>5, <3>4, <3>5
    <3> QED BY <3>1, <3>4, <3>6
  <2>8. itail' \in Int BY <2>2, <2>5
  <2>9. 1 \in Nat /\ 1 <= icursor /\ ihead' \in Int BY <1>1, <2>5
  <2> QED BY <1>1, <2>1, <2>3, <2>4, <2>6, <2>7, <2>8, <2>9, Shortened
<1> QED BY <1>2, <1>3

(* A key that is stored, with its tokens, and echoed or not. *)
LEMMA Stored ==
    ASSUME TtyInv, Arrives, NEW key \in AllKeys, NEW tail, NEW n \in Nat, NEW m \in Nat,
           PutIn(key, tail, n), tail = itail + 1 \/ tail = Wrap(itail + 1),
           icursor' \in Nat, uncounted' \in Nat,
           icursor + uncounted + 1 = icursor' + uncounted' + n,
           Echoch(m) \/ echoes' = echoes
    PROVE  TtyInv'
<1>1. Enabled /\ UNCHANGED outVars /\ kernel' = kernel BY DEF Arrives
<1>2. echoes' \in Nat BY Echoes
<1> QED BY <1>1, <1>2, PutInKeeps

LEMMA Ignored ==
    ASSUME TtyInv, Arrives, NEW m \in Nat, IgnoreInput,
           Eputc(m) \/ Echoch(m) \/ echoes' = echoes
    PROVE  TtyInv'
<1>1. echoes' \in Nat BY Echoes
<1> QED BY <1>1, Untouched DEF Arrives, IgnoreInput

LEMMA InterInKeeps == TtyInv /\ InterIn => TtyInv'
<1> SUFFICES ASSUME TtyInv, InterIn PROVE TtyInv' OBVIOUS
<1>1. icursor \in Nat /\ uncounted \in Nat BY DEF TtyInv, InSide, InTypes
<1>2. 0 \in Nat /\ 1 \in Nat /\ 2 \in Nat /\ icursor + 1 \in Nat /\ uncounted + 1 \in Nat
  BY <1>1
<1>3. ASSUME NEW key \in Keys, RawChar(key) PROVE TtyInv'
  <2>1. key \in AllKeys /\ Arrives /\ echoes' = echoes
    BY <1>3, TtyAssumption DEF RawChar, echoVars
  <2>2. CASE Tokens(isem) >= TY_IBUFLEN
    BY <1>2, <1>3, <2>1, <2>2, Ignored DEF RawChar
  <2>3. CASE ~(Tokens(isem) >= TY_IBUFLEN)
    <3>1. PutIn(key, Wrap(itail + 1), 1) /\ icursor' = icursor /\ uncounted' = uncounted
      BY <1>3, <2>3 DEF RawChar
    <3>2. icursor + uncounted + 1 = icursor' + uncounted' + 1 BY <1>1, <3>1
    <3> QED BY <1>1, <1>2, <2>1, <3>1, <3>2, Stored
  <2> QED BY <2>2, <2>3
<1>4. ASSUME NEW key \in Keys, FlowChar(key) PROVE TtyInv'
  <2>1. Arrives /\ IgnoreInput /\ echoes' = echoes BY <1>4 DEF FlowChar
  <2> QED BY <1>2, <2>1, Ignored
<1>5. ASSUME NEW key \in Keys, CbreakChar(key) PROVE TtyInv'
  <2>1. key \in AllKeys /\ Arrives BY <1>5, TtyAssumption DEF CbreakChar, Edited
  <2>2. CASE Tokens(isem) >= TY_IBUFLEN
    BY <1>2, <1>5, <2>1, <2>2, Ignored DEF CbreakChar
  <2>3. CASE ~(Tokens(isem) >= TY_IBUFLEN)
    <3>1. /\ PutIn(key, Wrap(itail + 1), 0) /\ icursor' = icursor /\ uncounted' = uncounted + 1
          /\ Echoch(EchoLength(key))
      BY <1>5, <2>3 DEF CbreakChar
    <3>2. icursor + uncounted + 1 = icursor' + uncounted' + 0 BY <1>1, <3>1
    <3>3. EchoLength(key) \in Nat BY DEF EchoLength
    <3> QED BY <1>1, <1>2, <2>1, <3>1, <3>2, <3>3, Stored
  <2> QED BY <2>2, <2>3
<1>6. ASSUME NEW key \in Keys, Bell(key) PROVE TtyInv'
  <2>1. Arrives /\ IgnoreInput /\ Eputc(1) BY <1>6 DEF Bell, Edited
  <2> QED BY <1>2, <2>1, Ignored
<1>7. CASE LineKill BY <1>7, LineKillKeeps
<1>8. CASE EraseChar BY <1>8, EraseCharKeeps
<1>9. CASE EndOfLine
  <2>1. /\ Arrives /\ PutIn("newline", Wrap(itail + 1), icursor + 1)
        /\ icursor' = 0 /\ Echoch(2) /\ uncounted' = uncounted
    BY <1>9 DEF EndOfLine, Edited
  <2>2. PICK n, key, tail : n = icursor + 1 /\ key = "newline" /\ tail = Wrap(itail + 1)
    OBVIOUS
  <2>3. /\ icursor + uncounted + 1 = icursor' + uncounted' + n
        /\ n \in Nat /\ icursor' \in Nat /\ uncounted' \in Nat
    BY <1>1, <1>2, <2>1, <2>2
  <2>4. key \in AllKeys BY <2>2 DEF AllKeys
  <2>5. PutIn(key, tail, n) BY <2>1, <2>2
  <2> QED BY <1>2, <2>1, <2>2, <2>3, <2>4, <2>5, Stored
<1>10. CASE EofChar
  <2>1. Arrives /\ Echoch(2) BY <1>10 DEF EofChar, Edited
  <2>2. CASE icursor = 0
    <3>1. PutIn("eof", itail + 1, 1) /\ icursor' = icursor /\ uncounted' = uncounted
      BY <1>10, <2>2 DEF EofChar
    <3>2. icursor + uncounted + 1 = icursor' + uncounted' + 1 BY <1>1, <3>1
    <3>3. "eof" \in AllKeys BY DEF AllKeys
    <3> QED BY <1>1, <1>2, <2>1, <3>1, <3>2, <3>3, Stored
  <2>3. CASE icursor # 0
    <3>1. IgnoreInput BY <1>10, <2>3 DEF EofChar
    <3> QED BY <1>2, <2>1, <3>1, Ignored
  <2> QED BY <2>2, <2>3
<1>11. CASE PlainChar
  <2>1. /\ Arrives /\ PutIn("char", Wrap(itail + 1), 0) /\ Echoch(1)
        /\ icursor' = icursor + 1 /\ uncounted' = uncounted
    BY <1>11 DEF PlainChar, Edited
  <2>2. icursor + uncounted + 1 = icursor' + uncounted' + 0 BY <1>1, <2>1
  <2>3. "char" \in AllKeys BY DEF AllKeys
  <2> QED BY <1>1, <1>2, <2>1, <2>2, <2>3, Stored
<1> QED BY <1>3, <1>4, <1>5, <1>6, <1>7, <1>8, <1>9, <1>10, <1>11 DEF InterIn
----------------------------------------------------------------------------
(* What ttyInter_out() takes from the rings. *)
LEMMA Taken ==
    ASSUME TtyInv
    PROVE  /\ Echoed \in Nat /\ echoes - Echoed \in Nat /\ Ochars \in Nat
           /\ osem.count + Ochars <= TY_OBUFLEN
<1>1. /\ UART_FIFO_SIZE \in Nat /\ TY_OBUFLEN \in Nat /\ echoes \in Nat
      /\ osem.count \in Int /\ osem.count <= TY_OBUFLEN
  BY TtyAssumption DEF TtyInv, Driver, OutSide, OutTypes, Serves, Holds
<1>2. PICK e : e = Echoed OBVIOUS
<1>3. e = IF UART_FIFO_SIZE <= echoes THEN UART_FIFO_SIZE ELSE echoes
  BY <1>1, <1>2, MinOfTwo DEF Echoed
<1>4. PICK a, b, o : a = UART_FIFO_SIZE - e /\ b = TY_OBUFLEN - osem.count /\ o = Ochars
  OBVIOUS
<1>5. a \in Nat /\ b \in Nat BY <1>1, <1>3, <1>4
<1>6. o = IF a <= b THEN a ELSE b
  <2>1. o = Min({a, b}) BY <1>2, <1>4 DEF Ochars
  <2> QED BY <1>5, <2>1, MinOfTwo
<1> QED BY <1>1, <1>2, <1>3, <1>4, <1>5, <1>6

LEMMA TransmitKeeps == TtyInv /\ Transmit => TtyInv'
<1> SUFFICES ASSUME TtyInv, Transmit PROVE TtyInv' OBVIOUS
<1> DEFINE O == TY_OBUFLEN
<1>1. PICK n : n = Ochars OBVIOUS
<1>2. n \in Nat /\ osem.count + n <= O /\ echoes - Echoed \in Nat BY <1>1, Taken
<1>3. /\ Enabled /\ echoes' = echoes - Echoed
      /\ sent' = sent \o [i \in 1 .. n |-> obuf[(ohead + i - 1) % O]]
      /\ outrun' = (outrun \/ Len(sent) + n > written)
      /\ ohead' = (ohead + n) % O
      /\ osem' = SignalnOn(osem, n)
      /\ pc' = Wake(pc, Released(osem, n))
      /\ UNCHANGED <<obuf, otail, written, kernel>> /\ UNCHANGED inVars
  BY <1>1 DEF Transmit
<1>4. /\ O \in Nat \ {0} /\ obuf \in [0 .. O - 1 -> Nat] /\ ohead \in 0 .. O - 1
      /\ sent \in Seq(Nat) /\ written \in Nat /\ outrun \in BOOLEAN
      /\ otail \in 0 .. O - 1 /\ osem.count \in Int
  BY TtyAssumption DEF TtyInv, OutSide, OutTypes, Serves, Holds
<1>5. PICK place, sem, new, ops, A :
          /\ place = pc /\ sem = osem /\ new = pc' /\ ops = Putting /\ A = Released(osem, n)
  OBVIOUS
<1>6. /\ Holds(sem, WaitFor(place, ops)) /\ IsFiniteSet(WokenFor(place, ops))
      /\ new = Wake(place, A) /\ A = Released(sem, n) /\ place \in [Procs -> Places] /\ n \in Nat
  BY <1>2, <1>3, <1>5 DEF TtyInv, Driver, OutSide, Serves
<1>7. new \in [Procs -> Places] /\ Holds(SignalnOn(sem, n), WaitFor(new, ops))
      /\ IsFiniteSet(WokenFor(new, ops))
  BY ONLY <1>6, SignalServes
<1>8. Tokens(SignalnOn(sem, n)) + Cardinality(WokenFor(new, ops))
          = Tokens(sem) + Cardinality(WokenFor(place, ops)) + n
  BY ONLY <1>6, SignalServes
<1>9. A \subseteq WaitFor(place, ops) BY ONLY <1>6, SignalServes
<1>10. WaitFor(new, Getting) = WaitFor(place, Getting)
       /\ WokenFor(new, Getting) = WokenFor(place, Getting)
  <2>1. PICK others : others = Getting OBVIOUS
  <2>2. others \cap ops = {} BY <1>5, <2>1 DEF Putting, Getting
  <2>3. WaitFor(Wake(place, A), others) = WaitFor(place, others)
        /\ WokenFor(Wake(place, A), others) = WokenFor(place, others)
    BY ONLY <1>6, <1>9, <2>2, OthersSleep
  <2> QED BY <1>6, <2>1, <2>3
<1>11. InSide' BY <1>3, <1>5, <1>10, InSideStays DEF TtyInv, inVars
<1>12. Driver' BY <1>2, <1>3, <1>5, <1>7 DEF Driver, Enabled
<1>13. PICK h, l : h = ohead /\ l = Len(sent) OBVIOUS
<1>14. /\ sent' \in Seq(Nat) /\ Len(sent') = l + n /\ l \in Nat
       /\ \A i \in 1 .. l : sent'[i] = sent[i]
       /\ \A i \in 1 .. n : sent'[l + i] = obuf[(ohead + i - 1) % O]
  <2>1. PICK t : t = [i \in 1 .. n |-> obuf[(ohead + i - 1) % O]] OBVIOUS
  <2>2. \A i \in 1 .. n : (ohead + i - 1) % O \in 0 .. O - 1 /\ obuf[(ohead + i - 1) % O] \in Nat
    <3>1. SUFFICES ASSUME NEW i \in 1 .. n
                   PROVE  (ohead + i - 1) % O \in 0 .. O - 1 /\ obuf[(ohead + i - 1) % O] \in Nat
      OBVIOUS
    <3>2. PICK x \in Nat : x = ohead + i - 1 BY <1>2, <1>4
    <3>3. x % O \in 0 .. O - 1 BY <1>4, Quotient
    <3> QED BY <1>4, <3>2, <3>3
  <2>3. t \in [1 .. n -> Nat] BY <2>1, <2>2
  <2>4. t \in Seq(Nat) BY <1>2, <2>3 DEF Seq
  <2>5. Len(t) = n BY <1>2, <2>3, <2>4, LenProperties
  <2>6. /\ sent \o t \in Seq(Nat) /\ Len(sent \o t) = Len(sent) + Len(t)
        /\ \A i \in 1 .. Len(sent) + Len(t) :
               (sent \o t)[i] = IF i <= Len(sent) THEN sent[i] ELSE t[i - Len(sent)]
    BY <1>4, <2>4, ConcatProperties
  <2>7. l \in Nat BY <1>4, <1>13, LenProperties
  <2>8. sent' = sent \o t BY <1>3, <2>1
  <2>9. \A i \in 1 .. l : i \in 1 .. l + n /\ i <= l BY <1>2, <2>7
  <2>10. \A i \in 1 .. n : l + i \in 1 .. l + n /\ ~(l + i <= l) /\ (l + i) - l = i BY <1>2, <2>7
  <2>11. \A i \in 1 .. l : sent'[i] = sent[i] BY <1>13, <2>5, <2>6, <2>8, <2>9
  <2>12. \A i \in 1 .. n : sent'[l + i] = t[i] BY <1>13, <2>5, <2>6, <2>8, <2>10
  <2> QED BY <1>13, <2>1, <2>5, <2>6, <2>7, <2>8, <2>11, <2>12
<1>15. ohead' \in 0 .. O - 1
  <2>1. PICK x \in Nat : x = ohead + n BY <1>2, <1>4
  <2> QED BY <1>3, <1>4, <2>1, Quotient
<1>16. OutTypes'
  <2>1. osem'.count = osem.count + n BY <1>3 DEF SignalnOn
  <2>2. outrun' \in BOOLEAN BY <1>3
  <2> QED BY <1>2, <1>3, <1>4, <1>14, <1>15, <2>1, <2>2 DEF OutTypes
<1>17. Serves(osem, Putting)' BY <1>3, <1>5, <1>7 DEF Serves
<1>18. OutputCounted'
  <2>1. PICK t, w, u, v : /\ t = Tokens(sem) /\ w = Cardinality(WokenFor(place, ops))
                          /\ u = Tokens(SignalnOn(sem, n)) /\ v = Cardinality(WokenFor(new, ops))
    OBVIOUS
  <2>2. u + v = t + w + n BY <1>8, <2>1
  <2>3. written - l + t + w = O BY <1>5, <1>13, <2>1 DEF TtyInv, OutSide, OutputCounted
  <2>4. t \in Nat /\ w \in Nat BY <1>5, <2>1, OutLengths DEF TtyInv
  <2>5. u \in Nat /\ v \in Nat
    <3>1. v \in Nat BY <1>7, <2>1, FS_CardinalityType
    <3>2. Tokens(SignalnOn(sem, n)) \in Nat BY <1>7 DEF Tokens, Holds
    <3> QED BY <2>1, <3>1, <3>2
  <2>6. written - (l + n) + u + v = O BY <1>2, <1>4, <1>14, <2>2, <2>3, <2>4, <2>5
  <2>7. Tokens(osem') = u /\ Cardinality(WokenFor(pc', Putting)) = v BY <1>3, <1>5, <2>1
  <2> QED BY <1>3, <1>14, <2>6, <2>7 DEF OutputCounted, Tokens
<1>19. ASSUME ~outrun' PROVE OutputRing'
  <2>1. ~outrun /\ l + n <= written
    <3>1. ~(outrun \/ Len(sent) + n > written) BY <1>3, <1>19
    <3> QED BY <1>2, <1>4, <1>13, <1>14, <3>1
  <2>2. /\ l <= written /\ \A i \in 1 .. l : sent[i] = i
        /\ ohead = l % O /\ otail = written % O
        /\ \A i \in l + 1 .. written : obuf[(i - 1) % O] = i
    BY <1>13, <2>1 DEF TtyInv, OutSide, OutputRing
  <2>3. ASSUME NEW i \in 1 .. l + n PROVE sent'[i] = i
    <3>1. CASE i <= l BY <1>14, <2>2, <3>1
    <3>2. CASE ~(i <= l)
      <4>1. PICK j \in 1 .. n : i = l + j
        <5>1. i - l \in 1 .. n /\ i = l + (i - l) BY <1>2, <1>14, <3>2
        <5> QED BY <5>1
      <4>2. PICK k \in Nat : k = j - 1 BY <4>1
      <4>3. l + k = i - 1 /\ ohead + j - 1 = (l % O) + k /\ i \in l + 1 .. written
        BY <1>2, <1>4, <1>14, <2>1, <2>2, <4>1, <4>2
      <4>4. (l + k) % O = ((l % O) + k) % O BY <1>4, <1>14, OnTheRing
      <4>5. sent'[l + j] = obuf[(ohead + j - 1) % O] BY <1>14, <4>1
      <4> QED BY <2>2, <4>1, <4>3, <4>4, <4>5
    <3> QED BY <3>1, <3>2
  <2>4. ohead' = (l + n) % O
    <3>1. (l + n) % O = ((l % O) + n) % O BY <1>2, <1>4, <1>14, OnTheRing
    <3> QED BY <1>3, <2>2, <3>1
  <2>5. \A i \in (l + n) + 1 .. written : i \in l + 1 .. written BY <1>2, <1>4, <1>14
  <2>6. \A i \in (l + n) + 1 .. written : obuf'[(i - 1) % O] = i BY <1>3, <2>2, <2>5
  <2>7. written' = written /\ otail' = otail /\ Len(sent') = l + n BY <1>3, <1>14
  <2> QED BY <2>1, <2>2, <2>3, <2>4, <2>6, <2>7 DEF OutputRing
<1>20. OutSide' BY <1>16, <1>17, <1>18, <1>19 DEF OutSide
<1> QED BY <1>11, <1>12, <1>20 DEF TtyInv

LEMMA InterOutKeeps == TtyInv /\ InterOut => TtyInv'
<1> SUFFICES ASSUME TtyInv, InterOut PROVE TtyInv' OBVIOUS
<1>1. CASE OutputOff
  <2>1. UNCHANGED <<inVars, outVars, pc>> /\ kernel' = kernel /\ echoes' = echoes
    BY <1>1 DEF OutputOff
  <2>2. echoes' \in Nat BY <2>1 DEF TtyInv, Driver
  <2> QED BY <2>1, <2>2, Untouched
<1>2. CASE Transmit BY <1>2, TransmitKeeps
<1> QED BY <1>1, <1>2 DEF InterOut
----------------------------------------------------------------------------
(* A process that was not waiting, nor made ready for ops, goes somewhere. *)
LEMMA GoesElsewhere ==
    ASSUME pc \in [Procs -> Places], NEW p \in Procs, NEW q \in Places,
           pc' = [pc EXCEPT ![p] = q], NEW ops
    PROVE  /\ pc' \in [Procs -> Places]
           /\ WaitFor(pc', ops) = (WaitFor(pc, ops) \ {p})
                  \cup (IF q.op \in ops /\ q.at = "wait" THEN {p} ELSE {})
           /\ WokenFor(pc', ops) = (WokenFor(pc, ops) \ {p})
                  \cup (IF q.op \in ops /\ q.at = "woken" THEN {p} ELSE {})
<1>1. PICK place, new : place = pc /\ new = pc' OBVIOUS
<1>2. place \in [Procs -> Places] /\ new[p] = q /\ \A o \in Procs : o # p => new[o] = place[o]
  BY <1>1
<1>3. WaitFor(new, ops) = (WaitFor(place, ops) \ {p})
          \cup (IF q.op \in ops /\ q.at = "wait" THEN {p} ELSE {})
  BY ONLY <1>2, PlaceMoves
<1>4. WokenFor(new, ops) = (WokenFor(place, ops) \ {p})
          \cup (IF q.op \in ops /\ q.at = "woken" THEN {p} ELSE {})
  BY ONLY <1>2, PlaceMoves
<1>5. pc' \in [Procs -> Places] OBVIOUS
<1> QED BY <1>1, <1>3, <1>4, <1>5

LEMMA CallPlace ==
    ASSUME NEW op \in Ops, NEW left \in Int, NEW line \in {"no", "first", "rest"}
    PROVE  Call(op, left, line) \in Places /\ Call(op, left, line).at = "driver"
BY DEF Call, Places, Points

LEMMA GoneOn ==
    ASSUME pc \in [Procs -> Places], NEW p \in Procs, NEW finished \in BOOLEAN,
           NEW line \in {"no", "first", "rest"}, GoesOn(p, finished, line), NEW ops
    PROVE  /\ pc' \in [Procs -> Places]
           /\ WaitFor(pc', ops) = WaitFor(pc, ops) \ {p}
           /\ WokenFor(pc', ops) = WokenFor(pc, ops) \ {p}
<1>1. PICK q : q = IF finished \/ pc[p].left = 1 THEN Idle
                   ELSE Call(pc[p].op, pc[p].left - 1, line)
  OBVIOUS
<1>2. pc[p].op \in Ops /\ pc[p].left - 1 \in Int BY DEF Places
<1>3. Idle \in Places /\ Idle.at = "user" BY DEF Idle, Places, Ops, Points
<1>4. q \in Places /\ q.at # "wait" /\ q.at # "woken" BY <1>1, <1>2, <1>3, CallPlace
<1>5. pc' = [pc EXCEPT ![p] = q] BY <1>1 DEF GoesOn
<1>6. /\ pc' \in [Procs -> Places]
      /\ WaitFor(pc', ops) = (WaitFor(pc, ops) \ {p})
             \cup (IF q.op \in ops /\ q.at = "wait" THEN {p} ELSE {})
      /\ WokenFor(pc', ops) = (WokenFor(pc, ops) \ {p})
             \cup (IF q.op \in ops /\ q.at = "woken" THEN {p} ELSE {})
  BY <1>4, <1>5, GoesElsewhere
<1> QED BY <1>4, <1>6

(* p waits in the driver. *)
LEMMA Waited ==
    ASSUME pc \in [Procs -> Places], NEW p \in Procs, pc[p].at = "driver", Waits(p), NEW ops
    PROVE  /\ pc' \in [Procs -> Places] /\ kernel' = NoProc
           /\ WaitFor(pc', ops) = WaitFor(pc, ops) \cup (IF pc[p].op \in ops THEN {p} ELSE {})
           /\ WokenFor(pc', ops) = WokenFor(pc, ops)
           /\ p \notin WaitFor(pc, ops)
<1>1. PICK r \in Places : r = pc[p] OBVIOUS
<1>2. PICK q : q = [r EXCEPT !.at = "wait"] OBVIOUS
<1>3. q \in Places /\ q.at = "wait" /\ q.op = r.op BY <1>2 DEF Places, Points
<1>4. pc' = [pc EXCEPT ![p] = q] BY <1>1, <1>2 DEF Waits
<1>5. p \notin WaitFor(pc, ops) /\ p \notin WokenFor(pc, ops) BY DEF WaitFor, WokenFor
<1>6. /\ pc' \in [Procs -> Places]
      /\ WaitFor(pc', ops) = (WaitFor(pc, ops) \ {p})
             \cup (IF q.op \in ops /\ q.at = "wait" THEN {p} ELSE {})
      /\ WokenFor(pc', ops) = (WokenFor(pc, ops) \ {p})
             \cup (IF q.op \in ops /\ q.at = "woken" THEN {p} ELSE {})
  BY <1>3, <1>4, GoesElsewhere
<1> QED BY <1>1, <1>3, <1>5, <1>6 DEF Waits

LEMMA EnterKeeps ==
    ASSUME TtyInv, NEW p \in Procs, NEW call \in Places, call.at = "driver", Enter(p, call)
    PROVE  TtyInv'
<1>1. /\ InBuffer /\ pc[p] = Idle /\ pc' = [pc EXCEPT ![p] = call] /\ kernel' = p
      /\ UNCHANGED <<inVars, outVars, echoes>> /\ pc \in [Procs -> Places]
  BY DEF Enter, Enabled, echoVars, TtyInv, Driver
<1>2. \A ops : p \notin WaitFor(pc, ops) /\ p \notin WokenFor(pc, ops)
  BY <1>1 DEF Idle, WaitFor, WokenFor
<1>3. ASSUME NEW ops
      PROVE  /\ pc' \in [Procs -> Places] /\ WaitFor(pc', ops) = WaitFor(pc, ops)
             /\ WokenFor(pc', ops) = WokenFor(pc, ops)
  <2>1. /\ pc' \in [Procs -> Places]
        /\ WaitFor(pc', ops) = (WaitFor(pc, ops) \ {p})
               \cup (IF call.op \in ops /\ call.at = "wait" THEN {p} ELSE {})
        /\ WokenFor(pc', ops) = (WokenFor(pc, ops) \ {p})
               \cup (IF call.op \in ops /\ call.at = "woken" THEN {p} ELSE {})
    BY <1>1, GoesElsewhere
  <2>2. call.at # "wait" /\ call.at # "woken" OBVIOUS
  <2> QED BY <1>2, <2>1, <2>2
<1>4. InSide' BY <1>1, <1>3, InSideStays DEF TtyInv, inVars
<1>5. OutSide' BY <1>1, <1>3, OutSideStays DEF TtyInv, outVars
<1>6. Driver' BY <1>1, <1>3 DEF TtyInv, Driver, InBuffer, inVars
<1> QED BY <1>4, <1>5, <1>6 DEF TtyInv

LEMMA MaxOfTwo ==
    ASSUME NEW a \in Int, NEW b \in Int
    PROVE  Max({a, b}) = IF a >= b THEN a ELSE b
<1> DEFINE m == IF a >= b THEN a ELSE b
<1>1. m \in {a, b} /\ \A y \in {a, b} : m >= y OBVIOUS
<1>2. \A x \in {a, b} : (\A y \in {a, b} : x >= y) => x = m OBVIOUS
<1> HIDE DEF m
<1>3. Max({a, b}) = m BY <1>1, <1>2 DEF Max
<1> QED BY <1>3 DEF m

LEMMA ReadKeeps ==
    ASSUME TtyInv, NEW p \in Procs, NEW count \in Counts, Read(p, count) \/ Write(p, count)
    PROVE  TtyInv'
<1>1. count \in Nat /\ Tokens(isem) \in Nat BY TtyAssumption, InLengths DEF TtyInv
<1>2. Max({count, 1}) \in Int BY <1>1, MaxOfTwo
<1>3. ASSUME NEW op \in {"get", "put"}, NEW left \in Int, NEW line \in {"no", "first"},
             Enter(p, Call(op, left, line))
      PROVE  TtyInv'
  <2>1. op \in Ops /\ line \in {"no", "first", "rest"} BY DEF Ops
  <2>2. Call(op, left, line) \in Places /\ Call(op, left, line).at = "driver" BY <2>1, CallPlace
  <2> QED BY <1>3, <2>2, EnterKeeps
<1>4. CASE Read(p, count)
  <2>1. CASE imode = "cooked"
    <3>1. Enter(p, Call("get", Max({count, 1}), "first")) BY <1>4, <2>1 DEF Read
    <3> QED BY <1>2, <1>3, <3>1
  <2>2. CASE imode # "cooked"
    <3>1. \E wanted \in Int : Enter(p, Call("get", wanted, "no")) BY <1>1, <1>4, <2>2 DEF Read
    <3> QED BY <1>3, <3>1
  <2> QED BY <2>1, <2>2
<1>5. CASE Write(p, count)
  <2>1. Enter(p, Call("put", count, "no")) BY <1>5 DEF Write
  <2> QED BY <1>1, <1>3, <2>1
<1> QED BY <1>4, <1>5

(* Who is in the driver runs there with the pointers in the buffer. *)
LEMMA InTheDriver ==
    ASSUME TtyInv, NEW p \in Procs, NEW op \in Ops, InDriver(p, op) \/ Woken(p, op)
    PROVE  InBuffer /\ pc[p].op = op /\ pc[p].at = (IF InDriver(p, op) THEN "driver" ELSE "woken")
BY TtyAssumption DEF TtyInv, Driver, InDriver, Woken, Enabled

(* A process that waits for a character, with nobody there to be given one.*)
LEMMA WaitsForInput ==
    ASSUME TtyInv, NEW p \in Procs, isem.count <= 0, isem' = WaitOn(isem, p),
           p \notin WaitFor(pc, Getting),
           pc' \in [Procs -> Places],
           WaitFor(pc', Getting) = WaitFor(pc, Getting) \cup {p},
           WokenFor(pc', Getting) = WokenFor(pc, Getting),
           UNCHANGED <<ibuf, ihead, itail, icursor, stored, input, got, overrun, uncounted>>
    PROVE  InSide'
<1>1. PICK sem, P : sem = isem /\ P = WaitFor(pc, Getting) OBVIOUS
<1>2. InSide BY DEF TtyInv
<1>3. Holds(sem, P) /\ sem.count <= 0 /\ p \notin P BY <1>1, <1>2 DEF InSide, Serves
<1>4. Holds(WaitOn(sem, p), P \cup {p}) /\ Tokens(WaitOn(sem, p)) = Tokens(sem)
  BY <1>3, WaitOnHolds
<1>5. Serves(isem, Getting)' BY <1>1, <1>2, <1>4 DEF InSide, Serves
<1>6. InTypes' BY <1>2 DEF InSide, InTypes
<1>7. InputCounted'
  <2>1. Tokens(isem') = Tokens(isem) BY <1>1, <1>4
  <2> QED BY <1>2, <2>1 DEF InSide, InputCounted, Tokens
<1>8. ~overrun' => InputRing' BY <1>2 DEF InSide, InputRing, InBuffer
<1> QED BY <1>5, <1>6, <1>7, <1>8 DEF InSide

LEMMA GetWaitKeeps == \A p \in Procs : TtyInv /\ GetWait(p) => TtyInv'
<1> SUFFICES ASSUME NEW p \in Procs, TtyInv, GetWait(p) PROVE TtyInv' OBVIOUS
<1>1. /\ InDriver(p, "get") /\ isem.count <= 0 /\ isem' = WaitOn(isem, p) /\ Waits(p)
      /\ UNCHANGED <<ibuf, ihead, itail, icursor, stored, input, got, overrun, uncounted>>
      /\ UNCHANGED outVars /\ echoes' = echoes /\ pc \in [Procs -> Places]
  BY DEF GetWait, echoVars, TtyInv, Driver
<1>2. pc[p].op = "get" /\ pc[p].at = "driver" BY <1>1 DEF InDriver
<1>3. "get" \in Getting /\ "get" \notin Putting BY DEF Getting, Putting
<1>4. /\ pc' \in [Procs -> Places] /\ kernel' = NoProc
      /\ WaitFor(pc', Getting) = WaitFor(pc, Getting) \cup {p}
      /\ WokenFor(pc', Getting) = WokenFor(pc, Getting)
      /\ p \notin WaitFor(pc, Getting)
  BY <1>1, <1>2, <1>3, Waited
<1>5. WaitFor(pc', Putting) = WaitFor(pc, Putting) /\ WokenFor(pc', Putting) = WokenFor(pc, Putting)
  BY ZenonT(30), <1>1, <1>2, <1>3, Waited
<1>6. InSide' BY <1>1, <1>4, WaitsForInput
<1>7. OutSide' BY <1>1, <1>5, OutSideStays DEF TtyInv, outVars
<1>8. Driver' BY <1>1, <1>4 DEF TtyInv, Driver
<1> QED BY <1>6, <1>7, <1>8 DEF TtyInv

LEMMA NextcWaitKeeps == \A p \in Procs : TtyInv /\ NextcWait(p) => TtyInv'
<1> SUFFICES ASSUME NEW p \in Procs, TtyInv, NextcWait(p) PROVE TtyInv' OBVIOUS
<1>1. PICK q : q = [Call("nextc", 0, "no") EXCEPT !.at = "wait"] OBVIOUS
<1>2. q \in Places /\ q.op = "nextc" /\ q.at = "wait" BY <1>1 DEF Call, Places, Ops, Points
<1>3. /\ Enabled /\ pc[p] = Idle /\ isem.count <= 0 /\ isem' = WaitOn(isem, p)
      /\ pc' = [pc EXCEPT ![p] = q] /\ pc \in [Procs -> Places]
      /\ UNCHANGED <<ibuf, ihead, itail, icursor, stored, input, got, overrun, uncounted>>
      /\ UNCHANGED outVars /\ echoes' = echoes /\ kernel' = kernel
  BY <1>1 DEF NextcWait, echoVars, TtyInv, Driver
<1>4. \A ops : p \notin WaitFor(pc, ops) /\ p \notin WokenFor(pc, ops)
  BY <1>3 DEF Idle, WaitFor, WokenFor
<1>5. ASSUME NEW ops
      PROVE  /\ pc' \in [Procs -> Places]
             /\ WaitFor(pc', ops) = WaitFor(pc, ops) \cup (IF "nextc" \in ops THEN {p} ELSE {})
             /\ WokenFor(pc', ops) = WokenFor(pc, ops)
  <2>1. /\ pc' \in [Procs -> Places]
        /\ WaitFor(pc', ops) = (WaitFor(pc, ops) \ {p})
               \cup (IF q.op \in ops /\ q.at = "wait" THEN {p} ELSE {})
        /\ WokenFor(pc', ops) = (WokenFor(pc, ops) \ {p})
               \cup (IF q.op \in ops /\ q.at = "woken" THEN {p} ELSE {})
    BY <1>2, <1>3, GoesElsewhere
  <2>2. q.at # "woken" BY <1>2
  <2> QED BY <1>2, <1>4, <2>1, <2>2
<1>6. "nextc" \in Getting /\ "nextc" \notin Putting BY DEF Getting, Putting
<1>7. /\ pc' \in [Procs -> Places] /\ p \notin WaitFor(pc, Getting)
      /\ WaitFor(pc', Getting) = WaitFor(pc, Getting) \cup {p}
      /\ WokenFor(pc', Getting) = WokenFor(pc, Getting)
  BY <1>4, <1>5, <1>6
<1>8. WaitFor(pc', Putting) = WaitFor(pc, Putting) /\ WokenFor(pc', Putting) = WokenFor(pc, Putting)
  BY <1>5, <1>6
<1>9. InSide' BY <1>3, <1>7, WaitsForInput
<1>10. OutSide' BY <1>3, <1>8, OutSideStays DEF TtyInv, outVars
<1>11. Driver' BY <1>3, <1>7 DEF TtyInv, Driver, Enabled
<1> QED BY <1>9, <1>10, <1>11 DEF TtyInv

(* The pointers did not move, nor did the histories. *)
LEMMA RingStays ==
    ASSUME InSide, UNCHANGED <<ibuf, ihead, itail, icursor, stored, input, got, overrun, uncounted>>
    PROVE  InTypes' /\ (~overrun' => InputRing')
<1>1. InTypes' BY DEF InSide, InTypes
<1>2. ~overrun' => InputRing' BY DEF InSide, InputRing, InBuffer
<1> QED BY <1>1, <1>2

(* One that was made ready gives the token back it was given. *)
LEMMA NextcKeeps == \A p \in Procs : TtyInv /\ Nextc(p) => TtyInv'
<1> SUFFICES ASSUME NEW p \in Procs, TtyInv, Nextc(p) PROVE TtyInv' OBVIOUS
<1>1. /\ Enabled /\ pc[p].op = "nextc" /\ pc[p].at = "woken"
      /\ isem' = SignalnOn(isem, 1)
      /\ pc' = [Wake(pc, Released(isem, 1)) EXCEPT ![p] = Idle]
      /\ UNCHANGED <<ibuf, ihead, itail, icursor, stored, input, got, overrun, uncounted>>
      /\ UNCHANGED outVars /\ echoes' = echoes /\ kernel' = kernel
  BY DEF Nextc, Woken, echoVars
<1>2. PICK place, sem, mid, new, ops, A, n :
          /\ place = pc /\ sem = isem /\ ops = Getting /\ A = Released(isem, 1) /\ n = 1
          /\ mid = Wake(pc, Released(isem, 1)) /\ new = pc'
  OBVIOUS
<1>3. /\ Holds(sem, WaitFor(place, ops)) /\ IsFiniteSet(WokenFor(place, ops))
      /\ mid = Wake(place, A) /\ A = Released(sem, n) /\ place \in [Procs -> Places] /\ n \in Nat
  BY <1>2 DEF TtyInv, Driver, InSide, Serves
<1>4. mid \in [Procs -> Places] /\ Holds(SignalnOn(sem, n), WaitFor(mid, ops))
      /\ IsFiniteSet(WokenFor(mid, ops))
  BY ONLY <1>3, SignalServes
<1>5. Tokens(SignalnOn(sem, n)) + Cardinality(WokenFor(mid, ops))
          = Tokens(sem) + Cardinality(WokenFor(place, ops)) + n
  BY ONLY <1>3, SignalServes
<1>6. A \subseteq WaitFor(place, ops) BY ONLY <1>3, SignalServes
<1>7. WokenFor(mid, ops) = WokenFor(place, ops) \cup A
      /\ WaitFor(mid, ops) = WaitFor(place, ops) \ A
  BY ONLY <1>3, <1>6, PlaceWakes
<1>8. PICK q : q = Idle OBVIOUS
<1>9. q \in Places /\ q.at = "user" BY <1>8 DEF Idle, Places, Ops, Points
<1>10. new[p] = q /\ (\A o \in Procs : o # p => new[o] = mid[o]) /\ new \in [Procs -> Places]
  BY <1>1, <1>2, <1>4, <1>8, <1>9
<1>11. ASSUME NEW others
       PROVE  /\ WaitFor(new, others) = WaitFor(mid, others) \ {p}
              /\ WokenFor(new, others) = WokenFor(mid, others) \ {p}
  <2>1. WaitFor(new, others) = (WaitFor(mid, others) \ {p})
            \cup (IF q.op \in others /\ q.at = "wait" THEN {p} ELSE {})
    BY ONLY <1>4, <1>9, <1>10, p \in Procs, PlaceMoves
  <2>2. WokenFor(new, others) = (WokenFor(mid, others) \ {p})
            \cup (IF q.op \in others /\ q.at = "woken" THEN {p} ELSE {})
    BY ONLY <1>4, <1>9, <1>10, p \in Procs, PlaceMoves
  <2> QED BY <1>9, <2>1, <2>2
<1>12. p \in WokenFor(place, ops) /\ p \notin WaitFor(place, ops)
  BY <1>1, <1>2 DEF WokenFor, WaitFor, Getting
<1>13. WaitFor(new, ops) = WaitFor(mid, ops) /\ WokenFor(new, ops) = WokenFor(mid, ops) \ {p}
       /\ p \in WokenFor(mid, ops)
  BY <1>7, <1>11, <1>12
<1>14. PICK W : W = WokenFor(mid, ops) OBVIOUS
<1>15. IsFiniteSet(W \ {p}) /\ Cardinality(W \ {p}) = Cardinality(W) - 1 /\ Cardinality(W) \in Nat
  BY <1>4, <1>13, <1>14, FS_RemoveElement, FS_CardinalityType
<1>16. InSide BY DEF TtyInv
<1>17. Serves(isem, Getting)' BY <1>1, <1>2, <1>4, <1>13, <1>14, <1>15 DEF Serves
<1>18. InputCounted'
  <2>1. PICK t, w, u, v : /\ t = Tokens(sem) /\ w = Cardinality(WokenFor(place, ops))
                          /\ u = Tokens(SignalnOn(sem, n)) /\ v = Cardinality(WokenFor(new, ops))
    OBVIOUS
  <2>2. t \in Nat /\ w \in Nat BY <1>2, <1>16, <2>1, InLengths
  <2>3. u \in Nat BY <1>4, <2>1 DEF Tokens, Holds
  <2>4. u + v = t + w BY <1>2, <1>5, <1>13, <1>14, <1>15, <2>1, <2>2, <2>3
  <2>5. v \in Nat BY <1>13, <1>14, <1>15, <2>1, FS_CardinalityType
  <2>6. Len(got) + t + w = Len(input) - icursor - uncounted
    BY <1>2, <1>16, <2>1 DEF InSide, InputCounted
  <2>7. Len(got) \in Nat BY <1>16, InLengths
  <2>8. Len(got) + u + v = Len(input) - icursor - uncounted BY <2>2, <2>3, <2>4, <2>5, <2>6, <2>7
  <2>9. Tokens(isem') = u /\ Cardinality(WokenFor(pc', Getting)) = v BY <1>1, <1>2, <2>1
  <2> QED BY <1>1, <2>8, <2>9 DEF InputCounted, Tokens
<1>19. InSide' BY <1>1, <1>16, <1>17, <1>18, RingStays DEF InSide
<1>20. WaitFor(new, Putting) = WaitFor(place, Putting)
       /\ WokenFor(new, Putting) = WokenFor(place, Putting)
  <2>1. PICK others : others = Putting OBVIOUS
  <2>2. others \cap ops = {} BY <1>2, <2>1 DEF Putting, Getting
  <2>3. WaitFor(Wake(place, A), others) = WaitFor(place, others)
        /\ WokenFor(Wake(place, A), others) = WokenFor(place, others)
    BY ONLY <1>3, <1>6, <2>2, OthersSleep
  <2>4. p \notin WaitFor(place, Putting) /\ p \notin WokenFor(place, Putting)
    BY <1>1, <1>2 DEF WokenFor, WaitFor, Putting
  <2> QED BY <1>3, <1>11, <2>1, <2>3, <2>4
<1>21. OutSide' BY <1>1, <1>2, <1>20, OutSideStays DEF TtyInv, outVars
<1>22. Driver' BY <1>1, <1>2, <1>10 DEF TtyInv, Driver, Enabled
<1> QED BY <1>19, <1>21, <1>22 DEF TtyInv

(* A token is used up, by one that did not wait or by one it was given to. *)
LEMMA TokenUsed ==
    ASSUME NEW sem, NEW new, NEW P, NEW W, NEW p, Holds(sem, P), IsFiniteSet(W), p \notin P,
           \/ sem.count > 0 /\ new = Take(sem) /\ p \notin W
           \/ new = sem /\ p \in W
    PROVE  /\ Holds(new, P \ {p}) /\ IsFiniteSet(W \ {p}) /\ new.count <= sem.count
           /\ Tokens(new) \in Nat /\ Cardinality(W \ {p}) \in Nat
           /\ Tokens(sem) \in Nat /\ Cardinality(W) \in Nat
           /\ Tokens(new) + Cardinality(W \ {p}) + 1 = Tokens(sem) + Cardinality(W)
<1>1. P \ {p} = P OBVIOUS
<1>2. Tokens(sem) \in Nat /\ Cardinality(W) \in Nat /\ sem.count \in Int
  BY FS_CardinalityType DEF Tokens, Holds
<1>3. CASE sem.count > 0 /\ new = Take(sem) /\ p \notin W
  <2>1. Holds(Take(sem), P) /\ Tokens(Take(sem)) = Tokens(sem) - 1 BY <1>3, TakeHolds
  <2>2. W \ {p} = W BY <1>3
  <2>3. Tokens(new) \in Nat BY <1>3, <2>1 DEF Tokens, Holds
  <2>4. new.count <= sem.count
    <3>1. new.count = sem.count - 1 BY <1>3 DEF Take, Holds
    <3> QED BY <1>2, <3>1
  <2>5. Tokens(new) + Cardinality(W \ {p}) + 1 = Tokens(sem) + Cardinality(W)
    <3>1. PICK t, w, u : t = Tokens(sem) /\ w = Cardinality(W) /\ u = Tokens(new) OBVIOUS
    <3>2. u = t - 1 /\ t \in Nat /\ w \in Nat BY <1>2, <1>3, <2>1, <3>1
    <3>3. u + w + 1 = t + w BY <3>2
    <3> QED BY <2>2, <3>1, <3>3
  <2>6. Holds(new, P) BY <1>3, <2>1
  <2> QED BY <1>1, <1>2, <2>2, <2>3, <2>4, <2>5, <2>6
<1>4. CASE new = sem /\ p \in W
  <2>1. IsFiniteSet(W \ {p}) /\ Cardinality(W \ {p}) = Cardinality(W) - 1
    BY <1>4, FS_RemoveElement
  <2>2. Cardinality(W \ {p}) \in Nat BY <2>1, FS_CardinalityType
  <2>3. Tokens(new) + Cardinality(W \ {p}) + 1 = Tokens(sem) + Cardinality(W)
    <3>1. PICK t, w, v : t = Tokens(sem) /\ w = Cardinality(W) /\ v = Cardinality(W \ {p})
      OBVIOUS
    <3>2. v = w - 1 /\ t \in Nat /\ w \in Nat BY <1>2, <2>1, <3>1
    <3>3. t + v + 1 = t + w BY <3>2
    <3> QED BY <1>4, <3>1, <3>3
  <2>4. new.count <= sem.count BY <1>2, <1>4
  <2>5. Holds(new, P) BY <1>4
  <2> QED BY <1>1, <1>2, <1>4, <2>1, <2>2, <2>3, <2>4, <2>5
<1> QED BY <1>3, <1>4

(* The character at the head is the first that was not taken.              *)
LEMMA GetcInRing ==
    ASSUME InSide, ~overrun, InBuffer, Len(got) < Len(input),
           got' = Append(got, ibuf[ihead]), ihead' = Wrap(ihead + 1),
           UNCHANGED <<ibuf, itail, input>>
    PROVE  InputRing'
<1> DEFINE I == TY_IBUFLEN
<1>1. /\ I \in Nat \ {0} /\ got \in Seq(Nat) /\ input \in Seq(Nat)
      /\ ibuf \in [0 .. I - 1 -> Nat] /\ ihead \in 0 .. I - 1
  BY TtyAssumption DEF InSide, InTypes, InBuffer
<1>2. PICK g, l : g = Len(got) /\ l = Len(input) OBVIOUS
<1>3. /\ g \in Nat /\ l \in Nat /\ g < l /\ l - g <= I
      /\ \A i \in 1 .. g : got[i] = input[i]
      /\ ihead = g % I /\ itail = l % I
      /\ \A i \in g + 1 .. l : ibuf[(i - 1) % I] = input[i]
  BY <1>1, <1>2, LenProperties DEF InSide, InputRing
<1>4. ibuf[ihead] = input[g + 1]
  <2>1. g + 1 \in g + 1 .. l /\ (g + 1) - 1 = g BY <1>3
  <2> QED BY <1>3, <2>1
<1>5. ibuf[ihead] \in Nat BY <1>1
<1>6. /\ Len(got') = g + 1
      /\ \A i \in 1 .. g : got'[i] = got[i]
      /\ got'[g + 1] = ibuf[ihead]
  BY <1>1, <1>2, <1>5, AppendProperties
<1>7. \A i \in 1 .. g + 1 : got'[i] = input[i]
  <2>1. \A i \in 1 .. g + 1 : i \in 1 .. g \/ i = g + 1 BY <1>3
  <2> QED BY <1>3, <1>4, <1>6, <2>1
<1>8. ihead' = (g + 1) % I
  <2>1. (g + 1) % I = IF (g % I) + 1 >= I THEN 0 ELSE (g % I) + 1
    BY <1>1, <1>3, NextOnTheRing
  <2> QED BY <1>3, <2>1 DEF Wrap
<1>9. \A i \in (g + 1) + 1 .. l : i \in g + 1 .. l BY <1>3
<1>10. \A i \in (g + 1) + 1 .. l : ibuf[(i - 1) % I] = input[i] BY <1>3, <1>9
<1>11. l - (g + 1) <= I BY <1>1, <1>3
<1> QED BY <1>2, <1>3, <1>6, <1>7, <1>8, <1>10, <1>11 DEF InputRing

LEMMA GetcKeeps == \A p \in Procs : TtyInv /\ Getc(p) => TtyInv'
<1> SUFFICES ASSUME NEW p \in Procs, TtyInv, Getc(p) PROVE TtyInv' OBVIOUS
<1>1. PICK finished \in BOOLEAN, line \in {"no", "first", "rest"} : GoesOn(p, finished, line)
  BY DEF Getc
<1>2. /\ \/ InDriver(p, "get") /\ isem.count > 0 /\ isem' = Take(isem)
         \/ Woken(p, "get") /\ UNCHANGED isem
      /\ got' = Append(got, ibuf[ihead]) /\ ihead' = Wrap(ihead + 1)
      /\ UNCHANGED <<ibuf, itail, icursor, stored, input, overrun, uncounted>>
      /\ UNCHANGED outVars /\ echoes' = echoes
  BY DEF Getc, echoVars
<1>3. InSide /\ OutSide /\ pc \in [Procs -> Places] /\ echoes \in Nat
  BY DEF TtyInv, Driver
<1>4. InBuffer /\ pc[p].op = "get"
  <2>1. "get" \in Ops BY DEF Ops
  <2> QED BY <1>2, <2>1, InTheDriver
<1>5. pc' \in [Procs -> Places]
      /\ WaitFor(pc', Getting) = WaitFor(pc, Getting) \ {p}
      /\ WokenFor(pc', Getting) = WokenFor(pc, Getting) \ {p}
  BY <1>1, <1>3, GoneOn
<1>6. WaitFor(pc', Putting) = WaitFor(pc, Putting)
      /\ WokenFor(pc', Putting) = WokenFor(pc, Putting)
  <2>1. WaitFor(pc', Putting) = WaitFor(pc, Putting) \ {p}
        /\ WokenFor(pc', Putting) = WokenFor(pc, Putting) \ {p}
    BY <1>1, <1>3, GoneOn
  <2>2. p \notin WaitFor(pc, Putting) /\ p \notin WokenFor(pc, Putting)
    BY <1>4 DEF WaitFor, WokenFor, Putting
  <2> QED BY <2>1, <2>2
<1>7. PICK sem, new, P, W : /\ sem = isem /\ new = isem'
                            /\ P = WaitFor(pc, Getting) /\ W = WokenFor(pc, Getting)
  OBVIOUS
<1>8. /\ Holds(sem, P) /\ IsFiniteSet(W) /\ p \notin P
      /\ \/ sem.count > 0 /\ new = Take(sem) /\ p \notin W
         \/ new = sem /\ p \in W
  BY <1>2, <1>3, <1>4, <1>7 DEF InSide, Serves, InDriver, Woken, WaitFor, WokenFor, Getting
<1>9. Holds(new, P \ {p}) /\ IsFiniteSet(W \ {p}) BY ONLY <1>8, TokenUsed
<1>10. /\ Tokens(new) \in Nat /\ Cardinality(W \ {p}) \in Nat
       /\ Tokens(sem) \in Nat /\ Cardinality(W) \in Nat
       /\ Tokens(new) + Cardinality(W \ {p}) + 1 = Tokens(sem) + Cardinality(W)
  <2>1. Tokens(new) \in Nat /\ Cardinality(W \ {p}) \in Nat BY ONLY <1>8, TokenUsed
  <2>2. Tokens(sem) \in Nat /\ Cardinality(W) \in Nat BY ONLY <1>8, TokenUsed
  <2>3. Tokens(new) + Cardinality(W \ {p}) + 1 = Tokens(sem) + Cardinality(W)
    BY ONLY <1>8, TokenUsed
  <2> QED BY <2>1, <2>2, <2>3
<1>11. Len(got) < Len(input)
  <2>1. isem.count > 0 \/ WokenFor(pc, Getting) # {} BY <1>7, <1>8
  <2> QED BY <1>3, <2>1, InLengths
<1>12. PICK x : x = ibuf[ihead] OBVIOUS
<1>13. x \in Nat BY <1>3, <1>4, <1>12 DEF InSide, InTypes, InBuffer
<1>14. got' \in Seq(Nat) /\ Len(got') = Len(got) + 1
  BY <1>2, <1>3, <1>12, <1>13, AppendProperties DEF InSide, InTypes
<1>15. ihead' \in 0 .. TY_IBUFLEN - 1
  BY <1>2, <1>4, TtyAssumption DEF InBuffer, Wrap
<1>16. InTypes' BY <1>2, <1>3, <1>14, <1>15 DEF InSide, InTypes
<1>17. Serves(isem, Getting)' BY <1>5, <1>7, <1>9 DEF Serves
<1>18. InputCounted'
  <2>1. PICK t, w, u, v : /\ t = Tokens(sem) /\ w = Cardinality(W)
                          /\ u = Tokens(new) /\ v = Cardinality(W \ {p})
    OBVIOUS
  <2>2. Len(got) + t + w = Len(input) - icursor - uncounted
    BY <1>3, <1>7, <2>1 DEF InSide, InputCounted
  <2>3. t \in Nat /\ w \in Nat /\ u \in Nat /\ v \in Nat /\ u + v = t + w - 1
    BY <1>10, <2>1
  <2>4. Len(got) \in Nat BY <1>3, InLengths
  <2>5. (Len(got) + 1) + u + v = Len(input) - icursor - uncounted BY <2>2, <2>3, <2>4
  <2>6. Tokens(isem') = u /\ Cardinality(WokenFor(pc', Getting)) = v BY <1>5, <1>7, <2>1
  <2> QED BY <1>2, <1>14, <2>5, <2>6 DEF InputCounted, Tokens
<1>19. ~overrun' => InputRing' BY <1>2, <1>3, <1>4, <1>11, GetcInRing
<1>20. InSide' BY <1>16, <1>17, <1>18, <1>19 DEF InSide
<1>21. OutSide' BY <1>2, <1>3, <1>6, OutSideStays DEF outVars
<1>22. InBuffer' BY <1>2, <1>4, <1>15 DEF InBuffer
<1>23. Driver' BY <1>2, <1>3, <1>5, <1>22 DEF Driver
<1> QED BY <1>20, <1>21, <1>23 DEF TtyInv

LEMMA PutWaitKeeps == \A p \in Procs : TtyInv /\ PutWait(p) => TtyInv'
<1> SUFFICES ASSUME NEW p \in Procs, TtyInv, PutWait(p) PROVE TtyInv' OBVIOUS
<1>1. /\ InDriver(p, "put") /\ osem.count <= 0 /\ osem' = WaitOn(osem, p) /\ Waits(p)
      /\ UNCHANGED <<obuf, ohead, otail, written, sent, outrun>>
      /\ UNCHANGED inVars /\ echoes' = echoes
  BY DEF PutWait, echoVars
<1>2. InSide /\ OutSide /\ pc \in [Procs -> Places] /\ echoes \in Nat
  BY DEF TtyInv, Driver
<1>3. pc[p].op = "put" /\ pc[p].at = "driver" BY <1>1 DEF InDriver
<1>4. "put" \in Putting /\ "put" \notin Getting BY DEF Getting, Putting
<1>5. /\ pc' \in [Procs -> Places] /\ kernel' = NoProc
      /\ WaitFor(pc', Putting) = WaitFor(pc, Putting) \cup {p}
      /\ WokenFor(pc', Putting) = WokenFor(pc, Putting)
      /\ p \notin WaitFor(pc, Putting)
  BY <1>1, <1>2, <1>3, <1>4, Waited
<1>6. WaitFor(pc', Getting) = WaitFor(pc, Getting) /\ WokenFor(pc', Getting) = WokenFor(pc, Getting)
  BY ZenonT(30), <1>1, <1>2, <1>3, <1>4, Waited
<1>7. PICK sem, P : sem = osem /\ P = WaitFor(pc, Putting) OBVIOUS
<1>8. Holds(sem, P) /\ sem.count <= 0 /\ p \notin P
  BY <1>1, <1>2, <1>5, <1>7 DEF OutSide, Serves
<1>9. Holds(WaitOn(sem, p), P \cup {p}) /\ Tokens(WaitOn(sem, p)) = Tokens(sem)
  BY <1>8, WaitOnHolds
<1>10. Serves(osem, Putting)' BY <1>1, <1>2, <1>5, <1>7, <1>9 DEF OutSide, Serves
<1>11. osem'.count <= TY_OBUFLEN
  <2>1. osem'.count = osem.count - 1 BY <1>1 DEF WaitOn
  <2>2. osem.count \in Int /\ TY_OBUFLEN \in Nat BY <1>2, TtyAssumption DEF OutSide, Serves, Holds
  <2> QED BY <1>1, <2>1, <2>2
<1>12. OutTypes' BY <1>1, <1>2, <1>11 DEF OutSide, OutTypes
<1>13. OutputCounted'
  <2>1. Tokens(osem') = Tokens(osem) BY <1>1, <1>7, <1>9
  <2> QED BY <1>1, <1>2, <1>5, <2>1 DEF OutSide, OutputCounted, Tokens
<1>14. ~outrun' => OutputRing' BY <1>1, <1>2 DEF OutSide, OutputRing
<1>15. OutSide' BY <1>10, <1>12, <1>13, <1>14 DEF OutSide
<1>16. InSide' BY <1>1, <1>2, <1>6, InSideStays DEF inVars
<1>17. Driver' BY <1>1, <1>2, <1>5 DEF Driver
<1> QED BY <1>15, <1>16, <1>17 DEF TtyInv

(* The place at the tail holds no character that was not sent.             *)
LEMMA PutcInRing ==
    ASSUME OutSide, ~outrun, written - Len(sent) < TY_OBUFLEN,
           written' = written + 1, obuf' = [obuf EXCEPT ![otail] = written + 1],
           otail' = (otail + 1) % TY_OBUFLEN, UNCHANGED <<ohead, sent>>
    PROVE  OutputRing'
<1> DEFINE O == TY_OBUFLEN
<1>1. /\ O \in Nat \ {0} /\ sent \in Seq(Nat) /\ written \in Nat
      /\ obuf \in [0 .. O - 1 -> Nat] /\ otail \in 0 .. O - 1
  BY TtyAssumption DEF OutSide, OutTypes
<1>2. PICK l, w : l = Len(sent) /\ w = written OBVIOUS
<1>3. /\ l \in Nat /\ w \in Nat /\ l <= w /\ w - l < O
      /\ \A i \in 1 .. l : sent[i] = i
      /\ ohead = l % O /\ otail = w % O
      /\ \A i \in l + 1 .. w : obuf[(i - 1) % O] = i
  BY <1>1, <1>2, LenProperties DEF OutSide, OutputRing
<1>4. ASSUME NEW i \in l + 1 .. w + 1 PROVE obuf'[(i - 1) % O] = i
  <2>1. PICK j \in Nat : j = i - 1 BY <1>3
  <2>2. j % O \in 0 .. O - 1 /\ w % O \in 0 .. O - 1 BY <1>1, <1>3, Quotient
  <2>3. obuf' = [obuf EXCEPT ![w % O] = w + 1] BY <1>2, <1>3
  <2>4. CASE i = w + 1
    <3>1. j = w BY <1>3, <2>1, <2>4
    <3> QED BY <1>1, <2>1, <2>2, <2>3, <2>4, <3>1
  <2>5. CASE i # w + 1
    <3>1. i \in l + 1 .. w /\ j <= w /\ w - j < O /\ j # w
      <4>1. l \in Nat /\ w \in Nat /\ w - l < O /\ O \in Nat BY <1>1, <1>3
      <4>2. i \in Int /\ l + 1 <= i /\ i <= w BY <2>5, <4>1
      <4> QED BY <2>1, <4>1, <4>2
    <3>2. j % O # w % O BY <1>1, <1>3, <3>1, ApartInARound
    <3>3. obuf'[j % O] = obuf[j % O] BY <1>1, <2>2, <2>3, <3>2
    <3> QED BY <1>3, <2>1, <3>1, <3>3
  <2> QED BY <2>4, <2>5
<1>5. otail' = (w + 1) % O
  <2>1. (w + 1) % O = ((w % O) + 1) % O BY <1>1, <1>3, OnTheRing
  <2> QED BY <1>3, <2>1
<1>6. l <= w + 1 BY <1>3
<1> QED BY <1>2, <1>3, <1>4, <1>5, <1>6 DEF OutputRing

LEMMA PutcKeeps == \A p \in Procs : TtyInv /\ Putc(p) => TtyInv'
<1> SUFFICES ASSUME NEW p \in Procs, TtyInv, Putc(p) PROVE TtyInv' OBVIOUS
<1>1. /\ \/ InDriver(p, "put") /\ osem.count > 0 /\ osem' = Take(osem)
         \/ Woken(p, "put") /\ UNCHANGED osem
      /\ written' = written + 1 /\ obuf' = [obuf EXCEPT ![otail] = written + 1]
      /\ otail' = (otail + 1) % TY_OBUFLEN
      /\ GoesOn(p, FALSE, "no")
      /\ UNCHANGED inVars /\ UNCHANGED <<ohead, sent, outrun, echoes>>
  BY DEF Putc
<1>2. InSide /\ OutSide /\ pc \in [Procs -> Places] /\ echoes \in Nat
  BY DEF TtyInv, Driver
<1>3. InBuffer /\ pc[p].op = "put"
  <2>1. "put" \in Ops BY DEF Ops
  <2> QED BY <1>1, <2>1, InTheDriver
<1>4. FALSE \in BOOLEAN /\ "no" \in {"no", "first", "rest"} OBVIOUS
<1>5. pc' \in [Procs -> Places]
      /\ WaitFor(pc', Putting) = WaitFor(pc, Putting) \ {p}
      /\ WokenFor(pc', Putting) = WokenFor(pc, Putting) \ {p}
  BY <1>1, <1>2, <1>4, GoneOn
<1>6. WaitFor(pc', Getting) = WaitFor(pc, Getting)
      /\ WokenFor(pc', Getting) = WokenFor(pc, Getting)
  <2>1. WaitFor(pc', Getting) = WaitFor(pc, Getting) \ {p}
        /\ WokenFor(pc', Getting) = WokenFor(pc, Getting) \ {p}
    BY <1>1, <1>2, <1>4, GoneOn
  <2>2. p \notin WaitFor(pc, Getting) /\ p \notin WokenFor(pc, Getting)
    BY <1>3 DEF WaitFor, WokenFor, Getting
  <2> QED BY <2>1, <2>2
<1>7. PICK sem, new, P, W : /\ sem = osem /\ new = osem'
                            /\ P = WaitFor(pc, Putting) /\ W = WokenFor(pc, Putting)
  OBVIOUS
<1>8. /\ Holds(sem, P) /\ IsFiniteSet(W) /\ p \notin P
      /\ \/ sem.count > 0 /\ new = Take(sem) /\ p \notin W
         \/ new = sem /\ p \in W
  BY <1>1, <1>2, <1>3, <1>7 DEF OutSide, Serves, InDriver, Woken, WaitFor, WokenFor, Putting
<1>9. Holds(new, P \ {p}) /\ IsFiniteSet(W \ {p}) /\ new.count <= sem.count
  BY ONLY <1>8, TokenUsed
<1>10. /\ Tokens(new) \in Nat /\ Cardinality(W \ {p}) \in Nat
       /\ Tokens(sem) \in Nat /\ Cardinality(W) \in Nat
       /\ Tokens(new) + Cardinality(W \ {p}) + 1 = Tokens(sem) + Cardinality(W)
  <2>1. Tokens(new) \in Nat /\ Cardinality(W \ {p}) \in Nat BY ONLY <1>8, TokenUsed
  <2>2. Tokens(sem) \in Nat /\ Cardinality(W) \in Nat BY ONLY <1>8, TokenUsed
  <2>3. Tokens(new) + Cardinality(W \ {p}) + 1 = Tokens(sem) + Cardinality(W)
    BY ONLY <1>8, TokenUsed
  <2> QED BY <2>1, <2>2, <2>3
<1>11. written - Len(sent) < TY_OBUFLEN
  <2>1. osem.count > 0 \/ WokenFor(pc, Putting) # {} BY <1>7, <1>8
  <2> QED BY <1>2, <2>1, OutLengths
<1>12. OutTypes'
  <2>1. /\ TY_OBUFLEN \in Nat \ {0} /\ otail \in Nat /\ written \in Nat
        /\ obuf \in [0 .. TY_OBUFLEN - 1 -> Nat]
    BY <1>2, TtyAssumption DEF OutSide, OutTypes
  <2>2. otail' \in 0 .. TY_OBUFLEN - 1
    <3>1. PICK x \in Nat : x = otail + 1 BY <2>1
    <3> QED BY <1>1, <2>1, <3>1, Quotient
  <2>3. obuf' \in [0 .. TY_OBUFLEN - 1 -> Nat] /\ written' \in Nat
    <3>1. PICK x \in Nat : x = written + 1 BY <2>1
    <3>2. obuf' = [obuf EXCEPT ![otail] = x] /\ written' = x BY <1>1, <3>1
    <3>3. [obuf EXCEPT ![otail] = x] \in [0 .. TY_OBUFLEN - 1 -> Nat] BY ONLY <2>1, x \in Nat
    <3> QED BY <3>2, <3>3
  <2>4. osem'.count <= TY_OBUFLEN
    <3>1. osem.count \in Int /\ osem'.count \in Int /\ osem.count <= TY_OBUFLEN
      BY <1>2, <1>7, <1>9 DEF OutSide, OutTypes, Serves, Holds
    <3> QED BY <1>7, <1>9, <2>1, <3>1
  <2> QED BY <1>1, <1>2, <2>2, <2>3, <2>4 DEF OutSide, OutTypes
<1>13. Serves(osem, Putting)' BY <1>5, <1>7, <1>9 DEF Serves
<1>14. OutputCounted'
  <2>1. PICK t, w, u, v : /\ t = Tokens(sem) /\ w = Cardinality(W)
                          /\ u = Tokens(new) /\ v = Cardinality(W \ {p})
    OBVIOUS
  <2>2. written - Len(sent) + t + w = TY_OBUFLEN BY <1>2, <1>7, <2>1 DEF OutSide, OutputCounted
  <2>3. t \in Nat /\ w \in Nat /\ u \in Nat /\ v \in Nat /\ u + v + 1 = t + w
    BY <1>10, <2>1
  <2>4. Len(sent) \in Nat /\ written \in Nat BY <1>2, OutLengths
  <2>5. (written + 1) - Len(sent) + u + v = TY_OBUFLEN BY <2>2, <2>3, <2>4
  <2>6. Tokens(osem') = u /\ Cardinality(WokenFor(pc', Putting)) = v BY <1>5, <1>7, <2>1
  <2> QED BY <1>1, <2>5, <2>6 DEF OutputCounted, Tokens
<1>15. ~outrun' => OutputRing' BY <1>1, <1>2, <1>11, PutcInRing
<1>16. OutSide' BY <1>12, <1>13, <1>14, <1>15 DEF OutSide
<1>17. InSide' BY <1>1, <1>2, <1>6, InSideStays DEF inVars
<1>18. Driver' BY <1>1, <1>2, <1>3, <1>5 DEF Driver, InBuffer, inVars
<1> QED BY <1>16, <1>17, <1>18 DEF TtyInv

LEMMA TtyStep == TtyInv /\ [TtyNext]_vars => TtyInv'
<1> SUFFICES ASSUME TtyInv, [TtyNext]_vars PROVE TtyInv' OBVIOUS
<1>1. CASE InterIn BY <1>1, InterInKeeps
<1>2. CASE InterOut BY <1>2, InterOutKeeps
<1>3. CASE TtyCall
  <2>1. CASE \E p \in Procs, count \in Counts : Read(p, count) \/ Write(p, count)
    BY <2>1, ReadKeeps
  <2>2. CASE \E p \in Procs : \/ GetWait(p) \/ Getc(p)
                              \/ PutWait(p) \/ Putc(p)
                              \/ NextcWait(p) \/ Nextc(p)
    BY <2>2, GetWaitKeeps, GetcKeeps, PutWaitKeeps, PutcKeeps, NextcWaitKeeps, NextcKeeps
  <2>3. CASE SetModes
    <3>1. UNCHANGED <<inVars, outVars, pc>> /\ kernel' = kernel /\ echoes' = echoes
      BY <2>3 DEF SetModes, echoVars
    <3>2. echoes' \in Nat BY <3>1 DEF TtyInv, Driver
    <3> QED BY <3>1, <3>2, Untouched
  <2> QED BY <1>3, <2>1, <2>2, <2>3 DEF TtyCall
<1>4. CASE UNCHANGED vars
  <2>1. UNCHANGED <<inVars, outVars, pc>> /\ kernel' = kernel /\ echoes' = echoes
    BY <1>4 DEF vars, echoVars
  <2>2. echoes' \in Nat BY <2>1 DEF TtyInv, Driver
  <2> QED BY <2>1, <2>2, Untouched
<1> QED BY <1>1, <1>2, <1>3, <1>4 DEF TtyNext

LEMMA TtyInvHolds == TtySpec => []TtyInv
<1> QED BY TtyInitInv, TtyStep, PTL DEF TtySpec
----------------------------------------------------------------------------
(* The input semaphore hands out one token for each character that may be  *)
(* read, whatever was erased from its line: ttyInter_in() and TC_NEXTC     *)
(* give out as many as ttyGetc() uses up, for any rings, keys and readers. *)
THEOREM TokensAreCharacters == TtySpec => []InputTokens
<1>1. TtyInv => InputTokens
  BY DEF TtyInv, InSide, InputCounted, InputTokens, OnTheirWay, WokenFor, Getting
<1> QED BY <1>1, TtyInvHolds, PTL

(* A place in the output ring is free, taken or promised to a writer that  *)
(* was made ready, whatever ttyInter_out() sends and whoever writes.       *)
THEOREM PlacesAreCounted == TtySpec => []OutputTokens
<1>1. TtyInv => OutputTokens
  BY DEF TtyInv, OutSide, OutputCounted, OutputTokens, OnTheirWay, WokenFor, Putting
<1> QED BY <1>1, TtyInvHolds, PTL

(* Until a ring is overrun, ttyGetc() returns what ttyInter_in() stored    *)
(* and did not take back, and ttyInter_out() sends what ttyPutc() wrote:   *)
(* each character once, and in order.                                      *)
THEOREM CharactersComeInOrder == TtySpec => []CharactersInOrder
<1>1. TtyInv => CharactersInOrder
  <2> SUFFICES ASSUME TtyInv PROVE CharactersInOrder OBVIOUS
  <2>1. /\ InSide /\ OutSide /\ got \in Seq(Nat) /\ input \in Seq(Nat) /\ sent \in Seq(Nat)
    BY DEF TtyInv, InSide, OutSide, InTypes, OutTypes
  <2>2. ASSUME ~overrun PROVE IsPrefix(got, input)
    <3>1. Len(got) <= Len(input) /\ Len(got) \in Nat /\ Len(input) \in Nat
      BY <2>1, InLengths
    <3>2. \A i \in 1 .. Len(got) : got[i] = input[i] BY <2>1, <2>2 DEF InSide, InputRing
    <3> QED BY <2>1, <3>1, <3>2 DEF IsPrefix
  <2>3. ASSUME ~outrun PROVE \A i \in DOMAIN sent : sent[i] = i
    BY <2>1, <2>3, LenProperties DEF OutSide, OutputRing
  <2> QED BY <2>2, <2>3 DEF CharactersInOrder
<1> QED BY <1>1, TtyInvHolds, PTL
=============================================================================
