-------------------------- MODULE XinuQueueProofs --------------------------
(***************************************************************************)
(* What the queue operations of XinuQueue do to the SET of processes on a  *)
(* queue, and those of SemValue to the processes that wait for a           *)
(* semaphore: the facts that the proofs about the components cite.         *)
(***************************************************************************)
EXTENDS XinuQueue, SemValue, FiniteSetTheorems, SequenceTheorems, WellFoundedInduction, TLAPS

(* No process is twice on q. *)
NoDup(q) == \A i, j \in DOMAIN q : q[i] = q[j] => i = j

(* q lists the processes of P, each exactly once. *)
Lists(q, P) == q \in Seq(P) /\ NoDup(q) /\ \A p \in P : \E i \in DOMAIN q : q[i] = p

(* The order of the natural numbers as a relation. *)
LessThan == {ss \in Nat \X Nat : ss[1] < ss[2]}

(* A nonempty set of natural numbers has a least element. *)
LEMMA LeastExists ==
    ASSUME NEW S, S \subseteq Nat, S # {}
    PROVE  Least(S) \in S /\ \A x \in S : Least(S) <= x
<1>1. IsWellFoundedOn(LessThan, Nat)
  BY NatLessThanWellFounded, Zenon DEF OpToRel, LessThan
<1>2. \E x \in S : \A y \in S : ~(<<y, x>> \in LessThan)
  BY <1>1, WFMin, Zenon
<1>3. \A x, y \in S : ~(<<y, x>> \in LessThan) => x <= y
  BY DEF LessThan
<1>4. \E x \in S : \A y \in S : x <= y
  BY <1>2, <1>3
<1> QED BY <1>4 DEF Least

(* An empty queue lists nobody, and only an empty queue does. *)
LEMMA EmptyLists ==
    ASSUME NEW P, NEW q, Lists(q, P)
    PROVE  q = <<>> <=> P = {}
<1>1. q \in Seq(P) BY DEF Lists
<1>2. DOMAIN q = 1 .. Len(q) /\ Len(q) \in Nat /\ q \in [1 .. Len(q) -> P] BY <1>1, LenProperties
<1>3. ASSUME q = <<>> PROVE P = {}
  BY <1>3, <1>2 DEF Lists
<1>4. ASSUME P = {} PROVE q = <<>>
  BY <1>1, <1>2, <1>4
<1> QED BY <1>3, <1>4

(* InsertAt, element by element. *)
LEMMA InsertAtElements ==
    ASSUME NEW P, NEW q \in Seq(P), NEW p \in P, NEW pos \in 1 .. Len(q) + 1
    PROVE  /\ InsertAt(q, pos, p) \in Seq(P)
           /\ Len(InsertAt(q, pos, p)) = Len(q) + 1
           /\ \A i \in 1 .. Len(q) + 1 :
                  InsertAt(q, pos, p)[i] = IF i < pos THEN q[i]
                                           ELSE IF i = pos THEN p ELSE q[i - 1]
<1> DEFINE a == SubSeq(q, 1, pos - 1)
           b == SubSeq(q, pos, Len(q))
           c == a \o <<p>>
<1>1. Len(q) \in Nat /\ \A i \in 1 .. Len(q) : q[i] \in P
  BY LenProperties
<1>2. a \in Seq(P) /\ Len(a) = pos - 1 /\ \A i \in 1 .. pos - 1 : a[i] = q[i]
  <2>1. \A i \in 1 .. pos - 1 : q[i] \in P BY <1>1
  <2>2. 1 \in Int /\ pos - 1 \in Int BY <1>1
  <2> QED BY <2>1, <2>2, <1>1, SubSeqProperties
<1>3. /\ b \in Seq(P) /\ Len(b) = Len(q) - pos + 1
      /\ \A i \in 1 .. Len(q) - pos + 1 : b[i] = q[pos + i - 1]
  <2>1. \A i \in pos .. Len(q) : q[i] \in P BY <1>1
  <2>2. pos \in Int /\ Len(q) \in Int BY <1>1
  <2> QED BY <2>1, <2>2, <1>1, SubSeqProperties
<1>4. /\ c \in Seq(P) /\ Len(c) = pos
      /\ \A i \in 1 .. pos : c[i] = IF i < pos THEN q[i] ELSE p
  <2>1. <<p>> \in Seq(P) /\ Len(<<p>>) = 1 /\ <<p>>[1] = p OBVIOUS
  <2> HIDE DEF a
  <2>2. /\ c \in Seq(P) /\ Len(c) = Len(a) + 1
        /\ \A i \in 1 .. Len(a) + 1 : c[i] = IF i <= Len(a) THEN a[i] ELSE <<p>>[i - Len(a)]
    BY <1>2, <2>1, ConcatProperties
  <2>3. Len(a) = pos - 1 /\ Len(a) + 1 = pos /\ pos \in Nat BY <1>2, <1>1
  <2>4. ASSUME NEW i \in 1 .. pos PROVE c[i] = IF i < pos THEN q[i] ELSE p
    <3>1. c[i] = IF i <= Len(a) THEN a[i] ELSE <<p>>[i - Len(a)] BY <2>2, <2>3
    <3>2. CASE i < pos BY <3>1, <3>2, <2>3, <1>2
    <3>3. CASE i = pos
      <4>1. i > Len(a) /\ i - Len(a) = 1 BY <3>3, <2>3
      <4>2. c[i] = <<p>>[1] BY <4>1, <3>1, <2>3
      <4> QED BY <3>3, <4>2, <2>1, <2>3
    <3> QED BY <3>2, <3>3, <2>3
  <2> QED BY <2>2, <2>3, <2>4
<1>5. InsertAt(q, pos, p) = c \o b BY DEF InsertAt
<1> HIDE DEF a, b, c
<1>6. /\ c \o b \in Seq(P) /\ Len(c \o b) = Len(c) + Len(b)
      /\ \A i \in 1 .. Len(c) + Len(b) : (c \o b)[i] = IF i <= Len(c) THEN c[i] ELSE b[i - Len(c)]
  BY <1>3, <1>4, ConcatProperties
<1>7. Len(c) + Len(b) = Len(q) + 1 BY <1>1, <1>3, <1>4
<1>8. ASSUME NEW i \in 1 .. Len(q) + 1
      PROVE (c \o b)[i] = IF i < pos THEN q[i] ELSE IF i = pos THEN p ELSE q[i - 1]
  <2>1. CASE i <= pos BY <2>1, <1>4, <1>6, <1>7
  <2>2. CASE i > pos
    <3>1. (c \o b)[i] = b[i - pos] BY <2>2, <1>4, <1>6, <1>7
    <3>2. i - pos \in 1 .. Len(q) - pos + 1 /\ pos + (i - pos) - 1 = i - 1 BY <2>2, <1>1
    <3> QED BY SMTT(30), <2>2, <3>1, <3>2, <1>3
  <2>3. i <= pos \/ i > pos BY <1>1
  <2> QED BY <2>1, <2>2, <2>3
<1> QED BY <1>5, <1>6, <1>7, <1>8

(* What is put into a queue that it is not on is then on it once. *)
LEMMA InsertAtLists ==
    ASSUME NEW P, NEW q, Lists(q, P), NEW p, p \notin P, NEW pos \in 1 .. Len(q) + 1
    PROVE  Lists(InsertAt(q, pos, p), P \cup {p})
<1> DEFINE T == P \cup {p}
           r == InsertAt(q, pos, p)
<1>1. q \in Seq(P) /\ q \in Seq(T) /\ p \in T
  <2>1. P \subseteq T OBVIOUS
  <2> QED BY <2>1, SeqMonotonic DEF Lists
<1>2. Len(q) \in Nat /\ DOMAIN q = 1 .. Len(q) /\ \A i \in 1 .. Len(q) : q[i] \in P
  BY <1>1, LenProperties
<1>3. /\ r \in Seq(T) /\ Len(r) = Len(q) + 1
      /\ \A i \in 1 .. Len(q) + 1 : r[i] = IF i < pos THEN q[i] ELSE IF i = pos THEN p ELSE q[i - 1]
  <2>1. q \in Seq(T) /\ p \in T /\ pos \in 1 .. Len(q) + 1 BY <1>1
  <2> HIDE DEF T
  <2>2. InsertAt(q, pos, p) \in Seq(T) BY <2>1, InsertAtElements
  <2>3. Len(InsertAt(q, pos, p)) = Len(q) + 1 BY <2>1, InsertAtElements
  <2>4. \A i \in 1 .. Len(q) + 1 :
            InsertAt(q, pos, p)[i] = IF i < pos THEN q[i] ELSE IF i = pos THEN p ELSE q[i - 1]
    BY <2>1, InsertAtElements
  <2> QED BY <2>2, <2>3, <2>4
<1> HIDE DEF r
<1>4. DOMAIN r = 1 .. Len(q) + 1 BY <1>3
<1>5. \A i, j \in 1 .. Len(q) : q[i] = q[j] => i = j BY <1>2 DEF Lists, NoDup
<1>6. NoDup(r)
  <2> SUFFICES ASSUME NEW i \in 1 .. Len(q) + 1, NEW j \in 1 .. Len(q) + 1, r[i] = r[j]
               PROVE  i = j
    BY <1>4 DEF NoDup
  <2>1. \A k \in 1 .. Len(q) + 1 : k < pos => k \in 1 .. Len(q) BY <1>2
  <2>2. \A k \in 1 .. Len(q) + 1 : k > pos => k - 1 \in 1 .. Len(q) BY <1>2
  <2>3. CASE i < pos /\ j < pos BY <2>3, <2>1, <1>3, <1>5
  <2>4. CASE i > pos /\ j > pos
    <3>1. q[i - 1] = q[j - 1] BY <2>4, <1>3
    <3>2. i - 1 = j - 1 BY <3>1, <2>2, <2>4, <1>5
    <3> QED BY <3>2
  <2>5. CASE i < pos /\ j > pos
    <3>1. q[i] = q[j - 1] BY <2>5, <1>3
    <3>2. i = j - 1 BY <3>1, <2>1, <2>2, <2>5, <1>5
    <3> QED BY <3>2, <2>5
  <2>6. CASE i > pos /\ j < pos
    <3>1. q[j] = q[i - 1] BY <2>6, <1>3
    <3>2. j = i - 1 BY <3>1, <2>1, <2>2, <2>6, <1>5
    <3> QED BY <3>2, <2>6
  <2>7. CASE i = pos \/ j = pos
    <3>1. \A k \in 1 .. Len(q) + 1 : k # pos => r[k] # p
      BY <2>1, <2>2, <1>2, <1>3
    <3>2. r[pos] = p BY <1>3
    <3> QED BY <2>7, <3>1, <3>2
  <2> QED BY <2>3, <2>4, <2>5, <2>6, <2>7
<1>7. ASSUME NEW x \in T PROVE \E i \in DOMAIN r : r[i] = x
  <2>1. CASE x = p BY <2>1, <1>3, <1>4
  <2>2. CASE x \in P
    <3>1. PICK k \in 1 .. Len(q) : q[k] = x BY <2>2, <1>2 DEF Lists
    <3>2. CASE k < pos BY <3>1, <3>2, <1>2, <1>3, <1>4
    <3>3. CASE k >= pos
      <4>1. k + 1 \in 1 .. Len(q) + 1 /\ k + 1 > pos /\ (k + 1) - 1 = k BY <3>3, <1>2
      <4> QED BY <4>1, <3>1, <1>3, <1>4
    <3> QED BY <3>2, <3>3
  <2> QED BY <2>1, <2>2
<1> QED BY <1>3, <1>6, <1>7 DEF Lists, r

(* RemoveAt, element by element. *)
LEMMA RemoveAtElements ==
    ASSUME NEW P, NEW q \in Seq(P), NEW pos \in 1 .. Len(q)
    PROVE  /\ RemoveAt(q, pos) \in Seq(P)
           /\ Len(RemoveAt(q, pos)) = Len(q) - 1
           /\ \A i \in 1 .. Len(q) - 1 :
                  RemoveAt(q, pos)[i] = IF i < pos THEN q[i] ELSE q[i + 1]
<1> DEFINE a == SubSeq(q, 1, pos - 1)
           b == SubSeq(q, pos + 1, Len(q))
<1>1. Len(q) \in Nat /\ \A i \in 1 .. Len(q) : q[i] \in P
  BY LenProperties
<1>2. a \in Seq(P) /\ Len(a) = pos - 1 /\ \A i \in 1 .. pos - 1 : a[i] = q[i]
  <2>1. \A i \in 1 .. pos - 1 : q[i] \in P BY <1>1
  <2>2. 1 \in Int /\ pos - 1 \in Int BY <1>1
  <2> QED BY <2>1, <2>2, <1>1, SubSeqProperties
<1>3. /\ b \in Seq(P) /\ Len(b) = Len(q) - pos
      /\ \A i \in 1 .. Len(q) - pos : b[i] = q[pos + i]
  <2>1. \A i \in pos + 1 .. Len(q) : q[i] \in P BY <1>1
  <2>2. pos + 1 \in Int /\ Len(q) \in Int BY <1>1
  <2> QED BY <2>1, <2>2, <1>1, SubSeqProperties
<1>4. RemoveAt(q, pos) = a \o b BY DEF RemoveAt
<1> HIDE DEF a, b
<1>5. /\ a \o b \in Seq(P) /\ Len(a \o b) = Len(a) + Len(b)
      /\ \A i \in 1 .. Len(a) + Len(b) : (a \o b)[i] = IF i <= Len(a) THEN a[i] ELSE b[i - Len(a)]
  BY <1>2, <1>3, ConcatProperties
<1>6. Len(a) + Len(b) = Len(q) - 1 BY <1>1, <1>2, <1>3
<1>7. ASSUME NEW i \in 1 .. Len(q) - 1
      PROVE  (a \o b)[i] = IF i < pos THEN q[i] ELSE q[i + 1]
  <2>1. CASE i < pos BY <2>1, <1>1, <1>2, <1>5, <1>6
  <2>2. CASE i >= pos
    <3>1. (a \o b)[i] = b[i - (pos - 1)] BY <2>2, <1>1, <1>2, <1>5, <1>6
    <3>2. i - (pos - 1) \in 1 .. Len(q) - pos /\ pos + (i - (pos - 1)) = i + 1 BY <2>2, <1>1
    <3> QED BY <2>2, <3>1, <3>2, <1>3
  <2>3. i < pos \/ i >= pos BY <1>1
  <2> QED BY <2>1, <2>2, <2>3
<1> QED BY <1>4, <1>5, <1>6, <1>7

(* What is taken out of a queue is no longer on it, and nothing else leaves. *)
LEMMA RemoveAtLists ==
    ASSUME NEW P, NEW q, Lists(q, P), NEW pos \in 1 .. Len(q)
    PROVE  Lists(RemoveAt(q, pos), P \ {q[pos]})
<1> DEFINE T == P \ {q[pos]}
           r == RemoveAt(q, pos)
<1>1. q \in Seq(P) BY DEF Lists
<1>2. Len(q) \in Nat /\ DOMAIN q = 1 .. Len(q) /\ \A i \in 1 .. Len(q) : q[i] \in P
  BY <1>1, LenProperties
<1>3. /\ r \in Seq(P) /\ Len(r) = Len(q) - 1
      /\ \A i \in 1 .. Len(q) - 1 : r[i] = IF i < pos THEN q[i] ELSE q[i + 1]
  BY <1>1, RemoveAtElements
<1> HIDE DEF r
<1>4. DOMAIN r = 1 .. Len(q) - 1 BY <1>3
<1>5. \A i, j \in 1 .. Len(q) : q[i] = q[j] => i = j BY <1>2 DEF Lists, NoDup
<1> DEFINE from(i) == IF i < pos THEN i ELSE i + 1
<1>6. \A i \in 1 .. Len(q) - 1 : from(i) \in 1 .. Len(q) /\ from(i) # pos /\ r[i] = q[from(i)]
  BY <1>2, <1>3
<1>7. \A i, j \in 1 .. Len(q) - 1 : from(i) = from(j) => i = j
  BY <1>2
<1>8. \A k \in 1 .. Len(q) : k # pos => \E i \in 1 .. Len(q) - 1 : from(i) = k
  <2> SUFFICES ASSUME NEW k \in 1 .. Len(q), k # pos
               PROVE  \E i \in 1 .. Len(q) - 1 : from(i) = k
    OBVIOUS
  <2>1. CASE k < pos BY <2>1, <1>2
  <2>2. CASE k > pos
    <3>1. k - 1 \in 1 .. Len(q) - 1 /\ from(k - 1) = k BY <2>2, <1>2
    <3> QED BY <3>1
  <2>3. k < pos \/ k > pos BY <1>2
  <2> QED BY <2>1, <2>2, <2>3
<1> HIDE DEF from
<1>9. NoDup(r) BY <1>4, <1>5, <1>6, <1>7 DEF NoDup
<1>10. r \in Seq(T)
  <2>1. \A i \in 1 .. Len(r) : r[i] \in T BY <1>2, <1>3, <1>5, <1>6
  <2>2. Len(r) \in Nat /\ DOMAIN r = 1 .. Len(r) /\ r \in [1 .. Len(r) -> P] BY <1>3, LenProperties
  <2>3. r \in [1 .. Len(r) -> T] BY <2>1, <2>2
  <2> QED BY <2>2, <2>3, SeqDef
<1>11. ASSUME NEW x \in T PROVE \E i \in DOMAIN r : r[i] = x
  <2>1. PICK k \in 1 .. Len(q) : q[k] = x BY <1>2 DEF Lists
  <2>2. k # pos BY <2>1
  <2>3. PICK i \in 1 .. Len(q) - 1 : from(i) = k BY <2>2, <1>8
  <2> QED BY <2>1, <2>3, <1>4, <1>6
<1> QED BY <1>9, <1>10, <1>11 DEF Lists, r

(* getitem() *)
LEMMA GetitemLists ==
    ASSUME NEW P, NEW q, Lists(q, P), NEW p \in P
    PROVE  /\ Lists(Getitem(q, p), P \ {p})
           /\ Len(Getitem(q, p)) = Len(q) - 1
<1> DEFINE pos == CHOOSE i \in DOMAIN q : q[i] = p
<1>1. q \in Seq(P) BY DEF Lists
<1>2. pos \in DOMAIN q /\ q[pos] = p BY DEF Lists
<1>3. pos \in 1 .. Len(q) BY <1>1, <1>2, LenProperties
<1>4. Getitem(q, p) = RemoveAt(q, pos) BY DEF Getitem
<1> HIDE DEF pos
<1> QED BY <1>1, <1>2, <1>3, <1>4, RemoveAtLists, RemoveAtElements

(* dequeue() *)
LEMMA TailLists ==
    ASSUME NEW P, NEW q, Lists(q, P), q # <<>>
    PROVE  /\ Head(q) \in P
           /\ Lists(Tail(q), P \ {Head(q)})
           /\ Len(Tail(q)) = Len(q) - 1
<1>1. q \in Seq(P) BY DEF Lists
<1>2. Len(q) \in Nat \ {0} BY <1>1, EmptySeq
<1>3. Head(q) = q[1] /\ Head(q) \in P BY <1>1, HeadTailProperties
<1>4. Tail(q) \in Seq(P) /\ Len(Tail(q)) = Len(q) - 1 /\ \A i \in 1 .. Len(q) - 1 : Tail(q)[i] = q[i + 1]
  BY <1>1, HeadTailProperties
<1>5. 1 \in 1 .. Len(q) BY <1>2
<1>6. /\ RemoveAt(q, 1) \in Seq(P) /\ Len(RemoveAt(q, 1)) = Len(q) - 1
      /\ \A i \in 1 .. Len(q) - 1 : RemoveAt(q, 1)[i] = q[i + 1]
  BY <1>1, <1>2, <1>5, RemoveAtElements
<1>7. Tail(q) = RemoveAt(q, 1) BY <1>4, <1>6, SeqEqual
<1>8. Lists(RemoveAt(q, 1), P \ {q[1]}) BY <1>5, RemoveAtLists
<1> QED BY <1>3, <1>4, <1>7, <1>8, Zenon

(* enqueue() *)
LEMMA AppendLists ==
    ASSUME NEW P, NEW q, Lists(q, P), NEW p, p \notin P
    PROVE  /\ Lists(Append(q, p), P \cup {p})
           /\ Len(Append(q, p)) = Len(q) + 1
<1> DEFINE T == P \cup {p}
           n == Len(q) + 1
           r == InsertAt(q, n, p)
<1>1. q \in Seq(T) /\ p \in T
  <2>1. P \subseteq T OBVIOUS
  <2> QED BY <2>1, SeqMonotonic DEF Lists
<1>2. Len(q) \in Nat /\ n \in 1 .. Len(q) + 1 BY <1>1, LenProperties
<1> HIDE DEF T, n
<1>3. /\ r \in Seq(T) /\ Len(r) = Len(q) + 1
      /\ \A i \in 1 .. Len(q) + 1 : r[i] = IF i < n THEN q[i] ELSE IF i = n THEN p ELSE q[i - 1]
  BY <1>1, <1>2, InsertAtElements
<1>4. Append(q, p) \in Seq(T) /\ Len(Append(q, p)) = Len(q) + 1
  BY <1>1
<1>5. \A i \in 1 .. Len(q) + 1 : Append(q, p)[i] = r[i]
  BY <1>1, <1>2, <1>3 DEF n
<1>6. Append(q, p) = r
  <2> HIDE DEF r
  <2> QED BY <1>3, <1>4, <1>5, SeqEqual
<1> QED BY <1>2, <1>4, <1>6, InsertAtLists DEF T

(* insert() *)
LEMMA InsertLists ==
    ASSUME NEW P, NEW q, Lists(q, P), NEW p, p \notin P, NEW keys, NEW key
    PROVE  Lists(Insert(q, keys, p, key), P \cup {p})
<1> DEFINE S == {i \in 1 .. Len(q) : keys[q[i]] < key} \cup {Len(q) + 1}
<1>1. Len(q) \in Nat BY LenProperties DEF Lists
<1>2. S \subseteq 1 .. Len(q) + 1 /\ S \subseteq Nat /\ S # {} BY <1>1
<1>3. InsertPos(q, keys, key) \in 1 .. Len(q) + 1
  <2> HIDE DEF S
  <2>1. Least(S) \in S BY <1>2, LeastExists
  <2> QED BY <2>1, <1>2 DEF InsertPos, S
<1> QED BY <1>3, InsertAtLists DEF Insert

(* Where insertd() stops is a place of the list, or the end of it. *)
LEMMA InsertdPosIn ==
    ASSUME NEW P, NEW q \in Seq(P), NEW keys, NEW delay
    PROVE  InsertdPos(q, keys, delay) \in 1 .. Len(q) + 1
<1> DEFINE due == DueAfter(q, keys)
           S == {i \in 1 .. Len(q) : due[i] > delay} \cup {Len(q) + 1}
<1>1. Len(q) \in Nat BY LenProperties
<1>2. S \subseteq 1 .. Len(q) + 1 /\ S \subseteq Nat /\ S # {} BY <1>1
<1>3. InsertdPos(q, keys, delay) = Least(S) BY DEF InsertdPos
<1> HIDE DEF S
<1>4. Least(S) \in S BY <1>2, LeastExists
<1> QED BY <1>2, <1>3, <1>4

(* insertd() *)
LEMMA InsertdLists ==
    ASSUME NEW P, NEW q, Lists(q, P), NEW p, p \notin P, NEW keys, NEW delay
    PROVE  Lists(Insertd(q, keys, p, delay), P \cup {p})
<1>1. InsertdPos(q, keys, delay) \in 1 .. Len(q) + 1
  BY InsertdPosIn DEF Lists
<1> QED BY <1>1, InsertAtLists DEF Insertd

----------------------------------------------------------------------------
(***************************************************************************)
(* The order of a queue: no process stands behind one of lower rank.       *)
(***************************************************************************)
Sorted(q, rank) == \A i, j \in 1 .. Len(q) : i < j => rank[q[i]] >= rank[q[j]]

(* insert() puts p where its key belongs, the keys of the others being     *)
(* their ranks.                                                            *)
LEMMA InsertSorted ==
    ASSUME NEW P, NEW q \in Seq(P), NEW rank \in [P -> Int], Sorted(q, rank),
           NEW keys, \A i \in 1 .. Len(q) : keys[q[i]] = rank[q[i]],
           NEW p \in P
    PROVE  Sorted(Insert(q, keys, p, rank[p]), rank)
<1> DEFINE S   == {i \in 1 .. Len(q) : keys[q[i]] < rank[p]} \cup {Len(q) + 1}
           pos == InsertPos(q, keys, rank[p])
           r   == InsertAt(q, pos, p)
<1>1. Len(q) \in Nat /\ \A i \in 1 .. Len(q) : q[i] \in P /\ rank[q[i]] \in Int
  BY LenProperties
<1>2. rank[p] \in Int OBVIOUS
<1>3. S \subseteq 1 .. Len(q) + 1 /\ S \subseteq Nat /\ S # {} BY <1>1
<1>4. pos = Least(S) BY DEF InsertPos
<1>5. /\ pos \in 1 .. Len(q) + 1
      /\ \A i \in 1 .. Len(q) : i < pos => rank[q[i]] >= rank[p]
      /\ pos <= Len(q) => rank[q[pos]] < rank[p]
  <2>1. Least(S) \in S /\ \A i \in S : Least(S) <= i
    <3> HIDE DEF S
    <3> QED BY <1>3, LeastExists
  <2>2. pos \in S /\ \A i \in S : pos <= i BY <1>4, <2>1
  <2>3. pos \in 1 .. Len(q) + 1 BY <1>3, <2>2
  <2>4. pos <= Len(q) => rank[q[pos]] < rank[p]
    <3> HIDE DEF pos
    <3> QED BY <1>1, <2>2, <2>3
  <2>5. ASSUME NEW i \in 1 .. Len(q), i < pos PROVE rank[q[i]] >= rank[p]
    <3> HIDE DEF pos
    <3>1. i \notin S BY <1>1, <2>2, <2>3, <2>5
    <3> QED BY <1>1, <1>2, <3>1
  <2> QED BY <2>3, <2>4, <2>5
<1> HIDE DEF S, pos
<1>6. /\ Len(r) = Len(q) + 1
      /\ \A i \in 1 .. Len(q) + 1 :
             r[i] = IF i < pos THEN q[i] ELSE IF i = pos THEN p ELSE q[i - 1]
  BY <1>5, InsertAtElements
<1> HIDE DEF r
<1>7. \A i \in 1 .. Len(q) : i >= pos => rank[q[i]] < rank[p]
  BY <1>1, <1>2, <1>5 DEF Sorted
<1>8. ASSUME NEW i \in 1 .. Len(r), NEW j \in 1 .. Len(r), i < j
      PROVE  rank[r[i]] >= rank[r[j]]
  <2>1. CASE j < pos
    <3>1. i \in 1 .. Len(q) /\ j \in 1 .. Len(q) /\ r[i] = q[i] /\ r[j] = q[j]
      BY <1>1, <1>5, <1>6, <1>8, <2>1
    <3> QED BY <1>8, <3>1 DEF Sorted
  <2>2. CASE j = pos
    <3>1. i \in 1 .. Len(q) /\ i < pos /\ r[i] = q[i] /\ r[j] = p
      BY <1>1, <1>5, <1>6, <1>8, <2>2
    <3> QED BY <1>5, <3>1
  <2>3. CASE j > pos
    <3>1. j - 1 \in 1 .. Len(q) /\ r[j] = q[j - 1] /\ j - 1 >= pos
      BY <1>1, <1>5, <1>6, <1>8, <2>3
    <3>2. CASE i < pos
      <4>1. i \in 1 .. Len(q) /\ i < j - 1 /\ r[i] = q[i]
        BY <1>1, <1>5, <1>6, <1>8, <2>3, <3>2
      <4> QED BY <3>1, <4>1 DEF Sorted
    <3>3. CASE i = pos
      <4>1. r[i] = p /\ rank[q[j - 1]] < rank[p] BY <1>1, <1>5, <1>6, <1>7, <3>1, <3>3
      <4> QED BY <1>1, <1>2, <3>1, <4>1
    <3>4. CASE i > pos
      <4>1. i - 1 \in 1 .. Len(q) /\ i - 1 < j - 1 /\ r[i] = q[i - 1]
        BY <1>1, <1>5, <1>6, <1>8, <3>4
      <4> QED BY <3>1, <4>1 DEF Sorted
    <3> QED BY <1>5, <1>6, <3>2, <3>3, <3>4
  <2> QED BY <1>5, <1>6, <2>1, <2>2, <2>3
<1>9. Insert(q, keys, p, rank[p]) = r BY DEF Insert, r, pos
<1> QED BY <1>8, <1>9 DEF Sorted

(* What is taken out of a queue leaves the rest in order. *)
LEMMA RemoveSorted ==
    ASSUME NEW P, NEW q \in Seq(P), NEW rank \in [P -> Int], Sorted(q, rank),
           NEW pos \in 1 .. Len(q)
    PROVE  Sorted(RemoveAt(q, pos), rank)
<1> DEFINE r == RemoveAt(q, pos)
<1>1. Len(q) \in Nat BY LenProperties
<1>2. /\ Len(r) = Len(q) - 1
      /\ \A i \in 1 .. Len(q) - 1 : r[i] = IF i < pos THEN q[i] ELSE q[i + 1]
  BY RemoveAtElements
<1> HIDE DEF r
<1> DEFINE from(i) == IF i < pos THEN i ELSE i + 1
<1>3. \A i \in 1 .. Len(r) : r[i] = q[from(i)] /\ from(i) \in 1 .. Len(q)
  BY <1>1, <1>2
<1>4. \A i, j \in 1 .. Len(r) : i < j => from(i) < from(j) BY <1>1, <1>2
<1> HIDE DEF from
<1>5. Sorted(r, rank) BY <1>3, <1>4 DEF Sorted
<1> QED BY <1>5 DEF r

LEMMA GetitemSorted ==
    ASSUME NEW P, NEW q, Lists(q, P), NEW R, P \subseteq R,
           NEW rank \in [R -> Int], Sorted(q, rank), NEW p \in P
    PROVE  Sorted(Getitem(q, p), rank)
<1> DEFINE pos == CHOOSE i \in DOMAIN q : q[i] = p
<1>1. q \in Seq(P) BY DEF Lists
<1>2. pos \in DOMAIN q BY DEF Lists
<1>3. pos \in 1 .. Len(q) BY <1>1, <1>2, LenProperties
<1>4. q \in Seq(R) BY <1>1, SeqMonotonic
<1>5. Getitem(q, p) = RemoveAt(q, pos) BY DEF Getitem
<1> HIDE DEF pos
<1> QED BY <1>3, <1>4, <1>5, RemoveSorted

LEMMA TailSorted ==
    ASSUME NEW P, NEW q \in Seq(P), q # <<>>, NEW rank, Sorted(q, rank)
    PROVE  /\ Sorted(Tail(q), rank)
           /\ Len(Tail(q)) = Len(q) - 1
           /\ \A i \in 1 .. Len(Tail(q)) : rank[Head(q)] >= rank[Tail(q)[i]]
<1>1. Len(q) \in Nat \ {0} BY EmptySeq
<1>2. /\ Head(q) = q[1] /\ Len(Tail(q)) = Len(q) - 1
      /\ \A i \in 1 .. Len(q) - 1 : Tail(q)[i] = q[i + 1]
  BY HeadTailProperties
<1> QED BY <1>1, <1>2 DEF Sorted
----------------------------------------------------------------------------
(***************************************************************************)
(* Delta lists: what DueAfter adds up, and what insertd() and unsleep() do *)
(* to the sums.  `Adds' is the recursion of DueAfter.                      *)
(***************************************************************************)
IntKeys(q, keys) == \A i \in 1 .. Len(q) : keys[q[i]] \in Int

Adds(q, keys, n, f) ==
    /\ f \in [0 .. n -> Int]
    /\ f[0] = 0
    /\ \A i \in 1 .. n : f[i] = f[i - 1] + keys[q[i]]

LEMMA AddsExist ==
    ASSUME NEW P, NEW q \in Seq(P), NEW keys, IntKeys(q, keys)
    PROVE  \A n \in 0 .. Len(q) : \E f : Adds(q, keys, n, f)
<1> DEFINE S == {n \in 0 .. Len(q) : ~ \E f : Adds(q, keys, n, f)}
<1>1. Len(q) \in Nat BY LenProperties
<1>2. SUFFICES ASSUME S # {} PROVE FALSE
  OBVIOUS
<1>3. S \subseteq Nat BY <1>1
<1> DEFINE m == Least(S)
<1>4. m \in S /\ \A x \in S : m <= x
  <2> HIDE DEF S
  <2> QED BY <1>2, <1>3, LeastExists
<1> HIDE DEF m
<1>5. m \in 0 .. Len(q) /\ ~ \E f : Adds(q, keys, m, f) BY <1>4
<1>6. m # 0
  <2>1. Adds(q, keys, 0, [i \in 0 .. 0 |-> 0]) BY DEF Adds
  <2> QED BY <1>5, <2>1
<1>7. m - 1 \in 0 .. Len(q) /\ m - 1 \notin S BY <1>1, <1>4, <1>5, <1>6
<1>8. PICK f : Adds(q, keys, m - 1, f) BY <1>7
<1> DEFINE g == [i \in 0 .. m |-> IF i < m THEN f[i] ELSE f[m - 1] + keys[q[m]]]
<1>9. Adds(q, keys, m, g)
  <2> HIDE DEF m, S
  <2>1. keys[q[m]] \in Int /\ m \in 1 .. Len(q) BY <1>1, <1>5, <1>6 DEF IntKeys
  <2>2. f \in [0 .. m - 1 -> Int] /\ f[0] = 0 /\ \A i \in 1 .. m - 1 : f[i] = f[i - 1] + keys[q[i]]
    BY <1>8 DEF Adds
  <2>3. \A i \in 0 .. m : g[i] \in Int BY <1>1, <2>1, <2>2
  <2>4. g[0] = 0 BY <1>1, <2>1, <2>2
  <2>5. ASSUME NEW i \in 1 .. m PROVE g[i] = g[i - 1] + keys[q[i]]
    <3>1. i - 1 \in 0 .. m /\ i - 1 < m BY <2>1
    <3>2. g[i - 1] = f[i - 1] BY <3>1
    <3> QED BY <2>1, <2>2, <3>1, <3>2
  <2>6. g \in [0 .. m -> Int] BY <2>3
  <2> QED BY <2>4, <2>5, <2>6 DEF Adds
<1> HIDE DEF g
<1> QED BY <1>5, <1>9

LEMMA AddsOnce ==
    ASSUME NEW P, NEW q \in Seq(P), NEW keys, IntKeys(q, keys),
           NEW f, NEW g, Adds(q, keys, Len(q), f), Adds(q, keys, Len(q), g)
    PROVE  f = g
<1> DEFINE S == {i \in 0 .. Len(q) : f[i] # g[i]}
<1>1. Len(q) \in Nat BY LenProperties
<1>2. f \in [0 .. Len(q) -> Int] /\ g \in [0 .. Len(q) -> Int] BY DEF Adds
<1>3. CASE S = {}
  <2>1. \A i \in 0 .. Len(q) : f[i] = g[i] BY <1>3
  <2> QED BY <1>2, <2>1
<1>4. CASE S # {}
  <2> DEFINE m == Least(S)
  <2>1. S \subseteq Nat BY <1>1
  <2>2. m \in S /\ \A x \in S : m <= x
    <3> HIDE DEF S
    <3> QED BY <1>4, <2>1, LeastExists
  <2> HIDE DEF m
  <2>3. m \in 0 .. Len(q) /\ f[m] # g[m] BY <2>2
  <2>4. m # 0 BY <2>3 DEF Adds
  <2>5. m \in 1 .. Len(q) /\ m - 1 \in 0 .. Len(q) /\ m - 1 \notin S BY <1>1, <2>2, <2>3, <2>4
  <2>6. f[m - 1] = g[m - 1] BY <2>5
  <2> QED BY <2>3, <2>5, <2>6 DEF Adds
<1> QED BY <1>3, <1>4

(* The function that DueAfter chooses is the one that adds the keys up. *)
LEMMA DueAfterAdds ==
    ASSUME NEW P, NEW q \in Seq(P), NEW keys, IntKeys(q, keys)
    PROVE  Adds(q, keys, Len(q), DueAfter(q, keys))
<1> DEFINE D(f) == f = [i \in 0 .. Len(q) |-> IF i = 0 THEN 0 ELSE f[i - 1] + keys[q[i]]]
<1>1. Len(q) \in Nat BY LenProperties
<1>2. ASSUME NEW f, Adds(q, keys, Len(q), f) PROVE D(f)
  <2>1. f \in [0 .. Len(q) -> Int] BY <1>2 DEF Adds
  <2>2. \A i \in 0 .. Len(q) : f[i] = IF i = 0 THEN 0 ELSE f[i - 1] + keys[q[i]]
    BY <1>1, <1>2 DEF Adds
  <2> QED BY <2>1, <2>2
<1>3. PICK f : Adds(q, keys, Len(q), f) BY <1>1, AddsExist
<1>4. D(f) BY <1>2, <1>3
<1>5. DueAfter(q, keys) = CHOOSE g : D(g) BY DEF DueAfter
<1> DEFINE due == DueAfter(q, keys)
<1>6. D(due) BY <1>4, <1>5
<1> HIDE DEF due
<1>7. DOMAIN due = 0 .. Len(q) /\ due[0] = 0 BY <1>1, <1>6
<1>8. ASSUME NEW i \in 1 .. Len(q) PROVE due[i] = due[i - 1] + keys[q[i]]
  BY <1>1, <1>6
<1> DEFINE S == {i \in 0 .. Len(q) : due[i] # f[i]}
<1>9. S = {}
  <2> SUFFICES ASSUME S # {} PROVE FALSE
    OBVIOUS
  <2> DEFINE m == Least(S)
  <2>1. S \subseteq Nat BY <1>1
  <2>2. m \in S /\ \A x \in S : m <= x
    <3> HIDE DEF S
    <3> QED BY <2>1, LeastExists
  <2> HIDE DEF m
  <2>3. m \in 0 .. Len(q) /\ due[m] # f[m] BY <2>2
  <2>4. m # 0 BY <1>3, <1>7, <2>3 DEF Adds
  <2>5. m \in 1 .. Len(q) /\ m - 1 \in 0 .. Len(q) /\ m - 1 \notin S BY <1>1, <2>2, <2>3, <2>4
  <2>6. due[m - 1] = f[m - 1] BY <2>5
  <2> QED BY <1>3, <1>8, <2>3, <2>5, <2>6 DEF Adds
<1>10. \A i \in 0 .. Len(q) : due[i] = f[i] BY <1>9
<1> HIDE DEF S
<1>11. due \in [0 .. Len(q) -> Int]
  <2>1. due = [i \in 0 .. Len(q) |-> due[i]] BY <1>6
  <2>2. \A i \in 0 .. Len(q) : due[i] \in Int BY <1>3, <1>10 DEF Adds
  <2> QED BY <2>1, <2>2
<1> QED BY <1>7, <1>8, <1>11 DEF Adds, due

(* To know what a delta list adds up to it is enough to know a function    *)
(* that adds up so.                                                        *)
LEMMA DueIs ==
    ASSUME NEW P, NEW q \in Seq(P), NEW keys, IntKeys(q, keys),
           NEW f, Adds(q, keys, Len(q), f)
    PROVE  DueAfter(q, keys) = f
BY DueAfterAdds, AddsOnce

(* p stands on the delta list q, and the keys up to its own are no less    *)
(* than n together.                                                        *)
DueNotBefore(q, keys, p, n) ==
    \E i \in DOMAIN q : q[i] = p /\ DueAfter(q, keys)[i] >= n

(* Keys that agree on the list add up to the same. *)
LEMMA SameDue ==
    ASSUME NEW P, NEW q \in Seq(P), NEW keys, IntKeys(q, keys),
           NEW kept, \A i \in 1 .. Len(q) : kept[q[i]] = keys[q[i]],
           NEW p, NEW n, DueNotBefore(q, keys, p, n)
    PROVE  DueNotBefore(q, kept, p, n)
<1>1. IntKeys(q, kept) BY DEF IntKeys
<1>2. Adds(q, keys, Len(q), DueAfter(q, keys)) BY DueAfterAdds
<1>3. Adds(q, kept, Len(q), DueAfter(q, keys)) BY <1>2 DEF Adds
<1>4. DueAfter(q, kept) = DueAfter(q, keys) BY <1>1, <1>3, DueIs
<1> QED BY <1>4 DEF DueNotBefore

(* clkhandler() decrements the first key: everybody is due a tick sooner. *)
LEMMA TickDue ==
    ASSUME NEW P, NEW q, Lists(q, P), q # <<>>,
           NEW keys, IntKeys(q, keys), NEW ticked,
           ticked[q[1]] = keys[q[1]] - 1,
           \A i \in 2 .. Len(q) : ticked[q[i]] = keys[q[i]],
           NEW p, NEW n \in Int, DueNotBefore(q, keys, p, n)
    PROVE  DueNotBefore(q, ticked, p, n - 1)
<1>1. q \in Seq(P) BY DEF Lists
<1>2. Len(q) \in Nat /\ Len(q) >= 1 /\ DOMAIN q = 1 .. Len(q)
  BY <1>1, LenProperties, EmptySeq
<1>3. IntKeys(q, ticked)
  <2>1. ASSUME NEW i \in 1 .. Len(q) PROVE ticked[q[i]] \in Int
    <3>1. i = 1 \/ i \in 2 .. Len(q) BY <1>2
    <3> QED BY <1>2, <3>1 DEF IntKeys
  <2> QED BY <2>1 DEF IntKeys
<1> DEFINE due == DueAfter(q, keys)
           f == [i \in 0 .. Len(q) |-> IF i = 0 THEN 0 ELSE due[i] - 1]
<1>4. Adds(q, keys, Len(q), due) BY <1>1, DueAfterAdds
<1> HIDE DEF due
<1>5. f \in [0 .. Len(q) -> Int] /\ f[0] = 0 BY <1>2, <1>4 DEF Adds
<1>6. ASSUME NEW i \in 1 .. Len(q) PROVE f[i] = f[i - 1] + ticked[q[i]]
  <2>0. i \in 0 .. Len(q) /\ i - 1 \in 0 .. Len(q) BY <1>2
  <2>1. due[i] = due[i - 1] + keys[q[i]] /\ due[i] \in Int /\ due[i - 1] \in Int /\ keys[q[i]] \in Int
    <3> HIDE DEF f
    <3> QED BY <2>0, <1>4 DEF Adds, IntKeys
  <2>2. CASE i = 1 BY <1>2, <1>4, <2>1, <2>2 DEF Adds
  <2>3. CASE i # 1
    <3>1. i \in 2 .. Len(q) /\ i - 1 # 0 /\ i - 1 \in 0 .. Len(q) BY <2>3, <1>2
    <3> QED BY <1>2, <2>1, <3>1
  <2> QED BY <2>2, <2>3
<1>7. Adds(q, ticked, Len(q), f) BY <1>5, <1>6 DEF Adds
<1> HIDE DEF f
<1>8. DueAfter(q, ticked) = f BY <1>1, <1>3, <1>7, DueIs
<1>9. PICK i \in 1 .. Len(q) : q[i] = p /\ due[i] >= n BY <1>2 DEF DueNotBefore, due
<1>10. f[i] = due[i] - 1 /\ due[i] \in Int BY <1>2, <1>4, <1>9 DEF f, Adds
<1>11. f[i] >= n - 1 BY <1>9, <1>10
<1> QED BY <1>2, <1>8, <1>9, <1>11 DEF DueNotBefore

(* dequeue(): those behind are due as much later as the first key was due   *)
(* before.                                                                 *)
LEMMA TailDue ==
    ASSUME NEW P, NEW q, Lists(q, P), q # <<>>, NEW keys, IntKeys(q, keys),
           keys[q[1]] <= 0,
           NEW p, p # q[1], NEW n \in Int, DueNotBefore(q, keys, p, n)
    PROVE  DueNotBefore(Tail(q), keys, p, n)
<1> DEFINE t == Tail(q)
           due == DueAfter(q, keys)
           f == [i \in 0 .. Len(t) |-> due[i + 1] - due[1]]
<1>1. q \in Seq(P) BY DEF Lists
<1>2. Len(q) \in Nat /\ Len(q) >= 1 /\ DOMAIN q = 1 .. Len(q)
  BY <1>1, LenProperties, EmptySeq
<1>3. /\ t \in Seq(P) /\ Len(t) = Len(q) - 1 /\ Len(t) \in Nat /\ DOMAIN t = 1 .. Len(t)
      /\ \A i \in 1 .. Len(t) : t[i] = q[i + 1]
  <2>1. t \in Seq(P) /\ Len(t) = Len(q) - 1 /\ \A i \in 1 .. Len(q) - 1 : t[i] = q[i + 1]
    BY <1>1, HeadTailProperties
  <2>2. Len(t) \in Nat /\ DOMAIN t = 1 .. Len(t) BY <2>1, LenProperties
  <2> QED BY <2>1, <2>2
<1> HIDE DEF t
<1>4. IntKeys(t, keys)
  <2>1. ASSUME NEW i \in 1 .. Len(t) PROVE keys[t[i]] \in Int
    <3>1. i + 1 \in 1 .. Len(q) BY <1>2, <1>3
    <3> QED BY <1>3, <3>1 DEF IntKeys
  <2> QED BY <2>1 DEF IntKeys
<1>5. Adds(q, keys, Len(q), due) BY <1>1, DueAfterAdds
<1> HIDE DEF due
<1>6. /\ \A i \in 0 .. Len(q) : due[i] \in Int
      /\ due[0] = 0
      /\ \A i \in 1 .. Len(q) : due[i] = due[i - 1] + keys[q[i]]
  BY <1>5 DEF Adds
<1>7. /\ f \in [0 .. Len(t) -> Int] /\ f[0] = 0
  <2>1. 1 \in 0 .. Len(q) /\ \A i \in 0 .. Len(t) : i + 1 \in 0 .. Len(q) BY <1>2, <1>3
  <2>2. \A i \in 0 .. Len(t) : due[i + 1] - due[1] \in Int BY <1>6, <2>1
  <2> QED BY <1>3, <1>6, <2>1, <2>2
<1>8. ASSUME NEW i \in 1 .. Len(t) PROVE f[i] = f[i - 1] + keys[t[i]]
  <2>1. /\ i + 1 \in 1 .. Len(q) /\ i \in 0 .. Len(q) /\ i + 1 - 1 = i /\ i - 1 + 1 = i
        /\ i \in 0 .. Len(t) /\ i - 1 \in 0 .. Len(t) /\ i + 1 \in 0 .. Len(q) /\ 1 \in 0 .. Len(q)
    BY <1>2, <1>3
  <2>2. f[i] = due[i + 1] - due[1] /\ f[i - 1] = due[i] - due[1] BY <2>1
  <2> HIDE DEF f
  <2>3. due[i + 1] = due[i] + keys[t[i]] BY <1>3, <1>6, <2>1
  <2>4. keys[t[i]] \in Int BY <1>4 DEF IntKeys
  <2>5. due[1] \in Int /\ due[i] \in Int BY <1>6, <2>1
  <2> QED BY <2>2, <2>3, <2>4, <2>5
<1> HIDE DEF f
<1>9. Adds(t, keys, Len(t), f) BY <1>7, <1>8 DEF Adds
<1>10. DueAfter(t, keys) = f BY <1>3, <1>4, <1>9, DueIs
<1>11. PICK i \in 1 .. Len(q) : q[i] = p /\ due[i] >= n BY <1>2 DEF DueNotBefore, due
<1>12. i - 1 \in 1 .. Len(t) /\ i - 1 \in 0 .. Len(t) /\ i - 1 + 1 = i /\ i \in 0 .. Len(q)
  BY <1>2, <1>3, <1>11
<1>13. t[i - 1] = p BY <1>3, <1>11, <1>12
<1>14. f[i - 1] = due[i] - due[1] BY <1>12 DEF f
<1>15. due[1] <= 0 /\ due[1] \in Int
  <2>1. 1 \in 1 .. Len(q) /\ 1 \in 0 .. Len(q) /\ 1 - 1 = 0 BY <1>2
  <2>2. due[1] = 0 + keys[q[1]] /\ due[1] \in Int BY <1>6, <2>1
  <2>3. keys[q[1]] \in Int BY <2>1 DEF IntKeys
  <2> QED BY <2>2, <2>3
<1>16. due[i] \in Int BY <1>6, <1>12
<1>17. f[i - 1] >= n BY <1>11, <1>14, <1>15, <1>16
<1> QED BY <1>3, <1>10, <1>12, <1>13, <1>17 DEF DueNotBefore, t

(* insertd(): the process put in is due after its delay, and everybody      *)
(* else when they were.                                                    *)
LEMMA InsertdDue ==
    ASSUME NEW K, NEW P \in SUBSET K, NEW q, Lists(q, P), NEW keys \in [K -> Int],
           NEW p \in K, p \notin P, NEW delay \in Int
    PROVE  LET r == Insertd(q, keys, p, delay)
               k == InsertdKeys(q, keys, p, delay)
           IN  /\ k \in [K -> Int]
               /\ DueNotBefore(r, k, p, delay)
               /\ \A x, n : DueNotBefore(q, keys, x, n) => DueNotBefore(r, k, x, n)
<1> DEFINE r == Insertd(q, keys, p, delay)
           k == InsertdKeys(q, keys, p, delay)
           due == DueAfter(q, keys)
           pos == InsertdPos(q, keys, delay)
           rest == delay - due[pos - 1]
           f == [i \in 0 .. Len(q) + 1 |->
                    IF i < pos THEN due[i] ELSE IF i = pos THEN delay ELSE due[i - 1]]
<1>1. /\ q \in Seq(P) /\ Len(q) \in Nat /\ DOMAIN q = 1 .. Len(q)
      /\ \A i \in 1 .. Len(q) : q[i] \in P /\ q[i] \in K /\ q[i] # p
      /\ \A i, j \in 1 .. Len(q) : q[i] = q[j] => i = j
  <2>1. q \in Seq(P) BY DEF Lists
  <2>2. Len(q) \in Nat /\ DOMAIN q = 1 .. Len(q) /\ \A i \in 1 .. Len(q) : q[i] \in P
    BY <2>1, LenProperties
  <2>3. \A i, j \in 1 .. Len(q) : q[i] = q[j] => i = j BY <2>2 DEF Lists, NoDup
  <2> HIDE DEF r, k, due, pos, rest, f
  <2> QED BY <2>1, <2>2, <2>3
<1>2. IntKeys(q, keys) BY <1>1 DEF IntKeys
<1>3. pos \in 1 .. Len(q) + 1 BY <1>1, InsertdPosIn
<1>4. Adds(q, keys, Len(q), due) BY <1>1, <1>2, DueAfterAdds
<1>5. r = InsertAt(q, pos, p) BY DEF Insertd
<1>6. k = [x \in K |-> IF x = p THEN rest
                       ELSE IF pos <= Len(q) /\ x = q[pos] THEN keys[x] - rest
                       ELSE keys[x]]
  BY DEF InsertdKeys
<1> HIDE DEF r, k, pos, due
<1>7. /\ \A i \in 0 .. Len(q) : due[i] \in Int
      /\ due[0] = 0
      /\ \A i \in 1 .. Len(q) : due[i] = due[i - 1] + keys[q[i]]
  BY <1>4 DEF Adds
<1>8. rest \in Int
  <2>1. pos - 1 \in 0 .. Len(q) BY <1>1, <1>3
  <2> QED BY <1>7, <2>1
<1>9. k \in [K -> Int]
  <2> HIDE DEF rest
  <2> QED BY <1>6, <1>8
<1>10. /\ r \in Seq(K) /\ Len(r) = Len(q) + 1 /\ DOMAIN r = 1 .. Len(q) + 1
       /\ \A i \in 1 .. Len(q) + 1 : r[i] = IF i < pos THEN q[i] ELSE IF i = pos THEN p ELSE q[i - 1]
  <2>1. q \in Seq(K) BY <1>1, SeqMonotonic
  <2>2. r \in Seq(K) /\ Len(r) = Len(q) + 1 BY <1>3, <1>5, <2>1, InsertAtElements
  <2> HIDE DEF f, rest
  <2>3. \A i \in 1 .. Len(q) + 1 :
            InsertAt(q, pos, p)[i] = IF i < pos THEN q[i] ELSE IF i = pos THEN p ELSE q[i - 1]
    BY <1>3, <2>1, InsertAtElements
  <2> QED BY <1>5, <2>2, <2>3, LenProperties
<1>11. IntKeys(r, k)
  <2>1. \A i \in 1 .. Len(r) : r[i] \in K BY <1>10
  <2> QED BY <1>9, <2>1 DEF IntKeys
<1>12. f \in [0 .. Len(q) + 1 -> Int] /\ f[0] = 0
  <2>1. ASSUME NEW i \in 0 .. Len(q) + 1
        PROVE (IF i < pos THEN due[i] ELSE IF i = pos THEN delay ELSE due[i - 1]) \in Int
    <3>1. CASE i < pos
      <4>1. i \in 0 .. Len(q) BY <1>1, <1>3, <3>1
      <4> QED BY <1>7, <3>1, <4>1
    <3>2. CASE i = pos BY <3>2
    <3>3. CASE i > pos
      <4>1. i - 1 \in 0 .. Len(q) /\ ~(i < pos) /\ i # pos BY <1>1, <1>3, <3>3
      <4> QED BY <1>7, <4>1
    <3> QED BY <1>1, <1>3, <3>1, <3>2, <3>3
  <2>2. 0 \in 0 .. Len(q) + 1 /\ 0 < pos BY <1>1, <1>3
  <2> QED BY <1>7, <2>1, <2>2
<1>13. ASSUME NEW i \in 1 .. Len(q) + 1 PROVE f[i] = f[i - 1] + k[r[i]]
  <2>1. i \in 0 .. Len(q) + 1 /\ i - 1 \in 0 .. Len(q) + 1 /\ pos \in Nat BY <1>1, <1>3
  <2>2. /\ f[i] = IF i < pos THEN due[i] ELSE IF i = pos THEN delay ELSE due[i - 1]
        /\ f[i - 1] = IF i - 1 < pos THEN due[i - 1] ELSE IF i - 1 = pos THEN delay ELSE due[i - 1 - 1]
    BY <2>1
  <2>3. r[i] = IF i < pos THEN q[i] ELSE IF i = pos THEN p ELSE q[i - 1] BY <1>10
  <2> HIDE DEF f
  <2>4. CASE i < pos
    <3>1. i \in 1 .. Len(q) BY <1>1, <1>3, <2>4
    <3>2. pos <= Len(q) => q[i] # q[pos] BY <1>1, <1>3, <2>4, <3>1
    <3>3. k[q[i]] = keys[q[i]] BY <1>1, <1>6, <3>1, <3>2
    <3>4. f[i] = due[i] /\ f[i - 1] = due[i - 1] /\ r[i] = q[i] BY <2>1, <2>2, <2>3, <2>4
    <3> QED BY <1>7, <3>1, <3>3, <3>4
  <2>5. CASE i = pos
    <3>1. f[i] = delay /\ f[i - 1] = due[pos - 1] /\ r[i] = p BY <2>1, <2>2, <2>3, <2>5
    <3>2. k[p] = rest BY <1>6
    <3>3. due[pos - 1] \in Int
      <4>1. pos - 1 \in 0 .. Len(q) BY <1>1, <1>3
      <4> QED BY <1>7, <4>1
    <3> QED BY <3>1, <3>2, <3>3
  <2>6. CASE i = pos + 1
    <3>1. pos \in 1 .. Len(q) /\ pos <= Len(q) BY <1>1, <1>3, <2>6
    <3>2. f[i] = due[pos] /\ f[i - 1] = delay /\ r[i] = q[pos]
      BY <2>1, <2>2, <2>3, <2>6
    <3>3. k[q[pos]] = keys[q[pos]] - rest
      <4> HIDE DEF rest
      <4> QED BY <1>1, <1>6, <3>1
    <3>4. due[pos] = due[pos - 1] + keys[q[pos]] BY <1>7, <3>1
    <3>5. due[pos - 1] \in Int /\ due[pos] \in Int /\ keys[q[pos]] \in Int
      <4>1. pos - 1 \in 0 .. Len(q) /\ pos \in 0 .. Len(q) BY <1>1, <3>1
      <4> QED BY <1>1, <1>7, <3>1, <4>1
    <3> QED BY <3>2, <3>3, <3>4, <3>5
  <2>7. CASE i > pos + 1
    <3>1. /\ i - 1 \in 1 .. Len(q) /\ i - 1 # pos /\ ~(i < pos) /\ i # pos /\ ~(i - 1 < pos)
      BY <1>1, <1>3, <2>1, <2>7
    <3>2. f[i] = due[i - 1] /\ f[i - 1] = due[i - 1 - 1] /\ r[i] = q[i - 1]
      BY <2>2, <2>3, <3>1
    <3>3. pos <= Len(q) => q[i - 1] # q[pos] BY <1>1, <1>3, <3>1
    <3>4. k[q[i - 1]] = keys[q[i - 1]] BY <1>1, <1>6, <3>1, <3>3
    <3> QED BY <1>7, <3>1, <3>2, <3>4
  <2> QED BY <2>1, <2>4, <2>5, <2>6, <2>7
<1>14. Adds(r, k, Len(r), f)
  <2> HIDE DEF f
  <2> QED BY <1>10, <1>12, <1>13 DEF Adds
<1> HIDE DEF f
<1>15. DueAfter(r, k) = f BY <1>10, <1>11, <1>14, DueIs
<1>16. DueNotBefore(r, k, p, delay)
  <2>1. r[pos] = p /\ pos \in 0 .. Len(q) + 1 BY <1>1, <1>3, <1>10
  <2>2. f[pos] = delay BY <1>1, <1>3, <2>1 DEF f
  <2> HIDE DEF rest
  <2>3. DueAfter(r, k)[pos] >= delay BY <1>15, <2>2
  <2> QED BY <1>3, <1>10, <2>1, <2>3 DEF DueNotBefore
<1>17. ASSUME NEW x, NEW n, DueNotBefore(q, keys, x, n) PROVE DueNotBefore(r, k, x, n)
  <2>1. PICK i \in 1 .. Len(q) : q[i] = x /\ due[i] >= n BY <1>1, <1>17 DEF DueNotBefore, due
  <2>2. CASE i < pos
    <3>1. i \in 1 .. Len(q) + 1 /\ i \in 0 .. Len(q) + 1 BY <1>1, <2>1
    <3>2. r[i] = x /\ f[i] = due[i] BY <1>10, <2>1, <2>2, <3>1 DEF f
    <3> QED BY <1>10, <1>15, <2>1, <3>1, <3>2 DEF DueNotBefore
  <2>3. CASE i >= pos
    <3>1. /\ i + 1 \in 1 .. Len(q) + 1 /\ i + 1 \in 0 .. Len(q) + 1 /\ ~(i + 1 < pos)
          /\ i + 1 # pos /\ i + 1 - 1 = i
      BY <1>1, <1>3, <2>1, <2>3
    <3>2. r[i + 1] = x BY <1>10, <2>1, <3>1
    <3>3. f[i + 1] = due[i] BY <3>1 DEF f
    <3> QED BY <1>10, <1>15, <2>1, <3>1, <3>2, <3>3 DEF DueNotBefore
  <2> QED BY <1>1, <1>3, <2>1, <2>2, <2>3
<1> QED BY <1>9, <1>16, <1>17 DEF r, k

(* unsleep(): the process behind inherits the key, so everybody else stays  *)
(* due when they were.                                                     *)
LEMMA UnsleepDue ==
    ASSUME NEW K, NEW P \in SUBSET K, NEW q, Lists(q, P), NEW keys \in [K -> Int],
           NEW p \in P
    PROVE  LET r == Getitem(q, p)
               k == UnsleepKeys(q, keys, p)
           IN  /\ k \in [K -> Int]
               /\ \A x, n : x # p /\ DueNotBefore(q, keys, x, n) => DueNotBefore(r, k, x, n)
<1> DEFINE r == Getitem(q, p)
           k == UnsleepKeys(q, keys, p)
           due == DueAfter(q, keys)
           pos == CHOOSE j \in DOMAIN q : q[j] = p
           f == [i \in 0 .. Len(q) - 1 |-> IF i < pos THEN due[i] ELSE due[i + 1]]
<1>1. /\ q \in Seq(P) /\ Len(q) \in Nat /\ DOMAIN q = 1 .. Len(q)
      /\ \A i \in 1 .. Len(q) : q[i] \in P /\ q[i] \in K
      /\ \A i, j \in 1 .. Len(q) : q[i] = q[j] => i = j
  <2>1. q \in Seq(P) BY DEF Lists
  <2>2. Len(q) \in Nat /\ DOMAIN q = 1 .. Len(q) /\ \A i \in 1 .. Len(q) : q[i] \in P
    BY <2>1, LenProperties
  <2> QED BY <2>1, <2>2 DEF Lists, NoDup
<1>2. IntKeys(q, keys) BY <1>1 DEF IntKeys
<1>3. pos \in 1 .. Len(q) /\ q[pos] = p BY <1>1 DEF Lists
<1>4. Adds(q, keys, Len(q), due) BY <1>1, <1>2, DueAfterAdds
<1>5. r = RemoveAt(q, pos) BY DEF Getitem
<1>6. k = IF pos < Len(q) THEN [keys EXCEPT ![q[pos + 1]] = keys[q[pos + 1]] + keys[p]] ELSE keys
  BY DEF UnsleepKeys
<1> HIDE DEF r, k, pos, due
<1>7. /\ \A i \in 0 .. Len(q) : due[i] \in Int
      /\ due[0] = 0
      /\ \A i \in 1 .. Len(q) : due[i] = due[i - 1] + keys[q[i]]
  BY <1>4 DEF Adds
<1>8. /\ \A x \in K : k[x] = IF pos < Len(q) /\ x = q[pos + 1] THEN keys[x] + keys[p] ELSE keys[x]
      /\ DOMAIN k = K /\ k = [x \in K |-> k[x]]
  <2>1. pos < Len(q) => pos + 1 \in 1 .. Len(q) BY <1>1, <1>3
  <2> QED BY <1>1, <1>6, <2>1
<1>9. k \in [K -> Int]
  <2>1. \A x \in K : k[x] \in Int BY <1>8
  <2> QED BY <1>8, <2>1
<1>10. /\ r \in Seq(K) /\ Len(r) = Len(q) - 1 /\ Len(r) \in Nat /\ DOMAIN r = 1 .. Len(q) - 1
       /\ \A i \in 1 .. Len(q) - 1 : r[i] = IF i < pos THEN q[i] ELSE q[i + 1]
  <2>1. q \in Seq(K) BY <1>1, SeqMonotonic
  <2>2. r \in Seq(K) /\ Len(r) = Len(q) - 1 BY <1>3, <1>5, <2>1, RemoveAtElements
  <2>3. \A i \in 1 .. Len(q) - 1 : r[i] = IF i < pos THEN q[i] ELSE q[i + 1]
    BY <1>3, <1>5, <2>1, RemoveAtElements
  <2> QED BY <2>2, <2>3, LenProperties
<1>11. IntKeys(r, k)
  <2>1. \A i \in 1 .. Len(r) : r[i] \in K BY <1>10
  <2> QED BY <1>9, <2>1 DEF IntKeys
<1>12. f \in [0 .. Len(q) - 1 -> Int] /\ f[0] = 0
  <2>1. ASSUME NEW i \in 0 .. Len(q) - 1 PROVE (IF i < pos THEN due[i] ELSE due[i + 1]) \in Int
    <3>1. i \in 0 .. Len(q) /\ i + 1 \in 0 .. Len(q) BY <1>1
    <3> QED BY <1>7, <3>1
  <2>2. 0 \in 0 .. Len(q) - 1 /\ 0 < pos BY <1>1, <1>3
  <2> QED BY <1>7, <2>1, <2>2
<1>13. ASSUME NEW i \in 1 .. Len(q) - 1 PROVE f[i] = f[i - 1] + k[r[i]]
  <2>1. /\ i \in 0 .. Len(q) - 1 /\ i - 1 \in 0 .. Len(q) - 1 /\ pos \in Nat
        /\ i \in 1 .. Len(q) /\ i + 1 \in 1 .. Len(q) /\ i - 1 + 1 = i /\ i + 1 - 1 = i
    BY <1>1, <1>3
  <2>2. /\ f[i] = IF i < pos THEN due[i] ELSE due[i + 1]
        /\ f[i - 1] = IF i - 1 < pos THEN due[i - 1] ELSE due[i]
    BY <2>1
  <2>3. r[i] = IF i < pos THEN q[i] ELSE q[i + 1] BY <1>10
  <2> HIDE DEF f
  <2>4. CASE i < pos
    <3>1. pos < Len(q) => q[i] # q[pos + 1]
      <4>1. pos < Len(q) => pos + 1 \in 1 .. Len(q) /\ pos + 1 # i BY <1>1, <1>3, <2>4
      <4> QED BY <1>1, <2>1, <4>1
    <3>2. k[q[i]] = keys[q[i]] BY <1>1, <1>8, <2>1, <3>1
    <3>3. f[i] = due[i] /\ f[i - 1] = due[i - 1] /\ r[i] = q[i] BY <2>1, <2>2, <2>3, <2>4
    <3> QED BY <1>7, <2>1, <3>2, <3>3
  <2>5. CASE i = pos
    <3>1. f[i] = due[pos + 1] /\ f[i - 1] = due[pos - 1] /\ r[i] = q[pos + 1] BY <2>1, <2>2, <2>3, <2>5
    <3>2. pos < Len(q) BY <1>1, <2>1, <2>5
    <3>3. k[q[pos + 1]] = keys[q[pos + 1]] + keys[p] BY <1>1, <1>8, <2>1, <2>5, <3>2
    <3>4. due[pos + 1] = due[pos] + keys[q[pos + 1]] /\ due[pos] = due[pos - 1] + keys[p]
      BY <1>3, <1>7, <2>1, <2>5
    <3>5. due[pos - 1] \in Int /\ keys[p] \in Int /\ keys[q[pos + 1]] \in Int
      <4>1. pos - 1 \in 0 .. Len(q) BY <1>1, <1>3
      <4> QED BY <1>1, <1>7, <2>1, <2>5, <4>1
    <3> QED BY <3>1, <3>3, <3>4, <3>5
  <2>6. CASE i > pos
    <3>1. pos < Len(q) => q[i + 1] # q[pos + 1]
      <4>1. pos < Len(q) => pos + 1 \in 1 .. Len(q) /\ pos + 1 # i + 1 BY <1>1, <1>3, <2>6
      <4> QED BY <1>1, <2>1, <4>1
    <3>2. k[q[i + 1]] = keys[q[i + 1]] BY <1>1, <1>8, <2>1, <3>1
    <3>3. f[i] = due[i + 1] /\ f[i - 1] = due[i] /\ r[i] = q[i + 1] BY <2>1, <2>2, <2>3, <2>6
    <3> QED BY <1>7, <2>1, <3>2, <3>3
  <2> QED BY <2>1, <2>4, <2>5, <2>6
<1>14. Adds(r, k, Len(r), f)
  <2> HIDE DEF f
  <2> QED BY <1>10, <1>12, <1>13 DEF Adds
<1> HIDE DEF f
<1>15. DueAfter(r, k) = f BY <1>10, <1>11, <1>14, DueIs
<1>16. ASSUME NEW x, NEW n, x # p, DueNotBefore(q, keys, x, n) PROVE DueNotBefore(r, k, x, n)
  <2>1. PICK i \in 1 .. Len(q) : q[i] = x /\ due[i] >= n BY <1>1, <1>16 DEF DueNotBefore, due
  <2>2. i # pos BY <1>3, <1>16, <2>1
  <2>3. CASE i < pos
    <3>1. i \in 1 .. Len(q) - 1 /\ i \in 0 .. Len(q) - 1 BY <1>1, <1>3, <2>1, <2>3
    <3>2. r[i] = x /\ f[i] = due[i] BY <1>10, <2>1, <2>3, <3>1 DEF f
    <3> QED BY <1>10, <1>15, <2>1, <3>1, <3>2 DEF DueNotBefore
  <2>4. CASE i > pos
    <3>1. /\ i - 1 \in 1 .. Len(q) - 1 /\ i - 1 \in 0 .. Len(q) - 1 /\ ~(i - 1 < pos) /\ i - 1 + 1 = i
      BY <1>1, <1>3, <2>1, <2>4
    <3>2. r[i - 1] = x BY <1>10, <2>1, <3>1
    <3>3. f[i - 1] = due[i] BY <3>1 DEF f
    <3> QED BY <1>10, <1>15, <2>1, <3>1, <3>2, <3>3 DEF DueNotBefore
  <2> QED BY <1>1, <1>3, <2>1, <2>2, <2>3, <2>4
<1> QED BY <1>9, <1>16 DEF r, k

----------------------------------------------------------------------------
(***************************************************************************)
(* What wait(), signal() and signaln() do to the value of a semaphore, its *)
(* free tokens and the set of processes that wait for it; and the places   *)
(* of a ring: the facts that the proofs about drivers and pools cite.      *)
(***************************************************************************)
(* The processes of P wait for sem, each once: -count of them, or nobody. *)
Holds(sem, P) ==
    /\ sem = [count |-> sem.count, queue |-> sem.queue]
    /\ sem.count \in Int
    /\ Lists(sem.queue, P)
    /\ Len(sem.queue) = IF sem.count < 0 THEN 0 - sem.count ELSE 0

LEMMA MinOfTwo ==
    ASSUME NEW a \in Int, NEW b \in Int
    PROVE  Min({a, b}) = IF a <= b THEN a ELSE b
<1> DEFINE m == IF a <= b THEN a ELSE b
<1>1. m \in {a, b} /\ \A y \in {a, b} : m <= y OBVIOUS
<1>2. \A x \in {a, b} : (\A y \in {a, b} : x <= y) => x = m OBVIOUS
<1> HIDE DEF m
<1>3. Min({a, b}) = m BY <1>1, <1>2 DEF Min
<1> QED BY <1>3 DEF m

(* A set that disjoint elements join. *)
LEMMA CardinalityOfBoth ==
    ASSUME NEW S, NEW T, IsFiniteSet(S), IsFiniteSet(T), S \cap T = {}
    PROVE  /\ IsFiniteSet(S \cup T)
           /\ Cardinality(S \cup T) = Cardinality(S) + Cardinality(T)
           /\ Cardinality(S) \in Nat /\ Cardinality(T) \in Nat
<1>1. Cardinality(S) \in Nat /\ Cardinality(T) \in Nat BY FS_CardinalityType
<1>2. Cardinality(S \cap T) = 0 BY FS_EmptySet
<1>3. /\ IsFiniteSet(S \cup T)
      /\ Cardinality(S \cup T) = Cardinality(S) + Cardinality(T) - Cardinality(S \cap T)
  BY FS_Union
<1> QED BY <1>1, <1>2, <1>3

(* The first m of those that q lists are m processes. *)
LEMMA FirstCounted ==
    ASSUME NEW P, NEW q, Lists(q, P), NEW m \in 0 .. Len(q),
           NEW R, R = {q[i] : i \in 1 .. m}
    PROVE  R \subseteq P /\ IsFiniteSet(R) /\ Cardinality(R) = m
<1> DEFINE f == [i \in 1 .. m |-> q[i]]
<1>1. q \in Seq(P) /\ Len(q) \in Nat /\ DOMAIN q = 1 .. Len(q)
      /\ \A i \in 1 .. Len(q) : q[i] \in P
  BY LenProperties DEF Lists
<1>2. \A i \in 1 .. m : i \in 1 .. Len(q) BY <1>1
<1>3. R \subseteq P BY <1>1, <1>2
<1>4. f \in [1 .. m -> R] OBVIOUS
<1>5. \A i, j \in 1 .. m : f[i] = f[j] => i = j BY <1>1, <1>2 DEF Lists, NoDup
<1>6. \A t \in R : \E i \in 1 .. m : f[i] = t OBVIOUS
<1>7. f \in Bijection(1 .. m, R)
  <2>1. f \in Injection(1 .. m, R) BY <1>4, <1>5 DEF Injection, IsInjective
  <2>2. f \in Surjection(1 .. m, R) BY <1>4, <1>6 DEF Surjection
  <2> QED BY <2>1, <2>2 DEF Bijection
<1>8. ExistsBijection(1 .. m, R) BY <1>7 DEF ExistsBijection
<1>9. IsFiniteSet(1 .. m) /\ Cardinality(1 .. m) = m
  <2>1. m \in Nat BY <1>1
  <2> QED BY <2>1, FS_Interval
<1> QED BY <1>3, <1>8, <1>9, FS_Bijection

(* The others, from m + 1 on, still wait in their order. *)
LEMMA RestLists ==
    ASSUME NEW P, NEW q, Lists(q, P), NEW m \in 0 .. Len(q),
           NEW R, R = {q[i] : i \in 1 .. m}
    PROVE  /\ Lists(SubSeq(q, m + 1, Len(q)), P \ R)
           /\ Len(SubSeq(q, m + 1, Len(q))) = Len(q) - m
<1> DEFINE r == SubSeq(q, m + 1, Len(q))
           n == Len(q)
<1>1. q \in Seq(P) /\ n \in Nat /\ DOMAIN q = 1 .. n
      /\ \A i \in 1 .. n : q[i] \in P
  BY LenProperties DEF Lists
<1>2. \A i, j \in 1 .. n : q[i] = q[j] => i = j BY <1>1 DEF Lists, NoDup
<1>3. \A p \in P : \E i \in 1 .. n : q[i] = p BY <1>1 DEF Lists
<1>4. r \in Seq(P) /\ Len(r) = n - m /\ \A i \in 1 .. n - m : r[i] = q[m + i]
  <2>1. m + 1 \in Int /\ n \in Int BY <1>1
  <2>2. \A i \in m + 1 .. n : q[i] \in P BY <1>1
  <2>3. Len(r) = IF m + 1 <= n THEN n - (m + 1) + 1 ELSE 0
    BY <2>1, <2>2, <1>1, SubSeqProperties
  <2>4. \A i \in 1 .. n - (m + 1) + 1 : r[i] = q[m + 1 + i - 1]
    BY <2>1, <2>2, <1>1, SubSeqProperties
  <2>5. r \in Seq(P) BY <2>1, <2>2, <1>1, SubSeqProperties
  <2> HIDE DEF r, n
  <2>6. Len(r) = n - m BY <2>3, <1>1
  <2>7. \A i \in 1 .. n - m : m + 1 + i - 1 = m + i /\ i \in 1 .. n - (m + 1) + 1 BY <1>1
  <2> QED BY <2>4, <2>5, <2>6, <2>7
<1> HIDE DEF r
<1>5. \A i \in 1 .. n - m : m + i \in 1 .. n /\ r[i] \in P \ R
  <2> SUFFICES ASSUME NEW i \in 1 .. n - m PROVE m + i \in 1 .. n /\ r[i] \in P \ R
    OBVIOUS
  <2>1. m + i \in 1 .. n /\ \A j \in 1 .. m : j \in 1 .. n /\ j # m + i BY <1>1
  <2>2. \A j \in 1 .. m : q[j] # q[m + i] BY <2>1, <1>2
  <2> QED BY <2>1, <2>2, <1>1, <1>4
<1>6. r \in Seq(P \ R)
  <2>1. r = [i \in 1 .. Len(r) |-> r[i]] /\ Len(r) \in Nat BY <1>1, <1>4, LenProperties
  <2> QED BY <2>1, <1>4, <1>5, IsASeq
<1>7. DOMAIN r = 1 .. n - m BY <1>4, LenProperties
<1>8. NoDup(r)
  <2> SUFFICES ASSUME NEW i \in 1 .. n - m, NEW j \in 1 .. n - m, r[i] = r[j] PROVE i = j
    BY <1>7 DEF NoDup
  <2>1. q[m + i] = q[m + j] /\ m + i \in 1 .. n /\ m + j \in 1 .. n BY <1>4, <1>5
  <2>2. m + i = m + j BY <2>1, <1>2
  <2> QED BY <2>2, <1>1
<1>9. ASSUME NEW p \in P \ R PROVE \E i \in DOMAIN r : r[i] = p
  <2>1. PICK k \in 1 .. n : q[k] = p BY <1>3
  <2>2. k \notin 1 .. m BY <2>1
  <2>3. k - m \in 1 .. n - m /\ m + (k - m) = k BY <2>2, <1>1
  <2>4. r[k - m] = p BY <2>1, <2>3, <1>4
  <2> QED BY <2>3, <2>4, <1>7
<1>10. Lists(r, P \ R) BY <1>6, <1>8, <1>9 DEF Lists
<1> QED BY <1>4, <1>10 DEF r

(* semcreate() *)
LEMMA SemHolds ==
    ASSUME NEW n \in Nat
    PROVE  Holds(SemWith(n), {}) /\ Tokens(SemWith(n)) = n
<1>1. SemWith(n).count = n /\ SemWith(n).queue = <<>> /\ SemWith(n) = [count |-> n, queue |-> <<>>]
  BY DEF SemWith
<1>2. <<>> \in Seq({}) /\ Len(<<>>) = 0 /\ DOMAIN <<>> = {}
  BY EmptySeq, LenProperties
<1>3. Lists(<<>>, {}) BY <1>2 DEF Lists, NoDup
<1> QED BY <1>1, <1>2, <1>3 DEF Holds, Tokens

(* A wait() that does not block: one token less, and nobody waits. *)
LEMMA TakeHolds ==
    ASSUME NEW sem, NEW P, Holds(sem, P), sem.count > 0
    PROVE  /\ Holds(Take(sem), P)
           /\ Tokens(Take(sem)) = Tokens(sem) - 1 /\ Tokens(sem) \in Nat
<1>1. Take(sem) = [count |-> sem.count - 1, queue |-> sem.queue] BY DEF Take, Holds
<1>2. Take(sem).count = sem.count - 1 /\ Take(sem).queue = sem.queue BY <1>1
<1> QED BY <1>1, <1>2 DEF Holds, Tokens

(* One that blocks: there is no token, and the caller waits with the rest. *)
LEMMA WaitOnHolds ==
    ASSUME NEW sem, NEW P, Holds(sem, P), sem.count <= 0, NEW p, p \notin P
    PROVE  /\ Holds(WaitOn(sem, p), P \cup {p})
           /\ Tokens(WaitOn(sem, p)) = Tokens(sem) /\ Tokens(sem) = 0
<1>1. /\ WaitOn(sem, p) = [count |-> sem.count - 1, queue |-> Append(sem.queue, p)]
      /\ WaitOn(sem, p).count = sem.count - 1
      /\ WaitOn(sem, p).queue = Append(sem.queue, p)
  BY DEF WaitOn
<1>2. Lists(Append(sem.queue, p), P \cup {p}) /\ Len(Append(sem.queue, p)) = Len(sem.queue) + 1
  BY AppendLists DEF Holds
<1>3. sem.count \in Int /\ Len(sem.queue) = IF sem.count < 0 THEN 0 - sem.count ELSE 0
  BY DEF Holds
<1> QED BY <1>1, <1>2, <1>3 DEF Holds, Tokens

(* signaln(): each of the n tokens goes to one that waits, or is free. *)
LEMMA SignalnHolds ==
    ASSUME NEW sem, NEW P, Holds(sem, P), NEW n \in Nat, NEW R, R = Released(sem, n)
    PROVE  /\ R \subseteq P /\ IsFiniteSet(R) /\ Cardinality(R) \in Nat
           /\ Holds(SignalnOn(sem, n), P \ R)
           /\ Tokens(SignalnOn(sem, n)) + Cardinality(R) = Tokens(sem) + n
           /\ Tokens(SignalnOn(sem, n)) \in Nat /\ Tokens(sem) \in Nat
<1> DEFINE q == sem.queue
           c == sem.count
           l == Len(q)
           m == Min({n, l})
           r == SubSeq(q, m + 1, Len(q))
<1>1. Lists(q, P) /\ c \in Int /\ l = IF c < 0 THEN 0 - c ELSE 0 BY DEF Holds
<1>2. l \in Nat BY <1>1
<1>3. m = IF n <= l THEN n ELSE l BY <1>2, MinOfTwo
<1>4. R = {q[i] : i \in 1 .. m} BY DEF Released
<1>5. /\ SignalnOn(sem, n) = [count |-> c + n, queue |-> r]
      /\ SignalnOn(sem, n).count = c + n /\ SignalnOn(sem, n).queue = r
  BY DEF SignalnOn
<1>6. m \in 0 .. Len(q)
  <2> HIDE DEF m
  <2> QED BY <1>2, <1>3
<1> HIDE DEF m
<1>7. R \subseteq P /\ IsFiniteSet(R) /\ Cardinality(R) = m BY <1>1, <1>4, <1>6, FirstCounted
<1>8. Lists(r, P \ R) /\ Len(r) = l - m BY <1>1, <1>4, <1>6, RestLists
<1> HIDE DEF r, q, c, l
<1>9. l - m = IF c + n < 0 THEN 0 - (c + n) ELSE 0 BY <1>1, <1>3
<1>10. Holds(SignalnOn(sem, n), P \ R) BY <1>1, <1>5, <1>8, <1>9 DEF Holds
<1>11. /\ (IF c + n > 0 THEN c + n ELSE 0) + m = (IF c > 0 THEN c ELSE 0) + n
       /\ m \in Nat
  BY <1>1, <1>3
<1>12. Tokens(sem) = (IF c > 0 THEN c ELSE 0) BY DEF Tokens, c
<1>13. Tokens(SignalnOn(sem, n)) = (IF c + n > 0 THEN c + n ELSE 0) BY <1>5 DEF Tokens
<1> QED BY <1>1, <1>7, <1>10, <1>11, <1>12, <1>13
----------------------------------------------------------------------------
(***************************************************************************)
(* The places of a ring, which the drivers take modulo its size.           *)
(***************************************************************************)
(* The place j after a, in a ring of n. *)
LEMMA Around ==
    ASSUME NEW n \in Nat \ {0}, NEW a \in 0 .. n - 1, NEW j \in 0 .. n
    PROVE  (a + j) % n = IF a + j < n THEN a + j ELSE a + j - n
<1>1. CASE a + j < n BY <1>1
<1>2. CASE a + j >= n
  <2>1. a + j - n \in 0 .. n - 1 BY <1>2
  <2>2. ((a + j - n) + n) % n = a + j - n BY <2>1
  <2> QED BY <1>2, <2>2
<1> QED BY <1>1, <1>2

(* Two places less than a round apart are not the same. *)
LEMMA ApartAround ==
    ASSUME NEW n \in Nat \ {0}, NEW a \in 0 .. n - 1, NEW i \in 0 .. n - 1, NEW j \in 0 .. n - 1,
           (a + i) % n = (a + j) % n
    PROVE  i = j
<1>1. i \in 0 .. n /\ j \in 0 .. n OBVIOUS
<1>2. /\ (a + i) % n = IF a + i < n THEN a + i ELSE a + i - n
      /\ (a + j) % n = IF a + j < n THEN a + j ELSE a + j - n
  BY <1>1, Around
<1> QED BY <1>2

LEMMA RestIsUnique ==
    ASSUME NEW n \in Nat \ {0}, NEW q \in Int, NEW r \in 0 .. n - 1, NEW s \in 0 .. n - 1,
           NEW t \in Int, n * q + r = n * t + s
    PROVE  r = s
<1>1. n * (q - t) = s - r OBVIOUS
<1>2. PICK k \in Int : k = q - t OBVIOUS
<1>3. n * k = s - r BY <1>1, <1>2
<1>4. k >= 1 => n * k >= n OBVIOUS
<1>5. k <= -1 => n * k <= 0 - n OBVIOUS
<1>6. k = 0 BY <1>3, <1>4, <1>5
<1> QED BY <1>3, <1>6

LEMMA Quotient ==
    ASSUME NEW n \in Nat \ {0}, NEW x \in Nat
    PROVE  x % n \in 0 .. n - 1 /\ x = n * (x \div n) + (x % n) /\ x \div n \in Int
OBVIOUS

(* Only where h is on the ring matters. *)
LEMMA OnTheRing ==
    ASSUME NEW n \in Nat \ {0}, NEW h \in Nat, NEW j \in Nat
    PROVE  /\ h % n \in 0 .. n - 1
           /\ (h + j) % n = ((h % n) + j) % n
           /\ (h + j) % n \in 0 .. n - 1
<1> DEFINE a == h % n
           r == (a + j) % n
           s == (h + j) % n
<1>1. a \in 0 .. n - 1 /\ h = n * (h \div n) + a /\ h \div n \in Int BY Quotient
<1>2. a + j \in Nat BY <1>1
<1>3. r \in 0 .. n - 1 /\ a + j = n * ((a + j) \div n) + r /\ (a + j) \div n \in Int
  BY <1>2, Quotient
<1>4. s \in 0 .. n - 1 /\ h + j = n * ((h + j) \div n) + s /\ (h + j) \div n \in Int
  <2>1. h + j \in Nat OBVIOUS
  <2> QED BY <2>1, Quotient
<1>5. PICK u \in Int, v \in Int, w \in Int :
          u = h \div n /\ v = (a + j) \div n /\ w = (h + j) \div n
  BY <1>1, <1>3, <1>4
<1> HIDE DEF a, r, s
<1>6. n * u + (n * v + r) = n * w + s BY <1>1, <1>3, <1>4, <1>5
<1>7. n * (u + v) + r = n * w + s
  <2>1. r \in Int /\ s \in Int BY <1>3, <1>4
  <2>2. n * (u + v) = n * u + n * v OBVIOUS
  <2>3. n * u \in Int /\ n * v \in Int /\ n * w \in Int OBVIOUS
  <2> QED BY <1>6, <2>1, <2>2, <2>3
<1>8. r = s BY <1>3, <1>4, <1>7, RestIsUnique
<1> QED BY <1>1, <1>4, <1>8 DEF a, r, s

LEMMA ApartOnTheRing ==
    ASSUME NEW n \in Nat \ {0}, NEW h \in Nat, NEW i \in 0 .. n - 1, NEW j \in 0 .. n - 1,
           (h + i) % n = (h + j) % n
    PROVE  i = j
<1>1. PICK a \in 0 .. n - 1 : a = h % n BY OnTheRing
<1>2. i \in Nat /\ j \in Nat OBVIOUS
<1>3. (h + i) % n = (a + i) % n /\ (h + j) % n = (a + j) % n BY <1>1, <1>2, OnTheRing
<1> QED BY <1>3, ApartAround

(* The next place, and one further back. *)
LEMMA NextOnTheRing ==
    ASSUME NEW n \in Nat \ {0}, NEW x \in Nat
    PROVE  /\ x % n \in 0 .. n - 1
           /\ (x + 1) % n = IF (x % n) + 1 >= n THEN 0 ELSE (x % n) + 1
<1>1. PICK a \in 0 .. n - 1 : a = x % n BY Quotient
<1>2. (x + 1) % n = (a + 1) % n BY <1>1, OnTheRing
<1>3. 1 \in 0 .. n OBVIOUS
<1>4. (a + 1) % n = IF a + 1 < n THEN a + 1 ELSE a + 1 - n BY <1>3, Around
<1> QED BY <1>1, <1>2, <1>4

LEMMA BackOnTheRing ==
    ASSUME NEW n \in Nat \ {0}, NEW x \in Nat, NEW k \in Nat, k <= x, k <= x % n
    PROVE  (x - k) % n = (x % n) - k
<1>1. PICK a \in 0 .. n - 1 : a = x % n BY Quotient
<1>2. PICK b \in 0 .. n - 1 : b = (x - k) % n
  <2>1. x - k \in Nat OBVIOUS
  <2> QED BY <2>1, Quotient
<1>3. (x - k) + k = x OBVIOUS
<1>4. PICK y \in Nat : y = x - k OBVIOUS
<1>5. x = n * (x \div n) + a /\ x \div n \in Int BY <1>1, Quotient
<1>6. y = n * (y \div n) + b /\ y \div n \in Int BY <1>2, <1>4, Quotient
<1>7. PICK u \in Int, v \in Int : u = x \div n /\ v = y \div n BY <1>5, <1>6
<1>8. n * u + (a - k) = n * v + b BY <1>4, <1>5, <1>6, <1>7
<1>9. a - k \in 0 .. n - 1 BY <1>1
<1>10. a - k = b BY <1>8, <1>9, RestIsUnique
<1> QED BY <1>1, <1>2, <1>10

(* Two numbers less than a round apart have different places. *)
LEMMA ApartInARound ==
    ASSUME NEW n \in Nat \ {0}, NEW x \in Nat, NEW y \in Nat, x <= y, y - x < n,
           x % n = y % n
    PROVE  x = y
<1>1. PICK i \in 0 .. n - 1 : i = y - x OBVIOUS
<1>2. 0 \in 0 .. n - 1 /\ x + 0 = x /\ x + i = y BY <1>1
<1>3. i = 0 BY <1>2, ApartOnTheRing
<1> QED BY <1>1, <1>3
=============================================================================
