---------------------------- MODULE XinuRdsProofs ----------------------------
(***************************************************************************)
(* Theorems about the remote disk driver.  No buffer is lost, for any      *)
(* number of processes, blocks, shared or not, and buffers.  While no      *)
(* message outlives the time limit of its exchange, no write is lost until *)
(* two of a block have waited at once, and the driver is a disk, to        *)
(* processes that do not use the block number of the sync requests, until  *)
(* a write and another request of its block have.                          *)
(***************************************************************************)
EXTENDS XinuRds, XinuQueueProofs

----------------------------------------------------------------------------
(***************************************************************************)
(* Lists: the elements they have, and what the driver does to them.        *)
(***************************************************************************)
LEMMA ListedOnce ==
    ASSUME NEW P, NEW q, Lists(q, P)
    PROVE  /\ ToSet(q) = P /\ IsFiniteSet(P) /\ Cardinality(P) = Len(q) /\ Len(q) \in Nat
           /\ DOMAIN q = 1 .. Len(q) /\ q \in Seq(P)
           /\ \A i \in 1 .. Len(q) : q[i] \in P
           /\ \A i, j \in 1 .. Len(q) : q[i] = q[j] => i = j
           /\ \A p \in P : \E i \in 1 .. Len(q) : q[i] = p
<1>1. q \in Seq(P) BY DEF Lists
<1>2. Len(q) \in Nat /\ DOMAIN q = 1 .. Len(q) /\ \A i \in 1 .. Len(q) : q[i] \in P
  BY <1>1, LenProperties
<1>3. \A p \in P : \E i \in 1 .. Len(q) : q[i] = p BY <1>2 DEF Lists
<1>4. \A i, j \in 1 .. Len(q) : q[i] = q[j] => i = j BY <1>2 DEF Lists, NoDup
<1>5. P = {q[i] : i \in 1 .. Len(q)} BY <1>2, <1>3
<1>6. IsFiniteSet(P) /\ Cardinality(P) = Len(q)
  <2>1. Len(q) \in 0 .. Len(q) BY <1>2
  <2> QED BY <2>1, <1>5, FirstCounted
<1>7. ToSet(q) = P BY <1>2, <1>5 DEF ToSet
<1> QED BY <1>1, <1>2, <1>3, <1>4, <1>6, <1>7

LEMMA JoinLists ==
    ASSUME NEW P, NEW q, Lists(q, P), NEW R, NEW r, Lists(r, R), P \cap R = {}
    PROVE  Lists(q \o r, P \cup R) /\ Len(q \o r) = Len(q) + Len(r)
<1> DEFINE T == P \cup R
           s == q \o r
           m == Len(q)
           n == Len(r)
<1>1. /\ q \in Seq(P) /\ m \in Nat /\ \A i \in 1 .. m : q[i] \in P
      /\ \A i, j \in 1 .. m : q[i] = q[j] => i = j
      /\ \A p \in P : \E i \in 1 .. m : q[i] = p
  BY ListedOnce
<1>2. /\ r \in Seq(R) /\ n \in Nat /\ \A i \in 1 .. n : r[i] \in R
      /\ \A i, j \in 1 .. n : r[i] = r[j] => i = j
      /\ \A p \in R : \E i \in 1 .. n : r[i] = p
  BY ListedOnce
<1>3. q \in Seq(T) /\ r \in Seq(T)
  <2>1. P \subseteq T /\ R \subseteq T OBVIOUS
  <2> HIDE DEF T
  <2> QED BY <2>1, <1>1, <1>2, SeqMonotonic
<1>4. s \in Seq(T) /\ Len(s) = m + n /\ \A i \in 1 .. m + n : s[i] = IF i <= m THEN q[i] ELSE r[i - m]
  BY <1>3, ConcatProperties
<1>5. DOMAIN s = 1 .. m + n BY <1>4, LenProperties
<1> HIDE DEF s, m, n
<1>6. \A i \in 1 .. m : s[i] = q[i] /\ i \in 1 .. m + n BY <1>1, <1>2, <1>4
<1>7. \A i \in 1 .. n : s[m + i] = r[i] /\ m + i \in 1 .. m + n
  <2> SUFFICES ASSUME NEW i \in 1 .. n PROVE s[m + i] = r[i] /\ m + i \in 1 .. m + n OBVIOUS
  <2>1. m + i \in 1 .. m + n /\ ~(m + i <= m) /\ (m + i) - m = i BY <1>1, <1>2
  <2> QED BY <2>1, <1>4
<1>8. \A i \in 1 .. m + n : i \in 1 .. m \/ \E j \in 1 .. n : i = m + j
  <2> SUFFICES ASSUME NEW i \in 1 .. m + n, i \notin 1 .. m PROVE i - m \in 1 .. n /\ i = m + (i - m)
    OBVIOUS
  <2> QED BY <1>1, <1>2
<1>9. NoDup(s)
  <2> SUFFICES ASSUME NEW i \in 1 .. m + n, NEW j \in 1 .. m + n, s[i] = s[j] PROVE i = j
    BY <1>5 DEF NoDup
  <2>1. ASSUME i \in 1 .. m, j \in 1 .. m PROVE i = j BY <2>1, <1>1, <1>6
  <2>2. ASSUME i \in 1 .. m, NEW k \in 1 .. n, j = m + k PROVE FALSE BY <2>2, <1>1, <1>2, <1>6, <1>7
  <2>3. ASSUME j \in 1 .. m, NEW k \in 1 .. n, i = m + k PROVE FALSE BY <2>3, <1>1, <1>2, <1>6, <1>7
  <2>4. ASSUME NEW k \in 1 .. n, i = m + k, NEW l \in 1 .. n, j = m + l PROVE i = j
    <3>1. r[k] = r[l] BY <2>4, <1>7
    <3> QED BY <3>1, <2>4, <1>2
  <2> QED BY <2>1, <2>2, <2>3, <2>4, <1>8
<1>10. \A p \in T : \E i \in 1 .. m + n : s[i] = p
  <2> SUFFICES ASSUME NEW p \in T PROVE \E i \in 1 .. m + n : s[i] = p OBVIOUS
  <2>1. ASSUME p \in P PROVE \E i \in 1 .. m + n : s[i] = p BY <2>1, <1>1, <1>6
  <2>2. ASSUME p \in R PROVE \E i \in 1 .. m + n : s[i] = p BY <2>2, <1>2, <1>7
  <2> QED BY <2>1, <2>2
<1> QED BY <1>4, <1>5, <1>9, <1>10 DEF Lists, s, m, n

LEMMA ConsLists ==
    ASSUME NEW P, NEW q, Lists(q, P), NEW p, p \notin P
    PROVE  Lists(<<p>> \o q, P \cup {p}) /\ Len(<<p>> \o q) = Len(q) + 1
<1>1. <<p>> \in Seq({p}) /\ DOMAIN <<p>> = 1 .. 1 /\ <<p>>[1] = p /\ Len(<<p>>) = 1 OBVIOUS
<1>2. Lists(<<p>>, {p}) BY <1>1 DEF Lists, NoDup
<1>3. {p} \cap P = {} OBVIOUS
<1>4. Lists(<<p>> \o q, {p} \cup P) /\ Len(<<p>> \o q) = Len(<<p>>) + Len(q) BY <1>2, <1>3, JoinLists
<1>5. Len(q) \in Nat BY ListedOnce
<1>6. {p} \cup P = P \cup {p} OBVIOUS
<1>7. Lists(<<p>> \o q, P \cup {p}) BY <1>4, <1>6, Zenon
<1>8. Len(<<p>> \o q) = 1 + Len(q) BY <1>1, <1>4, Zenon
<1> QED BY <1>5, <1>7, <1>8

LEMMA ReverseLists ==
    ASSUME NEW P, NEW q, Lists(q, P)
    PROVE  Lists(Reverse(q), P) /\ Len(Reverse(q)) = Len(q)
<1> DEFINE n == Len(q)
           r == Reverse(q)
<1>1. /\ n \in Nat /\ \A i \in 1 .. n : q[i] \in P
      /\ \A i, j \in 1 .. n : q[i] = q[j] => i = j
      /\ \A p \in P : \E i \in 1 .. n : q[i] = p
  BY ListedOnce
<1>2. r = [i \in 1 .. n |-> q[(n - i) + 1]] BY DEF Reverse
<1> HIDE DEF n, r
<1>3. \A i \in 1 .. n : (n - i) + 1 \in 1 .. n /\ (n - ((n - i) + 1)) + 1 = i BY <1>1
<1>4. \A i \in 1 .. n : q[(n - i) + 1] \in P BY <1>1, <1>3
<1>5. r \in Seq(P) BY <1>1, <1>2, <1>4, IsASeq
<1>6. DOMAIN r = 1 .. n BY <1>2
<1>7. Len(r) = n
  <2>1. DOMAIN r = 1 .. Len(r) /\ Len(r) \in Nat BY <1>5, LenProperties
  <2>2. PICK l \in Nat : l = Len(r) BY <2>1
  <2>3. \A i : i \in 1 .. l <=> i \in 1 .. n BY <2>1, <2>2, <1>6
  <2>4. l # 0 => l \in 1 .. l BY <2>2
  <2>5. n \in Nat /\ (n # 0 => n \in 1 .. n) BY <1>1
  <2>6. l = n BY <2>2, <2>3, <2>4, <2>5
  <2> QED BY <2>2, <2>6
<1>8. NoDup(r)
  <2> SUFFICES ASSUME NEW i \in 1 .. n, NEW j \in 1 .. n, r[i] = r[j] PROVE i = j BY <1>6 DEF NoDup
  <2>1. (n - i) + 1 = (n - j) + 1 BY <1>1, <1>2, <1>3
  <2> QED BY <2>1, <1>1
<1>9. \A p \in P : \E i \in 1 .. n : r[i] = p
  <2> SUFFICES ASSUME NEW p \in P PROVE \E i \in 1 .. n : r[i] = p OBVIOUS
  <2>1. PICK k \in 1 .. n : q[k] = p BY <1>1
  <2>2. r[(n - k) + 1] = p BY <2>1, <1>2, <1>3
  <2> QED BY <2>2, <1>3
<1> QED BY <1>5, <1>6, <1>7, <1>8, <1>9 DEF Lists, n, r

(* What SelectInSeq and SelectLastInSeq make of a set of places. *)
LEMMA FirstPlace ==
    ASSUME NEW n \in Nat, NEW S, S \subseteq 1 .. n, NEW i, i = IF S # {} THEN Min(S) ELSE 0
    PROVE  /\ S = {} <=> i = 0
           /\ S # {} => i \in S /\ \A j \in S : i <= j
<1>1. S \subseteq Nat /\ 0 \notin S OBVIOUS
<1>2. ASSUME S # {} PROVE Min(S) \in S /\ \A j \in S : Min(S) <= j
  BY <1>1, <1>2, LeastExists DEF Min, Least
<1> QED BY <1>1, <1>2

LEMMA LastPlace ==
    ASSUME NEW n \in Nat, NEW S, S \subseteq 1 .. n, NEW i, i = IF S # {} THEN Max(S) ELSE 0
    PROVE  /\ S = {} <=> i = 0
           /\ S # {} => i \in S /\ \A j \in S : i >= j
<1> DEFINE T == {n - x : x \in S}
<1>1. S \subseteq Nat /\ 0 \notin S /\ \A x \in S : n - x \in Nat /\ n - (n - x) = x OBVIOUS
<1>2. ASSUME S # {} PROVE \E m \in S : \A j \in S : m >= j
  <2>1. T \subseteq Nat /\ T # {} BY <1>1, <1>2
  <2>2. Least(T) \in T /\ \A x \in T : Least(T) <= x
    <3> HIDE DEF T
    <3> QED BY <2>1, LeastExists
  <2>3. PICK m \in S : Least(T) = n - m BY <2>2
  <2>4. \A j \in S : n - m <= n - j BY <2>2, <2>3
  <2>5. \A j \in S : m >= j BY <2>4, <1>1
  <2> QED BY <2>5
<1>3. ASSUME S # {} PROVE Max(S) \in S /\ \A j \in S : Max(S) >= j
  BY <1>2, <1>3 DEF Max
<1> QED BY <1>1, <1>3

(* FirstFor, LastFor, QueuedWrite and Oldest *)
LEMMA FirstForIs ==
    ASSUME NEW list, Len(list) \in Nat, NEW blk, NEW i, i = FirstFor(list, blk)
    PROVE  /\ i = 0 => \A j \in 1 .. Len(list) : buf[list[j]].blk # blk
           /\ i # 0 => /\ i \in 1 .. Len(list) /\ buf[list[i]].blk = blk
                       /\ \A j \in 1 .. Len(list) : j < i => buf[list[j]].blk # blk
<1> DEFINE S == {j \in 1 .. Len(list) : buf[list[j]].blk = blk}
<1>1. i = IF S # {} THEN Min(S) ELSE 0 BY DEF FirstFor, SelectInSeq
<1>2. S \subseteq 1 .. Len(list) OBVIOUS
<1>3. /\ S = {} <=> i = 0
      /\ S # {} => i \in S /\ \A j \in S : i <= j
  <2> HIDE DEF S
  <2> QED BY <1>1, <1>2, FirstPlace
<1>4. \A j \in 1 .. Len(list) : i <= j => ~(j < i) BY <1>3
<1> QED BY <1>3, <1>4

LEMMA LastForIs ==
    ASSUME NEW list, Len(list) \in Nat, NEW blk, NEW i, i = LastFor(list, blk)
    PROVE  /\ i = 0 => \A j \in 1 .. Len(list) : buf[list[j]].blk # blk
           /\ i # 0 => /\ i \in 1 .. Len(list) /\ buf[list[i]].blk = blk
                       /\ \A j \in 1 .. Len(list) : j > i => buf[list[j]].blk # blk
<1> DEFINE S == {j \in 1 .. Len(list) : buf[list[j]].blk = blk}
<1>1. i = IF S # {} THEN Max(S) ELSE 0 BY DEF LastFor, SelectLastInSeq
<1>2. S \subseteq 1 .. Len(list) OBVIOUS
<1>3. /\ S = {} <=> i = 0
      /\ S # {} => i \in S /\ \A j \in S : i >= j
  <2> HIDE DEF S
  <2> QED BY <1>1, <1>2, LastPlace
<1>4. \A j \in 1 .. Len(list) : i >= j => ~(j > i) BY <1>3
<1> QED BY <1>3, <1>4

(* A write of the block that is queued. *)
Writes(blk) == {b \in ToSet(reqq) : buf[b].op = "write" /\ buf[b].blk = blk}

LEMMA QueuedWriteIs ==
    ASSUME NEW Q, Lists(reqq, Q), NEW blk, NEW i, i = QueuedWrite(blk)
    PROVE  /\ i = 0 <=> Writes(blk) = {}
           /\ i # 0 => i \in 1 .. Len(reqq) /\ reqq[i] \in Writes(blk)
<1> DEFINE S == {j \in 1 .. Len(reqq) : buf[reqq[j]].blk = blk /\ buf[reqq[j]].op = "write"}
<1>1. i = IF S # {} THEN Min(S) ELSE 0 BY DEF QueuedWrite, SelectInSeq
<1>2. /\ S \subseteq 1 .. Len(reqq) /\ Len(reqq) \in Nat /\ ToSet(reqq) = Q
      /\ \A j \in 1 .. Len(reqq) : reqq[j] \in Q
      /\ \A b \in Q : \E j \in 1 .. Len(reqq) : reqq[j] = b
  BY ListedOnce
<1>3. /\ S = {} <=> i = 0
      /\ S # {} => i \in S
  <2> HIDE DEF S
  <2> QED BY <1>1, <1>2, FirstPlace
<1>4. \A j \in S : reqq[j] \in Writes(blk) BY <1>2 DEF Writes
<1>5. \A b \in Writes(blk) : \E j \in S : reqq[j] = b
  BY <1>2 DEF Writes
<1>6. S = {} <=> Writes(blk) = {}
  <2> HIDE DEF S
  <2> QED BY <1>4, <1>5
<1>7. i # 0 => i \in S BY <1>3, Zenon
<1>8. i = 0 <=> Writes(blk) = {} BY <1>3, <1>6, Zenon
<1>9. ASSUME i # 0 PROVE i \in 1 .. Len(reqq) /\ reqq[i] \in Writes(blk)
  BY <1>2, <1>4, <1>7, <1>9
<1> QED BY <1>8, <1>9, Zenon

LEMMA OldestIs ==
    ASSUME Len(cache) \in Nat, Oldest # 0
    PROVE  Oldest \in 1 .. Len(cache) /\ buf[cache[Oldest]].refcnt <= 0
<1> DEFINE S == {j \in 1 .. Len(cache) : buf[cache[j]].refcnt <= 0}
<1>1. Oldest = IF S # {} THEN Max(S) ELSE 0 BY DEF Oldest, SelectLastInSeq
<1>2. S \subseteq 1 .. Len(cache) OBVIOUS
<1>3. PICK i : i = Oldest OBVIOUS
<1>4. i \in S
  <2> HIDE DEF S
  <2> QED BY <1>1, <1>2, <1>3, LastPlace
<1> QED BY <1>3, <1>4
----------------------------------------------------------------------------
(***************************************************************************)
(* Every buffer is on one of the three lists, and there is a token for     *)
(* every buffer that can be taken.                                         *)
(***************************************************************************)
(* Each buffer is on one of three lists, once. *)
OnThreeLists(q, c, f) ==
    \E Q, C, F :
        /\ Lists(q, Q) /\ Lists(c, C) /\ Lists(f, F)
        /\ Q \cap C = {} /\ Q \cap F = {} /\ C \cap F = {}
        /\ Q \cup C \cup F = Buffers

LEMMA ThreeLists ==
    ASSUME NEW q, NEW c, NEW f, OnThreeLists(q, c, f)
    PROVE  /\ Lists(q, ToSet(q)) /\ Lists(c, ToSet(c)) /\ Lists(f, ToSet(f))
           /\ ToSet(q) \cap ToSet(c) = {} /\ ToSet(q) \cap ToSet(f) = {}
           /\ ToSet(c) \cap ToSet(f) = {}
           /\ ToSet(q) \cup ToSet(c) \cup ToSet(f) = Buffers
           /\ Len(q) \in Nat /\ Len(c) \in Nat /\ Len(f) \in Nat
           /\ \A i \in 1 .. Len(q) : q[i] \in ToSet(q)
           /\ \A i \in 1 .. Len(c) : c[i] \in ToSet(c)
<1>1. PICK Q, C, F :
        /\ Lists(q, Q) /\ Lists(c, C) /\ Lists(f, F)
        /\ Q \cap C = {} /\ Q \cap F = {} /\ C \cap F = {}
        /\ Q \cup C \cup F = Buffers
  BY DEF OnThreeLists
<1>2. /\ ToSet(q) = Q /\ ToSet(c) = C /\ ToSet(f) = F
      /\ Len(q) \in Nat /\ Len(c) \in Nat /\ Len(f) \in Nat
      /\ \A i \in 1 .. Len(q) : q[i] \in Q
      /\ \A i \in 1 .. Len(c) : c[i] \in C
  BY <1>1, ListedOnce
<1> QED BY <1>1, <1>2

LEMMA HeadMoves ==
    ASSUME NEW q, NEW c, NEW f, OnThreeLists(q, c, f), q # <<>>
    PROVE  /\ Head(q) \in Buffers /\ Head(q) \in ToSet(q) /\ Head(q) = q[1]
           /\ OnThreeLists(Tail(q), <<Head(q)>> \o c, f)
           /\ OnThreeLists(Tail(q), c, <<Head(q)>> \o f)
           /\ ToSet(Tail(q)) = ToSet(q) \ {Head(q)}
           /\ ToSet(<<Head(q)>> \o c) = ToSet(c) \cup {Head(q)}
           /\ Len(Tail(q)) = Len(q) - 1 /\ Len(q) \in Nat /\ Len(c) \in Nat /\ Len(f) \in Nat
           /\ Len(<<Head(q)>> \o c) = Len(c) + 1 /\ Len(<<Head(q)>> \o f) = Len(f) + 1
<1>1. PICK Q, C, F :
        /\ Lists(q, Q) /\ Lists(c, C) /\ Lists(f, F)
        /\ Q \cap C = {} /\ Q \cap F = {} /\ C \cap F = {}
        /\ Q \cup C \cup F = Buffers
  BY DEF OnThreeLists
<1>2. ToSet(q) = Q /\ ToSet(c) = C /\ Len(q) \in Nat /\ Len(c) \in Nat /\ Len(f) \in Nat
  BY <1>1, ListedOnce
<1>3. PICK b : b = Head(q) OBVIOUS
<1>4. b \in Q /\ Lists(Tail(q), Q \ {b}) /\ Len(Tail(q)) = Len(q) - 1 BY <1>1, <1>3, TailLists
<1>5. b \notin C /\ b \notin F BY <1>1, <1>4
<1>6. Lists(<<b>> \o c, C \cup {b}) /\ Len(<<b>> \o c) = Len(c) + 1 BY <1>1, <1>5, ConsLists
<1>7. Lists(<<b>> \o f, F \cup {b}) /\ Len(<<b>> \o f) = Len(f) + 1 BY <1>1, <1>5, ConsLists
<1>8. OnThreeLists(Tail(q), <<b>> \o c, f)
  <2>1. /\ (Q \ {b}) \cap (C \cup {b}) = {} /\ (Q \ {b}) \cap F = {} /\ (C \cup {b}) \cap F = {}
        /\ (Q \ {b}) \cup (C \cup {b}) \cup F = Buffers
    BY <1>1, <1>4, <1>5
  <2> QED BY <2>1, <1>1, <1>4, <1>6, Zenon DEF OnThreeLists
<1>9. OnThreeLists(Tail(q), c, <<b>> \o f)
  <2>1. /\ (Q \ {b}) \cap C = {} /\ (Q \ {b}) \cap (F \cup {b}) = {} /\ C \cap (F \cup {b}) = {}
        /\ (Q \ {b}) \cup C \cup (F \cup {b}) = Buffers
    BY <1>1, <1>4, <1>5
  <2> QED BY <2>1, <1>1, <1>4, <1>7, Zenon DEF OnThreeLists
<1>10. ToSet(Tail(q)) = Q \ {b} /\ ToSet(<<b>> \o c) = C \cup {b} BY <1>4, <1>6, ListedOnce
<1>11. Head(q) = q[1] BY <1>1 DEF Lists
<1> QED BY <1>1, <1>2, <1>3, <1>4, <1>6, <1>7, <1>8, <1>9, <1>10, <1>11

LEMMA FreeTaken ==
    ASSUME NEW q, NEW c, NEW f, OnThreeLists(q, c, f), f # <<>>
    PROVE  /\ Head(f) \in Buffers /\ Head(f) \notin ToSet(q) /\ Head(f) \notin ToSet(c)
           /\ OnThreeLists(Append(q, Head(f)), c, Tail(f))
           /\ ToSet(Append(q, Head(f))) = ToSet(q) \cup {Head(f)}
           /\ Len(Tail(f)) = Len(f) - 1 /\ Len(f) \in Nat /\ Len(c) \in Nat /\ Len(q) \in Nat
           /\ Len(Append(q, Head(f))) = Len(q) + 1
<1>1. PICK Q, C, F :
        /\ Lists(q, Q) /\ Lists(c, C) /\ Lists(f, F)
        /\ Q \cap C = {} /\ Q \cap F = {} /\ C \cap F = {}
        /\ Q \cup C \cup F = Buffers
  BY DEF OnThreeLists
<1>2. ToSet(q) = Q /\ ToSet(c) = C /\ Len(q) \in Nat /\ Len(c) \in Nat /\ Len(f) \in Nat
  BY <1>1, ListedOnce
<1>3. PICK b : b = Head(f) OBVIOUS
<1>4. b \in F /\ Lists(Tail(f), F \ {b}) /\ Len(Tail(f)) = Len(f) - 1 BY <1>1, <1>3, TailLists
<1>5. b \notin C /\ b \notin Q BY <1>1, <1>4
<1>6. Lists(Append(q, b), Q \cup {b}) /\ Len(Append(q, b)) = Len(q) + 1 BY <1>1, <1>5, AppendLists
<1>7. OnThreeLists(Append(q, b), c, Tail(f))
  <2>1. /\ (Q \cup {b}) \cap C = {} /\ (Q \cup {b}) \cap (F \ {b}) = {} /\ C \cap (F \ {b}) = {}
        /\ (Q \cup {b}) \cup C \cup (F \ {b}) = Buffers
    BY <1>1, <1>4, <1>5
  <2> QED BY <2>1, <1>1, <1>4, <1>6, Zenon DEF OnThreeLists
<1>8. ToSet(Append(q, b)) = Q \cup {b} BY <1>6, ListedOnce
<1> QED BY <1>1, <1>2, <1>3, <1>4, <1>5, <1>6, <1>7, <1>8

LEMMA CachedTaken ==
    ASSUME NEW q, NEW c, NEW f, OnThreeLists(q, c, f), NEW i \in 1 .. Len(c)
    PROVE  /\ c[i] \in Buffers /\ c[i] \in ToSet(c) /\ c[i] \notin ToSet(q)
           /\ OnThreeLists(Append(q, c[i]), RemoveAt(c, i), f)
           /\ ToSet(Append(q, c[i])) = ToSet(q) \cup {c[i]}
           /\ ToSet(RemoveAt(c, i)) = ToSet(c) \ {c[i]}
           /\ Len(RemoveAt(c, i)) = Len(c) - 1 /\ Len(f) \in Nat /\ Len(c) \in Nat /\ Len(q) \in Nat
           /\ Len(Append(q, c[i])) = Len(q) + 1
           /\ \A j \in 1 .. Len(c) - 1 : RemoveAt(c, i)[j] = IF j < i THEN c[j] ELSE c[j + 1]
<1>1. PICK Q, C, F :
        /\ Lists(q, Q) /\ Lists(c, C) /\ Lists(f, F)
        /\ Q \cap C = {} /\ Q \cap F = {} /\ C \cap F = {}
        /\ Q \cup C \cup F = Buffers
  BY DEF OnThreeLists
<1>2. /\ ToSet(q) = Q /\ ToSet(c) = C /\ Len(q) \in Nat /\ Len(c) \in Nat /\ Len(f) \in Nat
      /\ c \in Seq(C) /\ \A j \in 1 .. Len(c) : c[j] \in C
  BY <1>1, ListedOnce
<1>3. PICK b : b = c[i] OBVIOUS
<1>4. /\ Lists(RemoveAt(c, i), C \ {b})
      /\ Len(RemoveAt(c, i)) = Len(c) - 1
      /\ \A j \in 1 .. Len(c) - 1 : RemoveAt(c, i)[j] = IF j < i THEN c[j] ELSE c[j + 1]
  BY <1>1, <1>2, <1>3, RemoveAtLists, RemoveAtElements
<1>5. b \in C /\ b \notin F /\ b \notin Q BY <1>1, <1>2, <1>3
<1>6. Lists(Append(q, b), Q \cup {b}) /\ Len(Append(q, b)) = Len(q) + 1 BY <1>1, <1>5, AppendLists
<1>7. OnThreeLists(Append(q, b), RemoveAt(c, i), f)
  <2>1. /\ (Q \cup {b}) \cap (C \ {b}) = {} /\ (Q \cup {b}) \cap F = {} /\ (C \ {b}) \cap F = {}
        /\ (Q \cup {b}) \cup (C \ {b}) \cup F = Buffers
    BY <1>1, <1>5
  <2> QED BY <2>1, <1>1, <1>4, <1>6, Zenon DEF OnThreeLists
<1>8. ToSet(Append(q, b)) = Q \cup {b} /\ ToSet(RemoveAt(c, i)) = C \ {b} BY <1>4, <1>6, ListedOnce
<1>9. b \in Buffers BY <1>1, <1>5
<1> QED BY <1>2, <1>3, <1>4, <1>5, <1>6, <1>7, <1>8, <1>9

LEMMA CacheEmptied ==
    ASSUME NEW q, NEW c, NEW f, OnThreeLists(q, c, f)
    PROVE  /\ OnThreeLists(q, <<>>, Reverse(c) \o f)
           /\ Len(Reverse(c) \o f) = Len(c) + Len(f) /\ Len(c) \in Nat /\ Len(f) \in Nat
<1>1. PICK Q, C, F :
        /\ Lists(q, Q) /\ Lists(c, C) /\ Lists(f, F)
        /\ Q \cap C = {} /\ Q \cap F = {} /\ C \cap F = {}
        /\ Q \cup C \cup F = Buffers
  BY DEF OnThreeLists
<1>2. Lists(Reverse(c), C) /\ Len(Reverse(c)) = Len(c) BY <1>1, ReverseLists
<1>3. Lists(Reverse(c) \o f, C \cup F) /\ Len(Reverse(c) \o f) = Len(Reverse(c)) + Len(f)
  BY <1>1, <1>2, JoinLists
<1>4. Lists(<<>>, {}) BY SemHolds DEF Holds, SemWith
<1>5. Q \cap {} = {} /\ Q \cap (C \cup F) = {} /\ {} \cap (C \cup F) = {} /\ Q \cup {} \cup (C \cup F) = Buffers
  BY <1>1
<1>6. OnThreeLists(q, <<>>, Reverse(c) \o f)
  BY <1>1, <1>3, <1>4, <1>5, Zenon DEF OnThreeLists
<1> QED BY <1>1, <1>2, <1>3, <1>6, ListedOnce
----------------------------------------------------------------------------
Numbers == Blocks \cup {Unused}

Contained == Data \cup {None, Garbage}

BufferFields ==
    {f \in [op : {"none", "read", "write", "sync"}, refcnt : Int, blk : Numbers, valid : BOOLEAN,
            pid : Procs \cup {None}, data : Contained] :
        f.op \in {"read", "write"} => f.blk \in Blocks}

CallsInProgress ==
    {f \in [at : {"user", "wait", "woken", "receive"}, call : {"none", "read", "write", "sync"},
            blk : Numbers, data : Contained] :
        f.call \in {"read", "write"} => f.blk \in Blocks}

Exchanges ==
    {c \in [at : {"none", "send", "recv"}, type : {"none", "open", "close", "read", "write"}, seq : Nat,
            blk : Numbers, data : Contained, i : Nat, xmit : BOOLEAN] :
        c.type \in {"read", "write"} => c.blk \in Blocks}

MessageTypes == {"open", "close", "read", "write"}

Requests ==
    {m \in [type : MessageTypes, seq : Nat, try : Nat, blk : Numbers, data : Contained] :
        m.type \in {"read", "write"} => m.blk \in Blocks}

Responses == [type : MessageTypes, seq : Nat, try : Nat, data : Contained]

CallTypes ==
    /\ pc \in [Procs -> CallsInProgress]
    /\ \A p \in Procs : pc[p].at # "user" => pc[p].call \in {"read", "write", "sync"}

CommTypes ==
    /\ comm \in [Actors -> Exchanges]
    /\ \A a \in Actors : IF comm[a].at = "none" THEN comm[a] = NoComm ELSE comm[a].type # "none"
    /\ \A p \in Procs : comm[p].type \in {"none", "open", "close"}
    /\ comm[RDSPROC].type \in {"none", "read", "write"}

NetTypes == requests \subseteq Requests /\ responses \subseteq Responses

ServerTypes == sseq \in Nat /\ sopen \in BOOLEAN /\ disk \in [Blocks -> Contained]

RdsTypes ==
    /\ rdstate \in {"free", "pend", "open"} /\ rdseq \in Nat \ {0}
    /\ fault \in Faults \cup {"none"}
    /\ buf \in [Buffers -> BufferFields]
    /\ wrote \in [Blocks -> Contained]
    /\ CallTypes /\ CommTypes /\ NetTypes /\ ServerTypes

Reading == comm[RDSPROC].type = "read"

(* There is a request for every signal, and for the read in progress. *)
Signalled == reqsem \in Nat /\ reqsem + (IF Reading THEN 1 ELSE 0) <= Len(reqq)

At(place) == {p \in Procs : pc[p].at = place}

Waiters == Holds(availsem, At("wait")) /\ IsFiniteSet(At("woken"))

(* The tokens, with those given to processes that have not taken a buffer. *)
Available == Tokens(availsem) + Cardinality(At("woken"))

RdsInv ==
    /\ RdsTypes
    /\ OnThreeLists(reqq, cache, free)
    /\ Signalled
    /\ Waiters
    /\ Sane => Available >= Len(free) + Len(cache)

LEMMA Heads ==
    ASSUME RdsInv
    PROVE  /\ TakesRequest => reqq # <<>> /\ ~Reading
           /\ Reading => reqq # <<>>
           /\ reqq # <<>> => Head(reqq) \in Buffers /\ Head(reqq) \in ToSet(reqq)
           /\ cache # <<>> => Head(cache) \in Buffers
           /\ free # <<>> => Head(free) \in Buffers
           /\ \A i \in 1 .. Len(cache) : cache[i] \in Buffers
           /\ ToSet(reqq) \subseteq Buffers /\ ToSet(cache) \subseteq Buffers
           /\ Oldest # 0 => cache[Oldest] \in Buffers /\ Oldest \in 1 .. Len(cache)
<1>1. /\ Lists(reqq, ToSet(reqq)) /\ Lists(cache, ToSet(cache)) /\ Lists(free, ToSet(free))
      /\ ToSet(reqq) \cup ToSet(cache) \cup ToSet(free) = Buffers
      /\ Len(reqq) \in Nat /\ Len(cache) \in Nat
      /\ \A i \in 1 .. Len(cache) : cache[i] \in ToSet(cache)
  BY ThreeLists DEF RdsInv
<1>2. Signalled BY DEF RdsInv
<1>3. NoComm.type = "none" BY DEF NoComm
<1>4. TakesRequest => reqq # <<>> /\ ~Reading BY <1>1, <1>2, <1>3, EmptySeq DEF TakesRequest, Signalled, Reading
<1>5. Reading => reqq # <<>> BY <1>1, <1>2, EmptySeq DEF Signalled
<1>6. /\ reqq # <<>> => Head(reqq) \in ToSet(reqq)
      /\ cache # <<>> => Head(cache) \in ToSet(cache)
      /\ free # <<>> => Head(free) \in ToSet(free)
  BY <1>1, TailLists
<1>7. Oldest # 0 => Oldest \in 1 .. Len(cache) BY <1>1, OldestIs
<1> QED BY <1>1, <1>4, <1>5, <1>6, <1>7

----------------------------------------------------------------------------
(* The tokens. *)
LEMMA AllocKeepsTokens ==
    ASSUME CallTypes, Waiters, NEW p \in Procs, NEW call, NEW blk, NEW data,
           pc[p] = Idle, Alloc(p, call, blk, data), ~(availsem.count > 0)
    PROVE  Waiters' /\ Available' = Available
<1> DEFINE frame == [at |-> "wait", call |-> call, blk |-> blk, data |-> data]
<1>1. pc \in [Procs -> CallsInProgress] /\ pc[p].at = "user" BY DEF CallTypes, Idle
<1>2. Holds(availsem, At("wait")) /\ IsFiniteSet(At("woken")) BY DEF Waiters
<1>3. p \notin At("wait") BY <1>1 DEF At
<1>4. availsem' = WaitOn(availsem, p) /\ pc' = [pc EXCEPT ![p] = frame] /\ frame.at = "wait" BY DEF Alloc
<1> HIDE DEF frame
<1>5. At("wait")' = At("wait") \cup {p} /\ At("woken")' = At("woken") BY <1>1, <1>4 DEF At
<1>6. availsem.count <= 0 BY <1>2 DEF Holds
<1>7. Holds(availsem', At("wait") \cup {p}) /\ Tokens(availsem') = Tokens(availsem)
  BY <1>2, <1>3, <1>4, <1>6, WaitOnHolds
<1>8. Waiters' BY <1>2, <1>5, <1>7 DEF Waiters
<1>9. Available' = Tokens(availsem) + Cardinality(At("woken")) BY <1>5, <1>7 DEF Available
<1> QED BY <1>8, <1>9 DEF Available

LEMMA MakeAvailableAddsToken ==
    ASSUME CallTypes, Waiters, MakeAvailable
    PROVE  /\ Waiters' /\ Available' = Available + 1 /\ Available \in Nat
           /\ CallTypes'
           /\ \A p \in Procs : /\ pc'[p] = pc[p] \/ (pc[p].at = "wait" /\ pc'[p].at = "woken")
                               /\ pc'[p].call = pc[p].call /\ pc'[p].blk = pc[p].blk
                               /\ pc'[p].data = pc[p].data
<1> DEFINE R == Released(availsem, 1)
           way == At("woken")
<1>1. pc \in [Procs -> CallsInProgress] BY DEF CallTypes
<1>2. Holds(availsem, At("wait")) /\ IsFiniteSet(way) BY DEF Waiters
<1>3. availsem' = SignalnOn(availsem, 1) /\ pc' = Wake(pc, R) BY DEF MakeAvailable
<1>4. /\ R \subseteq At("wait") /\ IsFiniteSet(R) /\ Cardinality(R) \in Nat
      /\ Holds(SignalnOn(availsem, 1), At("wait") \ R)
      /\ Tokens(SignalnOn(availsem, 1)) + Cardinality(R) = Tokens(availsem) + 1
      /\ Tokens(SignalnOn(availsem, 1)) \in Nat /\ Tokens(availsem) \in Nat
  <2>1. PICK sem, P, n : sem = availsem /\ P = At("wait") /\ n = 1 OBVIOUS
  <2> HIDE DEF R, way
  <2>2. n \in Nat /\ Holds(sem, P) /\ R = Released(sem, n) BY <2>1, <1>2 DEF R
  <2>3. /\ R \subseteq P /\ IsFiniteSet(R) /\ Cardinality(R) \in Nat
        /\ Holds(SignalnOn(sem, n), P \ R)
        /\ Tokens(SignalnOn(sem, n)) + Cardinality(R) = Tokens(sem) + n
        /\ Tokens(SignalnOn(sem, n)) \in Nat /\ Tokens(sem) \in Nat
    BY ZenonT(30), <2>2, SignalnHolds
  <2> QED BY <2>1, <2>3
<1> HIDE DEF R
<1>5. pc' = [p \in Procs |-> IF p \in R THEN [pc[p] EXCEPT !.at = "woken"] ELSE pc[p]]
  BY <1>1, <1>3 DEF Wake
<1>6. \A p \in R : p \in Procs /\ pc[p].at = "wait" BY <1>4 DEF At
<1>7. \A p \in R : /\ pc'[p] \in CallsInProgress
                   /\ pc'[p].at = "woken" /\ pc'[p].call = pc[p].call
                   /\ pc'[p].blk = pc[p].blk /\ pc'[p].data = pc[p].data
  BY <1>1, <1>5, <1>6 DEF CallsInProgress
<1>8. \A p \in Procs \ R : pc'[p] = pc[p] BY <1>5
<1>9. CallTypes'
  <2>1. pc' = [p \in Procs |-> pc'[p]] BY <1>5
  <2>2. \A p \in Procs : pc'[p] \in CallsInProgress BY <1>1, <1>7, <1>8
  <2>3. pc' \in [Procs -> CallsInProgress] BY <2>1, <2>2
  <2>4. \A p \in Procs : pc'[p].at # "user" => pc'[p].call \in {"read", "write", "sync"}
    BY <1>6, <1>7, <1>8 DEF CallTypes
  <2> QED BY <2>3, <2>4 DEF CallTypes
<1>10. At("wait")' = At("wait") \ R BY <1>6, <1>7, <1>8 DEF At
<1>11. At("woken")' = way \cup R /\ way \cap R = {} BY <1>6, <1>7, <1>8 DEF At
<1> HIDE DEF way
<1>12. Cardinality(way \cup R) = Cardinality(way) + Cardinality(R) /\ IsFiniteSet(way \cup R)
       /\ Cardinality(way) \in Nat
  BY <1>2, <1>4, <1>11, CardinalityOfBoth
<1>13. Holds(availsem', At("wait")') /\ IsFiniteSet(At("woken")') BY <1>3, <1>4, <1>10, <1>11, <1>12
<1>14. Available' = Tokens(SignalnOn(availsem, 1)) + (Cardinality(way) + Cardinality(R))
  BY <1>3, <1>11, <1>12 DEF Available
<1>15. Available = Tokens(availsem) + Cardinality(way) BY DEF Available, way
<1>16. Available' = Available + 1 /\ Available \in Nat
  BY SMTT(30), <1>4, <1>12, <1>14, <1>15
<1> QED BY <1>6, <1>7, <1>8, <1>9, <1>13, <1>16 DEF Waiters

LEMMA GotTakesToken ==
    ASSUME CallTypes, Waiters, NEW p \in Procs, pc[p].at = "woken",
           NEW x, x.at \notin {"wait", "woken"}, pc' = [pc EXCEPT ![p] = x], UNCHANGED availsem
    PROVE  Waiters' /\ Available' = Available - 1 /\ Available \in Nat \ {0}
<1>1. pc \in [Procs -> CallsInProgress] BY DEF CallTypes
<1>2. Holds(availsem, At("wait")) /\ IsFiniteSet(At("woken")) BY DEF Waiters
<1>3. At("wait")' = At("wait") /\ At("woken")' = At("woken") \ {p} /\ p \in At("woken")
  BY <1>1 DEF At
<1>4. Cardinality(At("woken") \ {p}) = Cardinality(At("woken")) - 1 /\ IsFiniteSet(At("woken") \ {p})
  BY <1>2, <1>3, FS_RemoveElement
<1>5. Cardinality(At("woken")) \in Nat /\ Cardinality(At("woken")) # 0
  BY <1>2, <1>3, FS_CardinalityType, FS_EmptySet
<1>6. Tokens(availsem) \in Nat BY <1>2 DEF Holds, Tokens
<1>7. Waiters' BY <1>2, <1>3, <1>4 DEF Waiters
<1>8. Available' = Tokens(availsem) + (Cardinality(At("woken")) - 1) BY <1>3, <1>4 DEF Available
<1>9. Available = Tokens(availsem) + Cardinality(At("woken")) BY DEF Available
<1> QED BY <1>5, <1>6, <1>7, <1>8, <1>9

(* Other steps of a process that neither waits nor was woken. *)
LEMMA SameTokens ==
    ASSUME CallTypes, Waiters, NEW p \in Procs, pc[p].at \notin {"wait", "woken"},
           NEW x, x.at \notin {"wait", "woken"}, pc' = [pc EXCEPT ![p] = x]
    PROVE  At("wait")' = At("wait") /\ At("woken")' = At("woken")
BY DEF CallTypes, At

(* A call that need not wait takes its token itself. *)
LEMMA TakesToken ==
    ASSUME CallTypes, Waiters, NEW p \in Procs, pc[p].at \notin {"wait", "woken"},
           availsem.count > 0, availsem' = Take(availsem),
           NEW x, x.at \notin {"wait", "woken"}, pc' = [pc EXCEPT ![p] = x]
    PROVE  Waiters' /\ Available' = Available - 1 /\ Available \in Nat
<1>1. At("wait")' = At("wait") /\ At("woken")' = At("woken") BY SameTokens
<1>2. Holds(availsem, At("wait")) /\ IsFiniteSet(At("woken")) BY DEF Waiters
<1>3. Holds(availsem', At("wait")) /\ Tokens(availsem') = Tokens(availsem) - 1 BY <1>2, TakeHolds
<1>4. Cardinality(At("woken")) \in Nat BY <1>2, FS_CardinalityType
<1>5. Tokens(availsem) \in Nat BY <1>2 DEF Holds, Tokens
<1>6. Waiters' BY <1>1, <1>2, <1>3 DEF Waiters
<1>7. Available' = Tokens(availsem) - 1 + Cardinality(At("woken")) BY <1>1, <1>3 DEF Available
<1>8. Available = Tokens(availsem) + Cardinality(At("woken")) BY DEF Available
<1> QED BY <1>4, <1>5, <1>6, <1>7, <1>8
----------------------------------------------------------------------------
(* Each action keeps the types, the lists and the tokens. *)
LEMMA AllocTypes ==
    ASSUME CallTypes, NEW p \in Procs, NEW call \in {"read", "write", "sync"}, NEW blk \in Numbers,
           NEW data \in Contained, Alloc(p, call, blk, data), ~(availsem.count > 0), call # "sync" => blk \in Blocks
    PROVE  CallTypes'
<1> DEFINE frame == [at |-> "wait", call |-> call, blk |-> blk, data |-> data]
<1>1. pc' = [pc EXCEPT ![p] = frame] BY DEF Alloc
<1>2. frame \in CallsInProgress /\ frame.call = call BY DEF CallsInProgress
<1> HIDE DEF frame
<1> QED BY <1>1, <1>2 DEF CallTypes

LEMMA BlockNumbers ==
    /\ \A p \in Procs : \A blk \in Uses[p] : blk \in Blocks /\ blk \in Numbers
    /\ Unused \in Numbers /\ None \in Contained /\ Garbage \in Contained /\ Data \subseteq Contained
BY RdsAssumption DEF Numbers, Contained

LEMMA QueueTypes ==
    ASSUME RdsInv, NEW p \in Procs, NEW b \in Buffers, NEW call \in {"read", "write", "sync"},
           NEW blk \in Numbers, NEW data \in Contained, Queue(p, b, call, blk, data), call # "sync" => blk \in Blocks,
           UNCHANGED <<rdstate, rdseq, comm, net, server, fault>>
    PROVE  /\ RdsTypes'
           /\ \E x : x.at \notin {"wait", "woken"} /\ pc' = [pc EXCEPT ![p] = x]
<1> DEFINE x == IF call = "write" THEN Idle
                ELSE [at |-> "receive", call |-> call, blk |-> blk, data |-> None]
           f == [op |-> call, refcnt |-> IF call = "write" THEN 0 ELSE 1, blk |-> blk,
                 valid |-> call = "write", pid |-> p,
                 data |-> IF call = "write" THEN data ELSE buf[b].data]
<1>1. buf \in [Buffers -> BufferFields] /\ wrote \in [Blocks -> Contained] BY DEF RdsInv, RdsTypes
<1>2. pc' = [pc EXCEPT ![p] = x] BY DEF Queue
<1>3. /\ x \in CallsInProgress /\ (x.at # "user" => x.call \in {"read", "write", "sync"})
      /\ x.at \notin {"wait", "woken"}
  BY BlockNumbers DEF CallsInProgress, Idle
<1>4. CallTypes'
  <2> HIDE DEF x
  <2> QED BY <1>2, <1>3 DEF CallTypes, RdsInv, RdsTypes
<1>5. buf' = [buf EXCEPT ![b] = f] BY DEF Queue
<1>6. f \in BufferFields
  <2>1. buf[b].data \in Contained BY <1>1 DEF BufferFields
  <2>2. (call = "write") \in BOOLEAN OBVIOUS
  <2> QED BY <2>1, <2>2 DEF BufferFields
<1>7. buf' \in [Buffers -> BufferFields]
  <2> HIDE DEF f
  <2> QED BY <1>1, <1>5, <1>6
<1>8. wrote' \in [Blocks -> Contained] BY <1>1 DEF Queue
<1>9. RdsTypes'
  BY <1>4, <1>7, <1>8 DEF RdsInv, RdsTypes, CommTypes, NetTypes, ServerTypes, net, server
<1> QED BY <1>2, <1>3, <1>9

LEMMA QueueSignals ==
    ASSUME RdsInv, NEW p, NEW b, NEW call, NEW blk, NEW data, Queue(p, b, call, blk, data),
           Len(Append(reqq, b)) = Len(reqq) + 1, Len(reqq) \in Nat, UNCHANGED comm
    PROVE  Signalled'
<1>1. reqq' = Append(reqq, b) /\ (reqsem' = reqsem \/ reqsem' = reqsem + 1) BY DEF Queue
<1>2. Len(reqq') = Len(reqq) + 1 BY <1>1
<1> QED BY <1>1, <1>2 DEF RdsInv, Signalled, Reading

LEMMA RewriteStep ==
    ASSUME RdsInv, NEW p \in Procs, NEW blk \in Uses[p], NEW data \in Data, Rewrite(p, blk, data)
    PROVE  RdsInv'
<1>1. buf \in [Buffers -> BufferFields] /\ wrote \in [Blocks -> Contained] BY DEF RdsInv, RdsTypes
<1>2. data \in Contained BY BlockNumbers
<1>3. PICK b : buf' = [buf EXCEPT ![b].data = data] BY DEF Rewrite
<1>4. buf' \in [Buffers -> BufferFields] BY <1>1, <1>2, <1>3 DEF BufferFields
<1>5. wrote' \in [Blocks -> Contained] BY <1>1, <1>2 DEF Rewrite
<1>6. UNCHANGED <<rdstate, rdseq, reqq, cache, free, availsem, reqsem, pc, comm, net, fault, server>>
  BY DEF Rewrite, sems
<1>7. RdsTypes'
  BY <1>4, <1>5, <1>6 DEF RdsInv, RdsTypes, CallTypes, CommTypes, NetTypes, ServerTypes, net, server
<1>8. OnThreeLists(reqq, cache, free)' BY <1>6 DEF RdsInv
<1>9. Signalled' /\ Waiters' BY <1>6 DEF RdsInv, Signalled, Reading, Waiters, At
<1>10. (Sane => Available >= Len(free) + Len(cache))' BY <1>6 DEF RdsInv, Sane, Available, At
<1> QED BY <1>7, <1>8, <1>9, <1>10 DEF RdsInv

LEMMA WriteCachedStep ==
    ASSUME RdsInv, NEW p \in Procs, NEW blk \in Uses[p], NEW data \in Data, WriteCached(p, blk, data)
    PROVE  RdsInv'
<1>1. PICK i : i = FirstFor(cache, blk) OBVIOUS
<1>2. PICK b : b = cache[i] OBVIOUS
<1>3. Len(cache) \in Nat /\ OnThreeLists(reqq, cache, free) BY ThreeLists DEF RdsInv
<1>4. i \in 1 .. Len(cache) BY <1>1, <1>3, FirstForIs DEF WriteCached, Reusable
<1>5. /\ b \in Buffers
      /\ OnThreeLists(Append(reqq, b), RemoveAt(cache, i), free)
      /\ Len(RemoveAt(cache, i)) = Len(cache) - 1
      /\ Len(Append(reqq, b)) = Len(reqq) + 1 /\ Len(free) \in Nat /\ Len(reqq) \in Nat
  BY <1>2, <1>3, <1>4, CachedTaken
<1>6. /\ Queue(p, b, "write", blk, data) /\ cache' = RemoveAt(cache, i) /\ free' = free
      /\ availsem' = IF availsem.count > 0 THEN Take(availsem) ELSE availsem
      /\ UNCHANGED <<rdstate, rdseq, comm, net, fault, server>>
      /\ Sane /\ pc[p] = Idle
  BY <1>1, <1>2 DEF WriteCached, Calls
<1>7. blk \in Blocks /\ blk \in Numbers /\ data \in Contained /\ "write" \in {"read", "write", "sync"} BY BlockNumbers
<1>8. RdsTypes' BY <1>5, <1>6, <1>7, QueueTypes
<1>9. PICK x : x.at \notin {"wait", "woken"} /\ pc' = [pc EXCEPT ![p] = x]
  BY <1>5, <1>6, <1>7, QueueTypes
<1>10. Signalled' BY <1>5, <1>6, QueueSignals
<1>11. reqq' = Append(reqq, b) BY <1>6 DEF Queue
<1>12. OnThreeLists(reqq, cache, free)' BY <1>5, <1>6, <1>11
<1>13. At("wait")' = At("wait") /\ At("woken")' = At("woken")
  <2>1. pc[p].at \notin {"wait", "woken"} BY <1>6 DEF Idle
  <2> QED BY <2>1, <1>9, SameTokens DEF RdsInv, RdsTypes
<1>14. Holds(availsem, At("wait")) /\ IsFiniteSet(At("woken")) BY DEF RdsInv, Waiters
<1>15. availsem.count \in Int BY <1>14 DEF Holds
<1>16. /\ Holds(availsem', At("wait"))
       /\ Tokens(availsem') = (IF availsem.count > 0 THEN Tokens(availsem) - 1 ELSE Tokens(availsem))
  BY <1>6, <1>14, TakeHolds
<1>17. Waiters' BY <1>13, <1>14, <1>16 DEF Waiters
<1>18. Available' >= Len(free') + Len(cache')
  <2>1. Cardinality(At("woken")) \in Nat BY <1>14, FS_CardinalityType
  <2>2. Tokens(availsem) \in Nat BY <1>15 DEF Tokens
  <2>3. Available >= Len(free) + Len(cache) /\ Available = Tokens(availsem) + Cardinality(At("woken"))
    BY <1>6 DEF RdsInv, Available
  <2>4. Available' = Tokens(availsem') + Cardinality(At("woken")) BY <1>13 DEF Available
  <2>5. Available' >= Tokens(availsem) - 1 + Cardinality(At("woken")) BY <2>1, <2>2, <2>4, <1>16
  <2>6. Len(free') = Len(free) /\ Len(cache') = Len(cache) - 1 BY <1>5, <1>6
  <2> QED BY <2>1, <2>2, <2>3, <2>5, <2>6, <2>4, <1>3, <1>5, <1>16
<1> QED BY <1>8, <1>10, <1>12, <1>17, <1>18 DEF RdsInv

(* rdsbufalloc() has its token. *)
LEMMA RequestStep ==
    ASSUME RdsInv, Sane, NEW p \in Procs, NEW call \in {"read", "write", "sync"}, NEW blk \in Numbers,
           NEW data \in Contained, Request(p, call, blk, data), call # "sync" => blk \in Blocks,
           UNCHANGED <<rdstate, rdseq, comm, net, server>>,
           \A x : x.at \notin {"wait", "woken"} /\ pc' = [pc EXCEPT ![p] = x] =>
                     Waiters' /\ Available' = Available - 1 /\ Available \in Nat,
           pc' = pc => Waiters'
    PROVE  RdsInv'
<1>1. OnThreeLists(reqq, cache, free) /\ Len(free) \in Nat /\ Len(cache) \in Nat /\ Len(reqq) \in Nat
  BY ThreeLists DEF RdsInv
<1>2. ASSUME NEW b \in Buffers, Queue(p, b, call, blk, data), UNCHANGED fault,
             OnThreeLists(Append(reqq, b), cache', free'),
             Len(Append(reqq, b)) = Len(reqq) + 1,
             Len(free') + Len(cache') = Len(free) + Len(cache) - 1
      PROVE  RdsInv'
  <2>1. RdsTypes' BY <1>2, QueueTypes
  <2>2. PICK x : x.at \notin {"wait", "woken"} /\ pc' = [pc EXCEPT ![p] = x]
    BY <1>2, QueueTypes
  <2>3. Signalled' BY <1>1, <1>2, QueueSignals
  <2>4. Waiters' /\ Available' = Available - 1 /\ Available \in Nat BY <2>2
  <2>5. OnThreeLists(reqq, cache, free)' BY <1>2 DEF Queue
  <2>6. Available >= Len(free) + Len(cache) BY DEF RdsInv
  <2>7. Available' >= Len(free') + Len(cache') BY <2>4, <2>6, <1>1, <1>2
  <2> QED BY <2>1, <2>3, <2>4, <2>5, <2>7 DEF RdsInv
<1>3. CASE free # <<>> /\ free' = Tail(free) /\ Queue(p, Head(free), call, blk, data)
           /\ UNCHANGED <<cache, fault>>
  <2>1. /\ Head(free) \in Buffers /\ OnThreeLists(Append(reqq, Head(free)), cache, Tail(free))
        /\ Len(Tail(free)) = Len(free) - 1 /\ Len(Append(reqq, Head(free))) = Len(reqq) + 1
    BY <1>1, <1>3, FreeTaken
  <2>2. PICK b : b = Head(free) OBVIOUS
  <2>3. Len(free') + Len(cache') = Len(free) + Len(cache) - 1 BY <2>1, <1>1, <1>3
  <2>4. /\ b \in Buffers /\ Queue(p, b, call, blk, data)
        /\ OnThreeLists(Append(reqq, b), cache', free') /\ Len(Append(reqq, b)) = Len(reqq) + 1
        /\ UNCHANGED fault
    BY <2>1, <2>2, <1>3
  <2> QED BY <2>3, <2>4, <1>2
<1>4. CASE free = <<>> /\ Oldest # 0 /\ cache' = RemoveAt(cache, Oldest)
           /\ Queue(p, cache[Oldest], call, blk, data) /\ UNCHANGED <<free, fault>>
  <2>1. PICK i : i = Oldest OBVIOUS
  <2>2. PICK b : b = cache[i] OBVIOUS
  <2>3. i \in 1 .. Len(cache) BY <2>1, <1>1, <1>4, OldestIs
  <2>4. /\ b \in Buffers /\ OnThreeLists(Append(reqq, b), RemoveAt(cache, i), free)
        /\ Len(RemoveAt(cache, i)) = Len(cache) - 1 /\ Len(Append(reqq, b)) = Len(reqq) + 1
    BY <2>2, <2>3, <1>1, CachedTaken
  <2>5. Len(free') + Len(cache') = Len(free) + Len(cache) - 1 BY <2>1, <2>4, <1>1, <1>4
  <2>6. /\ Queue(p, b, call, blk, data)
        /\ OnThreeLists(Append(reqq, b), cache', free') /\ UNCHANGED fault
    BY <2>1, <2>2, <2>4, <1>4
  <2> QED BY <2>4, <2>5, <2>6, <1>2
<1>5. CASE fault' = "no buffer" /\ UNCHANGED <<lists, reqsem, pc, wrote>>
  <2>1. UNCHANGED <<buf, reqq, cache, free>> BY <1>5 DEF lists
  <2>2. ~Sane' /\ fault' \in Faults BY <1>5 DEF Sane, Faults
  <2>3. RdsTypes'
    BY <2>1, <2>2, <1>5 DEF RdsInv, RdsTypes, CallTypes, CommTypes, NetTypes, ServerTypes, net, server
  <2>4. OnThreeLists(reqq, cache, free)' BY <2>1 DEF RdsInv
  <2>5. Signalled' BY <2>1, <1>5 DEF RdsInv, Signalled, Reading
  <2>6. Waiters' BY <1>5
  <2> QED BY <2>2, <2>3, <2>4, <2>5, <2>6 DEF RdsInv
<1> QED BY <1>3, <1>4, <1>5 DEF Request

(* A call that looks for a buffer. *)
LEMMA AllocStep ==
    ASSUME RdsInv, Sane, NEW p \in Procs, NEW call \in {"read", "write", "sync"}, NEW blk \in Numbers,
           NEW data \in Contained, pc[p] = Idle, Alloc(p, call, blk, data), call # "sync" => blk \in Blocks,
           UNCHANGED <<rdstate, rdseq, comm, net, server>>
    PROVE  RdsInv'
<1>1. CASE availsem.count > 0
  <2>1. availsem' = Take(availsem) /\ Request(p, call, blk, data) BY <1>1 DEF Alloc
  <2>2. pc[p].at \notin {"wait", "woken"} /\ CallTypes /\ Waiters BY DEF Idle, RdsInv, RdsTypes
  <2>3. ASSUME NEW x, x.at \notin {"wait", "woken"}, pc' = [pc EXCEPT ![p] = x]
        PROVE  Waiters' /\ Available' = Available - 1 /\ Available \in Nat
    BY <1>1, <2>1, <2>2, <2>3, TakesToken
  <2>4. ASSUME pc' = pc PROVE Waiters'
    <3>1. Holds(availsem, At("wait")) /\ IsFiniteSet(At("woken")) BY <2>2 DEF Waiters
    <3>2. Holds(availsem', At("wait")) BY <3>1, <1>1, <2>1, TakeHolds
    <3> QED BY <3>1, <3>2, <2>4 DEF Waiters, At
  <2> QED BY <2>1, <2>3, <2>4, RequestStep
<1>2. CASE ~(availsem.count > 0)
  <2>1. UNCHANGED <<buf, reqq, cache, free, reqsem, wrote, fault>> BY <1>2 DEF Alloc, lists
  <2>2. CallTypes' BY <1>2, AllocTypes DEF RdsInv, RdsTypes
  <2>3. Waiters' /\ Available' = Available BY <1>2, AllocKeepsTokens DEF RdsInv, RdsTypes
  <2>4. RdsTypes'
    BY <2>1, <2>2 DEF RdsInv, RdsTypes, CommTypes, NetTypes, ServerTypes, net, server
  <2>5. OnThreeLists(reqq, cache, free)' BY <2>1 DEF RdsInv
  <2>6. Signalled' BY <2>1 DEF RdsInv, Signalled, Reading
  <2>7. (Sane => Available >= Len(free) + Len(cache))' BY <2>1, <2>3 DEF RdsInv, Sane
  <2> QED BY <2>3, <2>4, <2>5, <2>6, <2>7 DEF RdsInv
<1> QED BY <1>1, <1>2

LEMMA GotStep ==
    ASSUME RdsInv, NEW p \in Procs, Got(p)
    PROVE  RdsInv'
<1>1. Sane /\ pc[p].at = "woken" /\ UNCHANGED <<rdstate, rdseq, availsem, comm, net, server>>
  BY DEF Got
<1>2. PICK call, blk, data : call = pc[p].call /\ blk = pc[p].blk /\ data = pc[p].data OBVIOUS
<1>3. /\ call \in {"read", "write", "sync"} /\ blk \in Numbers /\ data \in Contained
      /\ call # "sync" => blk \in Blocks
  BY <1>1, <1>2 DEF RdsInv, RdsTypes, CallTypes, CallsInProgress
<1>4. ASSUME NEW x, x.at \notin {"wait", "woken"}, pc' = [pc EXCEPT ![p] = x]
      PROVE  Waiters' /\ Available' = Available - 1 /\ Available \in Nat
  BY <1>1, <1>4, GotTakesToken DEF RdsInv, RdsTypes
<1>5. pc' = pc => Waiters' BY <1>1 DEF RdsInv, Waiters, At
<1>6. Request(p, call, blk, data) BY <1>2 DEF Got
<1> QED BY <1>1, <1>3, <1>4, <1>5, <1>6, RequestStep

LEMMA ReceivedStep ==
    ASSUME RdsInv, NEW p \in Procs, Received(p)
    PROVE  RdsInv'
<1>1. /\ Sane /\ pc[p].at = "receive"
      /\ UNCHANGED <<rdstate, rdseq, reqq, cache, free, availsem, reqsem, comm, net, wrote, server>>
  BY DEF Received, sems
<1>2. buf' \in [Buffers -> BufferFields]
  <2>1. buf \in [Buffers -> BufferFields] BY DEF RdsInv, RdsTypes
  <2>2. buf' = buf \/ buf' = [buf EXCEPT ![mail[p]].refcnt = @ - 1] BY DEF Received
  <2>3. PICK b : b = mail[p] OBVIOUS
  <2>4. CASE b \in Buffers
    <3>1. buf[b].refcnt \in Int BY <2>1, <2>4 DEF BufferFields
    <3> QED BY <3>1, <2>1, <2>2, <2>3, <2>4 DEF BufferFields
  <2>5. CASE b \notin Buffers BY <2>1, <2>2, <2>3, <2>5
  <2> QED BY <2>4, <2>5
<1>3. pc' = pc \/ pc' = [pc EXCEPT ![p] = Idle] BY DEF Received
<1>4. Idle \in CallsInProgress /\ Idle.at = "user" BY BlockNumbers DEF Idle, CallsInProgress
<1>5. CallTypes' BY <1>3, <1>4 DEF RdsInv, RdsTypes, CallTypes
<1>6. fault' \in Faults \cup {"none"} BY DEF Received, RdsInv, RdsTypes, Faults
<1>7. RdsTypes' BY <1>1, <1>2, <1>5, <1>6 DEF RdsInv, RdsTypes, CommTypes, NetTypes, ServerTypes, net, server
<1>8. At("wait")' = At("wait") /\ At("woken")' = At("woken")
  <2>1. CASE pc' = pc BY <2>1 DEF At
  <2>2. CASE pc' = [pc EXCEPT ![p] = Idle]
    <3>1. pc[p].at \notin {"wait", "woken"} /\ Idle.at \notin {"wait", "woken"} BY <1>1, <1>4
    <3> QED BY <3>1, <2>2, SameTokens DEF RdsInv, RdsTypes
  <2> QED BY <2>1, <2>2, <1>3
<1>9. Waiters' /\ Available' = Available BY <1>1, <1>8 DEF RdsInv, Waiters, Available
<1>10. OnThreeLists(reqq, cache, free)' BY <1>1 DEF RdsInv
<1>11. Signalled' BY <1>1 DEF RdsInv, Signalled, Reading
<1>12. (Sane => Available >= Len(free) + Len(cache))' BY <1>1, <1>9 DEF RdsInv
<1> QED BY <1>7, <1>9, <1>10, <1>11, <1>12 DEF RdsInv

(* A step of an exchange, of the network or of the server. *)
LEMMA ExchangeOnly ==
    ASSUME RdsInv, Sane, UNCHANGED <<buf, reqq, cache, free, availsem, reqsem, pc, wrote>>,
           rdstate' \in {"free", "pend", "open"}, rdseq' \in Nat \ {0},
           fault' \in Faults \cup {"none"}, CommTypes', NetTypes', ServerTypes',
           Reading' => Reading
    PROVE  RdsInv'
<1>1. RdsTypes' BY DEF RdsInv, RdsTypes, CallTypes
<1>2. OnThreeLists(reqq, cache, free)' BY DEF RdsInv
<1>3. Signalled' BY ThreeLists DEF RdsInv, Signalled
<1>4. Waiters' /\ Available' = Available BY DEF RdsInv, Waiters, Available, At
<1>5. (Sane => Available >= Len(free) + Len(cache))' BY <1>4 DEF RdsInv
<1> QED BY <1>1, <1>2, <1>3, <1>4, <1>5 DEF RdsInv

LEMMA NoCommIs ==
    /\ NoComm \in Exchanges /\ NoComm.at = "none" /\ NoComm.type = "none"
    /\ RDSPROC \in Actors /\ Procs \subseteq Actors /\ RDSPROC \notin Procs
BY RdsAssumption, BlockNumbers DEF NoComm, Exchanges, Actors

LEMMA ActorCommTypes ==
    ASSUME CommTypes, NEW a \in Actors, NEW x \in Exchanges, comm' = [comm EXCEPT ![a] = x],
           IF x.at = "none" THEN x = NoComm ELSE x.type # "none",
           IF a = RDSPROC THEN x.type \in {"none", "read", "write"} ELSE x.type \in {"none", "open", "close"}
    PROVE  CommTypes'
BY NoCommIs DEF CommTypes

LEMMA CommSendStep ==
    ASSUME RdsInv, NEW a \in Actors, CommSend(a)
    PROVE  /\ RdsInv'
           /\ comm[a] \in Exchanges /\ comm'[a] \in Exchanges /\ comm' = [comm EXCEPT ![a] = comm'[a]]
           /\ comm'[a].at = "recv" /\ comm'[a].xmit = TRUE
           /\ comm'[a].type = comm[a].type /\ comm'[a].seq = comm[a].seq
           /\ comm'[a].blk = comm[a].blk /\ comm'[a].data = comm[a].data
<1> DEFINE x == [comm[a] EXCEPT !.at = "recv", !.xmit = TRUE]
<1>1. CommTypes /\ comm[a] \in Exchanges BY DEF RdsInv, RdsTypes, CommTypes
<1>2. comm' = [comm EXCEPT ![a].at = "recv", ![a].xmit = TRUE] BY DEF CommSend
<1>3. comm' = [comm EXCEPT ![a] = x] BY <1>1, <1>2 DEF CommTypes
<1>4. /\ x \in Exchanges /\ x.at = "recv" /\ x.xmit = TRUE /\ x.i = comm[a].i
      /\ x.type = comm[a].type /\ x.seq = comm[a].seq /\ x.blk = comm[a].blk /\ x.data = comm[a].data
  BY <1>1 DEF Exchanges
<1> HIDE DEF x
<1>5. comm[a].at = "send" /\ Sane BY DEF CommSend
<1>6. comm[a].type # "none"
      /\ (IF a = RDSPROC THEN x.type \in {"none", "read", "write"} ELSE x.type \in {"none", "open", "close"})
  BY <1>1, <1>4, <1>5 DEF CommTypes, Actors
<1>7. CommTypes' BY <1>1, <1>3, <1>4, <1>6, ActorCommTypes
<1>8. NetTypes'
  <2>1. Message(comm[a]) \in Requests
    BY <1>1, <1>6 DEF Message, Requests, Exchanges, MessageTypes
  <2> QED BY <2>1 DEF CommSend, NetTypes, RdsInv, RdsTypes
<1>9. Reading' => Reading BY <1>1, <1>3, <1>4, NoCommIs DEF Reading, CommTypes
<1>10. UNCHANGED <<rdstate, rdseq, buf, reqq, cache, free, availsem, reqsem, pc, wrote, fault, server>>
  BY DEF CommSend, lists, sems, aux
<1>11. /\ rdstate' \in {"free", "pend", "open"} /\ rdseq' \in Nat \ {0}
       /\ fault' \in Faults \cup {"none"} /\ ServerTypes'
  BY <1>10 DEF RdsInv, RdsTypes, ServerTypes, server
<1>12. RdsInv' BY <1>5, <1>7, <1>8, <1>9, <1>10, <1>11, ExchangeOnly
<1>13. comm'[a] = x BY <1>1, <1>3 DEF CommTypes
<1> QED BY <1>1, <1>3, <1>4, <1>12, <1>13

(* Another try, or the end of the exchange. *)
LEMMA RetryIs ==
    ASSUME RdsInv, NEW a \in Actors, NEW xmit \in BOOLEAN, Retry(a, xmit), comm[a].at = "recv"
    PROVE  /\ CommTypes' /\ (Reading' => Reading) /\ fault' \in Faults \cup {"none"}
           /\ \/ /\ comm' = [comm EXCEPT ![a] = NoComm]
                 /\ (Sane' => a # RDSPROC /\ comm[a].type # "close")
              \/ /\ comm' = [comm EXCEPT ![a] = comm'[a]] /\ comm'[a] \in Exchanges /\ fault' = fault
                 /\ comm'[a].at = "send" /\ comm'[a].xmit = xmit
                 /\ comm'[a].type = comm[a].type /\ comm'[a].seq = comm[a].seq
                 /\ comm'[a].blk = comm[a].blk /\ comm'[a].data = comm[a].data
<1> DEFINE x == [comm[a] EXCEPT !.at = "send", !.i = @ + 1, !.xmit = xmit]
<1>1. CommTypes /\ comm[a] \in Exchanges /\ fault \in Faults \cup {"none"}
  BY DEF RdsInv, RdsTypes, CommTypes
<1>2. CASE comm' = [comm EXCEPT ![a].at = "send", ![a].i = @ + 1, ![a].xmit = xmit] /\ UNCHANGED fault
  <2>1. comm' = [comm EXCEPT ![a] = x] BY <1>1, <1>2 DEF CommTypes
  <2>2. /\ x \in Exchanges /\ x.at = "send" /\ x.xmit = xmit
        /\ x.type = comm[a].type /\ x.seq = comm[a].seq /\ x.blk = comm[a].blk /\ x.data = comm[a].data
    <3>1. PICK c, n : c = comm[a] /\ n = c.i + 1 OBVIOUS
    <3>2. c \in Exchanges /\ n \in Nat BY <3>1, <1>1 DEF Exchanges
    <3>3. x = [c EXCEPT !.at = "send", !.i = n, !.xmit = xmit] BY <3>1
    <3> HIDE DEF x
    <3>4. x \in Exchanges /\ x.at = "send" /\ x.xmit = xmit
          /\ x.type = c.type /\ x.seq = c.seq /\ x.blk = c.blk /\ x.data = c.data
      BY <3>2, <3>3 DEF Exchanges
    <3> QED BY <3>1, <3>4
  <2> HIDE DEF x
  <2>3. comm[a].type # "none"
        /\ (IF a = RDSPROC THEN x.type \in {"none", "read", "write"} ELSE x.type \in {"none", "open", "close"})
    BY <1>1, <2>2 DEF CommTypes, Actors
  <2>4. CommTypes' BY <1>1, <2>1, <2>2, <2>3, ActorCommTypes
  <2>5. Reading' => Reading BY <1>1, <2>1, <2>2, NoCommIs DEF Reading, CommTypes
  <2>6. comm'[a] = x BY <1>1, <2>1 DEF CommTypes
  <2> QED BY <2>1, <2>2, <2>4, <2>5, <2>6, <1>1, <1>2
<1>3. CASE comm' = [comm EXCEPT ![a] = NoComm]
           /\ fault' = IF a = RDSPROC THEN "panic"
                       ELSE IF comm[a].type = "close" THEN "half closed" ELSE fault
  <2>1. CommTypes' BY <1>1, <1>3, NoCommIs, ActorCommTypes
  <2>2. Reading' => Reading BY <1>1, <1>3, NoCommIs DEF Reading, CommTypes
  <2>3. fault' \in Faults \cup {"none"} BY <1>1, <1>3 DEF Faults
  <2>4. Sane' => a # RDSPROC /\ comm[a].type # "close" BY <1>3 DEF Sane
  <2> QED BY <2>1, <2>2, <2>3, <2>4, <1>3
<1> QED BY <1>2, <1>3 DEF Retry

(* The beginning of an exchange. *)
LEMMA ExchangeIs ==
    ASSUME RdsInv, NEW a \in Actors, NEW type \in MessageTypes, NEW blk \in Numbers, NEW data \in Contained,
           Exchange(a, type, blk, data),
           IF a = RDSPROC THEN type \in {"read", "write"} /\ blk \in Blocks ELSE type \in {"open", "close"}
    PROVE  /\ CommTypes' /\ rdseq' = rdseq + 1 /\ rdseq' \in Nat \ {0}
           /\ comm' = [comm EXCEPT ![a] = comm'[a]] /\ comm'[a] \in Exchanges
           /\ comm'[a].at = "send" /\ comm'[a].type = type /\ comm'[a].seq = rdseq
           /\ comm'[a].blk = blk /\ comm'[a].data = data /\ comm'[a].xmit = TRUE
<1> DEFINE x == [at |-> "send", type |-> type, seq |-> rdseq, blk |-> blk, data |-> data,
                 i |-> 0, xmit |-> TRUE]
<1>1. CommTypes /\ rdseq \in Nat \ {0} BY DEF RdsInv, RdsTypes
<1>2. rdseq' = rdseq + 1 /\ comm' = [comm EXCEPT ![a] = x] BY DEF Exchange
<1>3. /\ x \in Exchanges
      /\ x.at = "send" /\ x.type = type /\ x.seq = rdseq /\ x.blk = blk /\ x.data = data /\ x.xmit = TRUE
  BY <1>1 DEF Exchanges, MessageTypes
<1> HIDE DEF x
<1>4. CommTypes' BY <1>1, <1>2, <1>3, ActorCommTypes DEF MessageTypes
<1>5. rdseq' = rdseq + 1 /\ rdseq' \in Nat \ {0} BY <1>1, <1>2
<1>6. comm'[a] = x BY <1>1, <1>2 DEF CommTypes
<1> QED BY <1>2, <1>3, <1>4, <1>5, <1>6

LEMMA OpenStep ==
    ASSUME RdsInv, NEW p \in Procs, Open(p)
    PROVE  RdsInv'
<1>1. /\ Sane /\ rdstate' = "pend" /\ Exchange(p, "open", Unused, None)
      /\ UNCHANGED <<buf, reqq, cache, free, availsem, reqsem, pc, wrote, fault, requests, responses,
                     disk, sseq, sopen>>
  BY DEF Open, Calls, lists, sems, net, server
<1>2. /\ p \in Actors /\ p # RDSPROC /\ Unused \in Numbers /\ None \in Contained
      /\ "open" \in MessageTypes /\ "open" \in {"open", "close"}
  BY NoCommIs, BlockNumbers DEF MessageTypes
<1>3. CommTypes' /\ rdseq' \in Nat \ {0} BY <1>1, <1>2, ExchangeIs
<1>4. Reading' => Reading
  <2>1. comm' = [comm EXCEPT ![p] = comm'[p]] BY <1>1, <1>2, ExchangeIs
  <2> QED BY <2>1, <1>2, NoCommIs DEF Reading, RdsInv, RdsTypes, CommTypes
<1>5. NetTypes' /\ ServerTypes' /\ fault' \in Faults \cup {"none"}
  BY <1>1 DEF RdsInv, RdsTypes, NetTypes, ServerTypes
<1> QED BY <1>1, <1>3, <1>4, <1>5, ExchangeOnly

LEMMA FieldsSet ==
    ASSUME NEW f \in BufferFields
    PROVE  /\ [f EXCEPT !.valid = FALSE] \in BufferFields
           /\ [f EXCEPT !.refcnt = 0] \in BufferFields
           /\ \A d \in Contained : [f EXCEPT !.data = d, !.refcnt = 1] \in BufferFields
<1>1. [f EXCEPT !.valid = FALSE] \in BufferFields BY DEF BufferFields
<1>2. [f EXCEPT !.refcnt = 0] \in BufferFields BY DEF BufferFields
<1>3. ASSUME NEW d \in Contained PROVE [f EXCEPT !.data = d, !.refcnt = 1] \in BufferFields
  <2>1. PICK g : g = [f EXCEPT !.data = d] OBVIOUS
  <2>2. g \in BufferFields BY <2>1 DEF BufferFields
  <2>3. [g EXCEPT !.refcnt = 1] \in BufferFields BY <2>2 DEF BufferFields
  <2>4. [f EXCEPT !.data = d, !.refcnt = 1] = [g EXCEPT !.refcnt = 1] BY <2>1
  <2> QED BY <2>3, <2>4
<1> QED BY <1>1, <1>2, <1>3

LEMMA CloseStep ==
    ASSUME RdsInv, NEW p \in Procs, Close(p)
    PROVE  RdsInv'
<1>1. /\ Sane /\ Exchange(p, "close", Unused, None)
      /\ free' = Reverse(cache) \o free /\ cache' = <<>>
      /\ buf' = [b \in Buffers |-> IF b \in ToSet(cache) THEN [buf[b] EXCEPT !.valid = FALSE] ELSE buf[b]]
      /\ UNCHANGED <<rdstate, reqq, availsem, reqsem, pc, wrote, fault, requests, responses,
                     disk, sseq, sopen>>
  BY DEF Close, Calls, sems, net, server
<1>2. /\ p \in Actors /\ p # RDSPROC /\ Unused \in Numbers /\ None \in Contained
      /\ "close" \in MessageTypes /\ "close" \in {"open", "close"}
  BY NoCommIs, BlockNumbers DEF MessageTypes
<1>3. CommTypes' /\ rdseq' \in Nat \ {0} BY <1>1, <1>2, ExchangeIs
<1>4. Reading' = Reading
  <2>1. comm' = [comm EXCEPT ![p] = comm'[p]] BY <1>1, <1>2, ExchangeIs
  <2> QED BY <2>1, <1>2, NoCommIs DEF Reading, RdsInv, RdsTypes, CommTypes
<1>5. buf' \in [Buffers -> BufferFields]
  <2>1. buf \in [Buffers -> BufferFields] BY DEF RdsInv, RdsTypes
  <2>3. \A b \in Buffers : [buf[b] EXCEPT !.valid = FALSE] \in BufferFields BY <2>1, FieldsSet
  <2> QED BY <2>1, <2>3, <1>1
<1>6. RdsTypes'
  BY <1>1, <1>3, <1>5 DEF RdsInv, RdsTypes, CallTypes, NetTypes, ServerTypes
<1>7. /\ OnThreeLists(reqq, <<>>, Reverse(cache) \o free)
      /\ Len(Reverse(cache) \o free) = Len(cache) + Len(free) /\ Len(cache) \in Nat /\ Len(free) \in Nat
  BY CacheEmptied DEF RdsInv
<1>8. OnThreeLists(reqq, cache, free)' BY <1>1, <1>7
<1>9. Signalled' BY <1>1, <1>4 DEF RdsInv, Signalled
<1>10. Waiters' /\ Available' = Available BY <1>1 DEF RdsInv, Waiters, Available, At
<1>11. Len(free') + Len(cache') = Len(free) + Len(cache) BY <1>1, <1>7, EmptySeq
<1>12. (Sane => Available >= Len(free) + Len(cache))' BY <1>1, <1>10, <1>11 DEF RdsInv
<1> QED BY <1>6, <1>8, <1>9, <1>10, <1>12 DEF RdsInv

(* The driver's process has done with the request at the head. *)
LEMMA HeadDone ==
    ASSUME RdsInv, Sane, MakeAvailable, reqq # <<>>, reqq' = Tail(reqq),
           \/ cache' = <<Head(reqq)>> \o cache /\ free' = free
           \/ cache' = cache /\ free' = <<Head(reqq)>> \o free,
           CallTypes' => RdsTypes',
           reqsem' \in Nat, reqsem' + (IF Reading' THEN 1 ELSE 0) <= Len(reqq) - 1
    PROVE  RdsInv'
<1>1. /\ OnThreeLists(Tail(reqq), <<Head(reqq)>> \o cache, free)
      /\ OnThreeLists(Tail(reqq), cache, <<Head(reqq)>> \o free)
      /\ Len(Tail(reqq)) = Len(reqq) - 1 /\ Len(reqq) \in Nat /\ Len(cache) \in Nat /\ Len(free) \in Nat
      /\ Len(<<Head(reqq)>> \o cache) = Len(cache) + 1 /\ Len(<<Head(reqq)>> \o free) = Len(free) + 1
  BY HeadMoves DEF RdsInv
<1>2. OnThreeLists(reqq, cache, free)' BY <1>1
<1>3. Len(free') + Len(cache') = Len(free) + Len(cache) + 1
  <2>1. CASE cache' = <<Head(reqq)>> \o cache /\ free' = free
    <3>1. Len(cache') = Len(cache) + 1 /\ Len(free') = Len(free) BY <2>1, <1>1
    <3> QED BY <3>1, <1>1
  <2>2. CASE cache' = cache /\ free' = <<Head(reqq)>> \o free
    <3>1. Len(free') = Len(free) + 1 /\ Len(cache') = Len(cache) BY <2>2, <1>1
    <3> QED BY <3>1, <1>1
  <2> QED BY <2>1, <2>2
<1>4. Waiters' /\ Available' = Available + 1 /\ Available \in Nat /\ CallTypes'
  BY MakeAvailableAddsToken DEF RdsInv, RdsTypes
<1>5. RdsTypes' BY <1>4
<1>6. Len(reqq') = Len(reqq) - 1 BY <1>1
<1>7. Signalled' BY <1>6 DEF Signalled
<1>8. Available >= Len(free) + Len(cache) BY DEF RdsInv
<1>9. Available' >= Len(free') + Len(cache') BY <1>1, <1>3, <1>4, <1>8
<1> QED BY <1>2, <1>4, <1>5, <1>7, <1>9 DEF RdsInv

LEMMA TakesRequestIs ==
    ASSUME RdsInv, TakesRequest
    PROVE  /\ Sane /\ reqq # <<>> /\ Head(reqq) \in Buffers /\ ~Reading
           /\ reqsem' = reqsem - 1 /\ reqsem' \in Nat /\ reqsem' <= Len(reqq) - 1 /\ Len(reqq) \in Nat
           /\ buf[Head(reqq)] \in BufferFields
           /\ buf[Head(reqq)].data \in Contained
           /\ buf[Head(reqq)].op \in {"read", "write"} => buf[Head(reqq)].blk \in Blocks /\ buf[Head(reqq)].blk \in Numbers
<1>1. Sane /\ reqsem > 0 /\ reqsem' = reqsem - 1 BY DEF TakesRequest
<1>2. reqq # <<>> /\ ~Reading /\ Head(reqq) \in Buffers BY Heads
<1>3. reqsem \in Nat /\ reqsem <= Len(reqq) BY <1>2 DEF RdsInv, Signalled
<1>4. Len(reqq) \in Nat BY ThreeLists DEF RdsInv
<1>5. reqsem' \in Nat /\ reqsem' <= Len(reqq) - 1 BY <1>1, <1>3, <1>4
<1>6. buf[Head(reqq)] \in BufferFields BY <1>2 DEF RdsInv, RdsTypes
<1> QED BY <1>1, <1>2, <1>4, <1>5, <1>6 DEF BufferFields, Numbers

LEMMA StartReadStep ==
    ASSUME RdsInv, StartRead
    PROVE  RdsInv'
<1>1. PICK blk : blk = buf[Head(reqq)].blk OBVIOUS
<1>2. /\ TakesRequest /\ buf[Head(reqq)].op = "read" /\ Exchange(RDSPROC, "read", blk, None)
      /\ UNCHANGED <<rdstate, buf, reqq, cache, free, availsem, pc, wrote, fault, requests, responses,
                     disk, sseq, sopen>>
  BY <1>1 DEF StartRead, lists, net, aux, server
<1>3. /\ Sane /\ blk \in Blocks /\ blk \in Numbers
      /\ reqsem' \in Nat /\ reqsem' <= Len(reqq) - 1 /\ Len(reqq) \in Nat
  BY <1>1, <1>2, TakesRequestIs
<1>4. RDSPROC \in Actors /\ None \in Contained /\ "read" \in MessageTypes /\ "read" \in {"read", "write"}
  BY NoCommIs, BlockNumbers DEF MessageTypes
<1>5. CommTypes' /\ rdseq' \in Nat \ {0} BY <1>2, <1>3, <1>4, ExchangeIs
<1>6. RdsTypes' BY <1>2, <1>5 DEF RdsInv, RdsTypes, CallTypes, NetTypes, ServerTypes
<1>7. OnThreeLists(reqq, cache, free)' BY <1>2 DEF RdsInv
<1>8. Signalled' BY <1>2, <1>3 DEF Signalled
<1>9. Waiters' /\ Available' = Available BY <1>2 DEF RdsInv, Waiters, Available, At
<1>10. (Sane => Available >= Len(free) + Len(cache))' BY <1>2, <1>3, <1>9 DEF RdsInv
<1> QED BY <1>6, <1>7, <1>8, <1>9, <1>10 DEF RdsInv

LEMMA StartWriteStep ==
    ASSUME RdsInv, StartWrite
    PROVE  RdsInv'
<1>1. PICK b : b = Head(reqq) OBVIOUS
<1>2. PICK blk, data : blk = buf[b].blk /\ data = buf[b].data OBVIOUS
<1>3. /\ TakesRequest /\ buf[b].op = "write" /\ Exchange(RDSPROC, "write", blk, data)
      /\ reqq' = Tail(reqq) /\ cache' = <<Head(reqq)>> \o cache /\ free' = free
      /\ buf' = [buf EXCEPT ![b].refcnt = 0] /\ MakeAvailable
      /\ UNCHANGED <<rdstate, wrote, fault, requests, responses, disk, sseq, sopen>>
  BY <1>1, <1>2 DEF StartWrite, net, aux, server
<1>4. /\ Sane /\ reqq # <<>> /\ blk \in Blocks /\ blk \in Numbers /\ data \in Contained
      /\ reqsem' \in Nat /\ reqsem' <= Len(reqq) - 1 /\ Len(reqq) \in Nat
  BY <1>1, <1>2, <1>3, TakesRequestIs
<1>5. RDSPROC \in Actors /\ "write" \in MessageTypes /\ "write" \in {"read", "write"}
  BY NoCommIs DEF MessageTypes
<1>6. CommTypes' /\ rdseq' \in Nat \ {0} BY <1>3, <1>4, <1>5, ExchangeIs
<1>7. ~Reading'
  <2>1. comm'[RDSPROC].type = "write" BY <1>3, <1>4, <1>5, ExchangeIs
  <2> QED BY <2>1 DEF Reading
<1>8. buf' \in [Buffers -> BufferFields]
  <2>1. buf \in [Buffers -> BufferFields] BY DEF RdsInv, RdsTypes
  <2>2. buf' = [buf EXCEPT ![b] = [buf[b] EXCEPT !.refcnt = 0]] BY <1>3, <2>1
  <2> QED BY <2>1, <2>2, FieldsSet
<1>9. CallTypes' => RdsTypes' BY <1>3, <1>6, <1>8 DEF RdsInv, RdsTypes, NetTypes, ServerTypes
<1>10. reqsem' + (IF Reading' THEN 1 ELSE 0) <= Len(reqq) - 1 BY <1>4, <1>7
<1> QED BY <1>3, <1>4, <1>9, <1>10, HeadDone

LEMMA DoSyncStep ==
    ASSUME RdsInv, DoSync
    PROVE  RdsInv'
<1>1. /\ TakesRequest /\ MakeAvailable
      /\ reqq' = Tail(reqq) /\ free' = <<Head(reqq)>> \o free /\ cache' = cache
      /\ UNCHANGED <<rdstate, rdseq, buf, comm, wrote, fault, requests, responses, disk, sseq, sopen>>
  BY DEF DoSync, net, aux, server
<1>2. Sane /\ reqq # <<>> /\ ~Reading /\ reqsem' \in Nat /\ reqsem' <= Len(reqq) - 1 /\ Len(reqq) \in Nat
  BY <1>1, TakesRequestIs
<1>3. CallTypes' => RdsTypes' BY <1>1 DEF RdsInv, RdsTypes, CommTypes, NetTypes, ServerTypes
<1>4. ~Reading' BY <1>1, <1>2 DEF Reading
<1>5. reqsem' + (IF Reading' THEN 1 ELSE 0) <= Len(reqq) - 1 BY <1>2, <1>4
<1> QED BY <1>1, <1>2, <1>3, <1>5, HeadDone

LEMMA EndReadStep ==
    ASSUME RdsInv, NEW r \in responses, EndRead(r)
    PROVE  RdsInv'
<1>1. PICK b : b = Head(reqq) OBVIOUS
<1>2. /\ Sane /\ Reading /\ MakeAvailable /\ responses' = responses \ {r}
      /\ comm' = [comm EXCEPT ![RDSPROC] = NoComm]
      /\ buf' = [buf EXCEPT ![b].data = r.data, ![b].refcnt = 1]
      /\ reqq' = Tail(reqq) /\ cache' = <<Head(reqq)>> \o cache /\ free' = free
      /\ fault' = "links" \/ fault' = fault
      /\ UNCHANGED <<rdstate, rdseq, reqsem, requests, wrote, disk, sseq, sopen>>
  BY <1>1 DEF EndRead, Reading, server
<1>3. reqq # <<>> BY <1>2, Heads
<1>4. reqsem \in Nat /\ reqsem + 1 <= Len(reqq) /\ Len(reqq) \in Nat
  BY <1>2, ThreeLists DEF RdsInv, Signalled
<1>5. r.data \in Contained BY DEF RdsInv, RdsTypes, NetTypes, Responses
<1>6. buf' \in [Buffers -> BufferFields]
  <2>1. PICK d : d = r.data OBVIOUS
  <2>2. d \in Contained /\ buf' = [buf EXCEPT ![b].data = d, ![b].refcnt = 1] BY <2>1, <1>2, <1>5
  <2>3. buf \in [Buffers -> BufferFields] BY DEF RdsInv, RdsTypes
  <2>4. buf' = [buf EXCEPT ![b] = [buf[b] EXCEPT !.data = d, !.refcnt = 1]] BY <2>2, <2>3
  <2>5. [buf[b] EXCEPT !.data = d, !.refcnt = 1] \in BufferFields \/ b \notin Buffers
    BY <2>2, <2>3, FieldsSet
  <2> QED BY <2>3, <2>4, <2>5
<1>7. CommTypes' BY <1>2, NoCommIs, ActorCommTypes DEF RdsInv, RdsTypes
<1>8. CallTypes' => RdsTypes'
  BY <1>2, <1>6, <1>7 DEF RdsInv, RdsTypes, NetTypes, ServerTypes, Faults
<1>9. ~Reading' BY <1>2, NoCommIs DEF Reading, RdsInv, RdsTypes, CommTypes
<1>10. reqsem' \in Nat /\ reqsem' + (IF Reading' THEN 1 ELSE 0) <= Len(reqq) - 1 BY <1>2, <1>4, <1>9
<1> QED BY <1>2, <1>3, <1>8, <1>10, HeadDone

LEMMA CommTimeoutStep ==
    ASSUME RdsInv, NEW a \in Actors, CommTimeout(a)
    PROVE  RdsInv'
<1>1. /\ Sane /\ comm[a].at = "recv" /\ Retry(a, TRUE)
      /\ UNCHANGED <<rdstate, rdseq, buf, reqq, cache, free, availsem, reqsem, pc, wrote,
                     requests, responses, disk, sseq, sopen>>
  BY DEF CommTimeout, lists, sems, net, server
<1>2. CommTypes' /\ (Reading' => Reading) /\ fault' \in Faults \cup {"none"}
  <2>1. PICK xmit \in BOOLEAN : xmit = TRUE OBVIOUS
  <2>2. Retry(a, xmit) BY <1>1, <2>1
  <2> QED BY <2>2, <1>1, RetryIs
<1>3. NetTypes' /\ ServerTypes' /\ rdstate' \in {"free", "pend", "open"} /\ rdseq' \in Nat \ {0}
  BY <1>1 DEF RdsInv, RdsTypes, NetTypes, ServerTypes
<1> QED BY <1>1, <1>2, <1>3, ExchangeOnly

LEMMA RefusedStep ==
    ASSUME RdsInv, NEW a \in Actors, NEW r \in responses, Refused(a, r)
    PROVE  RdsInv'
<1>1. /\ Sane /\ comm[a].at = "recv" /\ Retry(a, ~(r.seq < comm[a].seq)) /\ responses' = responses \ {r}
      /\ UNCHANGED <<rdstate, rdseq, buf, reqq, cache, free, availsem, reqsem, pc, wrote,
                     requests, disk, sseq, sopen>>
  BY DEF Refused, lists, sems, server
<1>2. CommTypes' /\ (Reading' => Reading) /\ fault' \in Faults \cup {"none"}
  <2>1. PICK xmit \in BOOLEAN : xmit = ~(r.seq < comm[a].seq) OBVIOUS
  <2>2. Retry(a, xmit) BY <1>1, <2>1
  <2> QED BY <2>2, <1>1, RetryIs
<1>3. NetTypes' /\ ServerTypes' /\ rdstate' \in {"free", "pend", "open"} /\ rdseq' \in Nat \ {0}
  BY <1>1 DEF RdsInv, RdsTypes, NetTypes, ServerTypes
<1> QED BY <1>1, <1>2, <1>3, ExchangeOnly

(* The answer that ends an exchange. *)
LEMMA AnswerStep ==
    ASSUME RdsInv, Sane, NEW a \in Actors, NEW r, comm' = [comm EXCEPT ![a] = NoComm],
           responses' = responses \ {r}, rdstate' \in {"free", "pend", "open"},
           UNCHANGED <<rdseq, buf, reqq, cache, free, availsem, reqsem, pc, wrote, fault,
                       requests, disk, sseq, sopen>>
    PROVE  RdsInv'
<1>1. CommTypes' BY NoCommIs, ActorCommTypes DEF RdsInv, RdsTypes
<1>2. Reading' => Reading BY NoCommIs DEF Reading, RdsInv, RdsTypes, CommTypes
<1>3. NetTypes' /\ ServerTypes' /\ rdseq' \in Nat \ {0} /\ fault' \in Faults \cup {"none"}
  BY DEF RdsInv, RdsTypes, NetTypes, ServerTypes
<1> QED BY <1>1, <1>2, <1>3, ExchangeOnly

LEMMA ReplyStep ==
    ASSUME RdsInv, NEW r \in responses, Reply(r)
    PROVE  RdsInv'
<1>1. ASSUME EndWrite(r) PROVE RdsInv'
  <2>1. RDSPROC \in Actors BY NoCommIs
  <2> QED BY <1>1, <2>1, AnswerStep DEF EndWrite, lists, sems, aux, server, RdsInv, RdsTypes
<1>2. ASSUME NEW p \in Procs, DoneByCaller(p, r) PROVE RdsInv'
  <2>1. p \in Actors BY NoCommIs
  <2> QED BY <1>2, <2>1, AnswerStep DEF DoneByCaller, lists, sems, aux, server
<1> QED BY <1>1, <1>2, EndReadStep, RefusedStep DEF Reply

LEMMA HandleStep ==
    ASSUME RdsInv, NEW m \in requests, Handle(m)
    PROVE  RdsInv'
<1>1. /\ Sane /\ requests' = requests \ {m}
      /\ UNCHANGED <<rdstate, rdseq, buf, reqq, cache, free, availsem, reqsem, pc, comm, wrote, fault>>
  BY DEF Handle, lists, sems, aux
<1>2. /\ m \in Requests /\ requests \subseteq Requests /\ responses \subseteq Responses
      /\ sseq \in Nat /\ sopen \in BOOLEAN /\ disk \in [Blocks -> Contained]
  BY DEF RdsInv, RdsTypes, NetTypes, ServerTypes
<1>3. NetTypes' /\ ServerTypes'
  <2>1. CASE UNCHANGED <<responses, server>>
    BY <2>1, <1>1, <1>2 DEF NetTypes, ServerTypes, server
  <2>2. CASE Serve(m) /\ responses' = responses \cup {Response(m)}
    <3>1. m.data \in Contained /\ m.seq \in Nat /\ m.try \in Nat /\ m.type \in MessageTypes
          /\ (m.type = "read" => m.blk \in Blocks)
      BY <1>2 DEF Requests
    <3>2. ServerTypes' BY <2>2, <1>2, <3>1 DEF Serve, Rdopen, Rdclose, Rdwrite, ServerTypes
    <3>3. Status(m) \in Responses BY <3>1, BlockNumbers DEF Status, Responses
    <3>4. m.type = "read" => Rdread(m) \in Responses
      BY <3>1, <1>2, BlockNumbers DEF Rdread, Status, Responses
    <3>5. Response(m) \in Responses BY <3>3, <3>4 DEF Response
    <3> QED BY <3>2, <3>5, <2>2, <1>1, <1>2 DEF NetTypes
  <2> QED BY <2>1, <2>2 DEF Handle
<1>4. CommTypes' /\ (Reading' => Reading) BY <1>1 DEF RdsInv, RdsTypes, CommTypes, Reading
<1>5. rdstate' \in {"free", "pend", "open"} /\ rdseq' \in Nat \ {0} /\ fault' \in Faults \cup {"none"}
  BY <1>1 DEF RdsInv, RdsTypes
<1> QED BY <1>1, <1>3, <1>4, <1>5, ExchangeOnly

LEMMA LoseStep ==
    ASSUME RdsInv, NEW m, Lose(m)
    PROVE  RdsInv'
<1>1. /\ Sane /\ requests' = requests \ {m} /\ responses' = responses \ {m}
      /\ UNCHANGED <<rdstate, rdseq, buf, reqq, cache, free, availsem, reqsem, pc, comm, wrote, fault,
                     disk, sseq, sopen>>
  BY DEF Lose, lists, sems, server
<1>2. NetTypes' /\ ServerTypes' BY <1>1 DEF RdsInv, RdsTypes, NetTypes, ServerTypes
<1>3. CommTypes' /\ (Reading' => Reading) BY <1>1 DEF RdsInv, RdsTypes, CommTypes, Reading
<1>4. rdstate' \in {"free", "pend", "open"} /\ rdseq' \in Nat \ {0} /\ fault' \in Faults \cup {"none"}
  BY <1>1 DEF RdsInv, RdsTypes
<1> QED BY <1>1, <1>2, <1>3, <1>4, ExchangeOnly

LEMMA StutterStep ==
    ASSUME RdsInv, UNCHANGED <<rdstate, rdseq, buf, reqq, cache, free, availsem, reqsem, pc, comm,
                               requests, responses, wrote, fault, disk, sseq, sopen>>
    PROVE  RdsInv'
<1>1. RdsTypes' BY DEF RdsInv, RdsTypes, CallTypes, CommTypes, NetTypes, ServerTypes
<1>2. OnThreeLists(reqq, cache, free)' BY DEF RdsInv
<1>3. Signalled' /\ Waiters' BY DEF RdsInv, Signalled, Reading, Waiters, At
<1>4. (Sane => Available >= Len(free) + Len(cache))' BY DEF RdsInv, Sane, Available, At
<1> QED BY <1>1, <1>2, <1>3, <1>4 DEF RdsInv

LEMMA ReadStep ==
    ASSUME RdsInv, NEW p \in Procs, NEW blk \in Uses[p], Read(p, blk)
    PROVE  RdsInv'
<1>1. Sane /\ pc[p] = Idle /\ UNCHANGED <<rdstate, rdseq, comm, net, server>> BY DEF Read, Calls
<1>2. CASE Alloc(p, "read", blk, None)
  <2>1. blk \in Blocks /\ blk \in Numbers /\ None \in Contained /\ "read" \in {"read", "write", "sync"}
    BY BlockNumbers
  <2> QED BY <1>1, <1>2, <2>1, AllocStep
<1>3. CASE UNCHANGED <<lists, sems, mail, pc, wrote, crossed, fault>>
  BY <1>1, <1>3, StutterStep DEF lists, sems, net, server
<1> QED BY <1>2, <1>3 DEF Read

LEMMA WriteNewStep ==
    ASSUME RdsInv, NEW p \in Procs, NEW blk \in Uses[p], NEW data \in Data, WriteNew(p, blk, data)
    PROVE  RdsInv'
<1>1. /\ Sane /\ pc[p] = Idle /\ Alloc(p, "write", blk, data)
      /\ UNCHANGED <<rdstate, rdseq, comm, net, server>>
  BY DEF WriteNew, Calls
<1>2. blk \in Blocks /\ blk \in Numbers /\ data \in Contained /\ "write" \in {"read", "write", "sync"}
  BY BlockNumbers
<1> QED BY <1>1, <1>2, AllocStep

LEMMA SyncStep ==
    ASSUME RdsInv, NEW p \in Procs, Sync(p)
    PROVE  RdsInv'
<1>1. /\ Sane /\ pc[p] = Idle /\ Alloc(p, "sync", Unused, None)
      /\ UNCHANGED <<rdstate, rdseq, comm, net, server>>
  BY DEF Sync, Calls
<1>2. Unused \in Numbers /\ None \in Contained /\ "sync" \in {"read", "write", "sync"} BY BlockNumbers
<1> QED BY <1>1, <1>2, AllocStep

LEMMA RdsInitially == RdsInit => RdsInv
<1> SUFFICES ASSUME RdsInit PROVE RdsInv OBVIOUS
<1>1. RD_BUFFS \in Nat \ {0} BY RdsAssumption
<1>2. RdsTypes
  <2>1. CallTypes BY BlockNumbers DEF RdsInit, CallTypes, CallsInProgress, Idle
  <2>2. CommTypes BY NoCommIs DEF RdsInit, CommTypes
  <2>3. NetTypes /\ ServerTypes BY BlockNumbers DEF RdsInit, ServerInit, NetTypes, ServerTypes
  <2>4. buf \in [Buffers -> BufferFields] BY BlockNumbers DEF RdsInit, BufferFields
  <2>5. wrote \in [Blocks -> Contained] BY BlockNumbers DEF RdsInit, ServerInit
  <2>6. rdstate \in {"free", "pend", "open"} /\ rdseq \in Nat \ {0} /\ fault \in Faults \cup {"none"}
    BY DEF RdsInit
  <2> QED BY <2>1, <2>2, <2>3, <2>4, <2>5, <2>6 DEF RdsTypes
<1>3. /\ reqq = <<>> /\ cache = <<>> /\ free = [i \in Buffers |-> i] /\ availsem = SemWith(RD_BUFFS)
      /\ reqsem = 0 /\ fault = "none" /\ Buffers = 1 .. RD_BUFFS
  BY DEF RdsInit, Buffers
<1>4. Lists(free, Buffers) /\ Len(free) = RD_BUFFS
  <2>1. free \in Seq(Buffers) /\ Len(free) = RD_BUFFS /\ \A i \in 1 .. RD_BUFFS : free[i] = i
    BY <1>1, <1>3
  <2> QED BY <2>1, <1>1, <1>3 DEF Lists, NoDup
<1>5. Lists(<<>>, {}) BY SemHolds DEF Holds, SemWith
<1>6. OnThreeLists(reqq, cache, free)
  <2>1. {} \cap {} = {} /\ {} \cap Buffers = {} /\ {} \cup {} \cup Buffers = Buffers OBVIOUS
  <2> QED BY <2>1, <1>3, <1>4, <1>5, Zenon DEF OnThreeLists
<1>7. Signalled
  <2>1. ~Reading BY NoCommIs DEF RdsInit, Reading
  <2> QED BY <2>1, <1>3, EmptySeq DEF Signalled
<1>8. At("wait") = {} /\ At("woken") = {} BY DEF RdsInit, At, Idle
<1>9. Holds(availsem, {}) /\ Tokens(availsem) = RD_BUFFS BY <1>1, <1>3, SemHolds
<1>10. Waiters BY <1>8, <1>9, FS_EmptySet DEF Waiters
<1>11. Available = RD_BUFFS BY <1>1, <1>8, <1>9, FS_EmptySet DEF Available
<1>12. Available >= Len(free) + Len(cache) BY <1>1, <1>3, <1>4, <1>11, EmptySeq
<1> QED BY <1>2, <1>6, <1>7, <1>10, <1>12 DEF RdsInv

LEMMA RdsInductive == RdsInv /\ [RdsNext]_vars => RdsInv'
<1> SUFFICES ASSUME RdsInv, [RdsNext]_vars PROVE RdsInv' OBVIOUS
<1>1. CASE UNCHANGED vars
  BY <1>1, StutterStep DEF vars, lists, sems, net, aux, server
<1>2. ASSUME NEW p \in Procs, NEW blk \in Uses[p],
             \/ Read(p, blk)
             \/ \E data \in Data : Rewrite(p, blk, data) \/ WriteCached(p, blk, data) \/ WriteNew(p, blk, data)
      PROVE  RdsInv'
  BY <1>2, ReadStep, RewriteStep, WriteCachedStep, WriteNewStep
<1>3. ASSUME NEW p \in Procs, Sync(p) \/ Got(p) \/ Received(p) \/ Open(p) \/ Close(p) PROVE RdsInv'
  BY <1>3, SyncStep, GotStep, ReceivedStep, OpenStep, CloseStep
<1>4. ASSUME Driver PROVE RdsInv' BY <1>4, StartReadStep, StartWriteStep, DoSyncStep DEF Driver
<1>5. ASSUME NEW a \in Actors, CommSend(a) \/ CommTimeout(a) PROVE RdsInv'
  BY <1>5, CommSendStep, CommTimeoutStep
<1>6. ASSUME NEW r \in responses, Reply(r) PROVE RdsInv' BY <1>6, ReplyStep
<1>7. ASSUME NEW m \in requests, Handle(m) PROVE RdsInv' BY <1>7, HandleStep
<1>8. ASSUME NEW m \in requests \cup responses, Lose(m) PROVE RdsInv' BY <1>8, LoseStep
<1> QED BY <1>1, <1>2, <1>3, <1>4, <1>5, <1>6, <1>7, <1>8 DEF RdsNext

CrossedIs == crossed \subseteq {"read", "write"}

(* What has been crossed stays so. *)
LEMMA CrossedGrows == [RdsNext]_vars => crossed \subseteq crossed' /\ (CrossedIs => CrossedIs')
<1> SUFFICES ASSUME [RdsNext]_vars PROVE crossed \subseteq crossed' /\ (CrossedIs => CrossedIs') OBVIOUS
<1>1. ASSUME NEW p \in Procs, NEW blk \in Uses[p], NEW call \in {"read", "write"}, Meets(call, blk)
      PROVE  crossed \subseteq crossed' /\ (CrossedIs => CrossedIs')
  BY <1>1 DEF Meets, CrossedIs
<1>2. ASSUME UNCHANGED crossed PROVE crossed \subseteq crossed' /\ (CrossedIs => CrossedIs')
  BY <1>2 DEF CrossedIs
<1>3. ASSUME NEW p \in Procs, NEW blk \in Uses[p], NEW data \in Data,
             Read(p, blk) \/ Rewrite(p, blk, data) \/ WriteCached(p, blk, data) \/ WriteNew(p, blk, data)
      PROVE  UNCHANGED crossed \/ \E call \in {"read", "write"} : Meets(call, blk)
  BY <1>3 DEF Read, Rewrite, WriteCached, WriteNew
<1>4. ASSUME NEW p \in Procs, NEW blk \in Uses[p], Read(p, blk)
      PROVE  UNCHANGED crossed \/ \E call \in {"read", "write"} : Meets(call, blk)
  BY <1>4 DEF Read
<1>5. ASSUME NEW p \in Procs, Sync(p) \/ Got(p) \/ Received(p) \/ Open(p) \/ Close(p) PROVE UNCHANGED crossed
  BY <1>5 DEF Sync, Got, Received, Open, Close
<1>6. ASSUME Driver PROVE UNCHANGED crossed BY <1>6 DEF Driver, StartRead, StartWrite, DoSync, aux
<1>7. ASSUME NEW a \in Actors, CommSend(a) \/ CommTimeout(a) PROVE UNCHANGED crossed
  BY <1>7 DEF CommSend, CommTimeout, aux
<1>8. ASSUME NEW r \in responses, Reply(r) PROVE UNCHANGED crossed
  BY <1>8 DEF Reply, EndRead, EndWrite, DoneByCaller, Refused, aux
<1>9. ASSUME NEW m, Handle(m) \/ Lose(m) PROVE UNCHANGED crossed BY <1>9 DEF Handle, Lose, aux
<1>10. ASSUME UNCHANGED vars PROVE UNCHANGED crossed BY <1>10 DEF vars, aux
<1> QED BY <1>1, <1>2, <1>3, <1>4, <1>5, <1>6, <1>7, <1>8, <1>9, <1>10 DEF RdsNext

LEMMA RdsTypesFollow == RdsInv /\ CrossedIs => RdsTypeOK
<1> SUFFICES ASSUME RdsInv, CrossedIs PROVE RdsTypeOK OBVIOUS
<1>1. fault \in Faults \cup {"none"} /\ rdstate \in {"free", "pend", "open"} BY DEF RdsInv, RdsTypes
<1>2. PICK Q, C, F :
        /\ Lists(reqq, Q) /\ Lists(cache, C) /\ Lists(free, F)
        /\ Q \cap C = {} /\ Q \cap F = {} /\ C \cap F = {}
        /\ Q \cup C \cup F = Buffers
  BY DEF RdsInv, OnThreeLists
<1>3. PICK l : l = reqq \o cache OBVIOUS
<1>4. Lists(l, Q \cup C) BY <1>2, <1>3, JoinLists
<1>5. (Q \cup C) \cap F = {} BY <1>2
<1>6. Lists(l \o free, Buffers) BY <1>2, <1>4, <1>5, JoinLists
<1>7. PICK all : all = reqq \o cache \o free OBVIOUS
<1>8. Lists(all, Buffers) BY <1>3, <1>6, <1>7
<1>9. ToSet(all) = Buffers /\ Len(all) = Cardinality(Buffers) BY <1>8, ListedOnce
<1>10. Cardinality(Buffers) = RD_BUFFS
  <2>1. 1 \in Int /\ RD_BUFFS \in Int /\ RD_BUFFS >= 1 BY RdsAssumption
  <2>2. Cardinality(1 .. RD_BUFFS) = RD_BUFFS - 1 + 1 BY <2>1, FS_Interval
  <2> QED BY <2>1, <2>2 DEF Buffers
<1>11. reqsem \in 0 .. Len(reqq)
  <2>1. Len(reqq) \in Nat BY ThreeLists DEF RdsInv
  <2> QED BY <2>1 DEF RdsInv, Signalled
<1> QED BY <1>1, <1>7, <1>9, <1>10, <1>11 DEF RdsTypeOK, CrossedIs

(* The remote disk driver: RdsTypeOK holds for any processes, buffers,     *)
(* blocks, retries and losses.  Every buffer is on exactly one of the      *)
(* lists of rdsRead(), rdsWrite(), rdsControl(), rdsbufalloc(),            *)
(* rdsClose() and rdsprocess(), and there is a request for every signal    *)
(* of rd_reqsem.                                                           *)
THEOREM RdsTypesHold == RdsSpec => []RdsTypeOK
<1>1. RdsInit => RdsInv /\ CrossedIs BY RdsInitially DEF RdsInit, CrossedIs
<1>2. RdsInv /\ CrossedIs /\ [RdsNext]_vars => RdsInv' /\ CrossedIs' BY RdsInductive, CrossedGrows
<1>3. RdsInv /\ CrossedIs => RdsTypeOK BY RdsTypesFollow
<1> QED BY <1>1, <1>2, <1>3, PTL DEF RdsSpec

(* The remote disk driver: BuffersAvailable holds whatever processes wait  *)
(* in rdsbufalloc() and whatever tokens rdsWrite() takes back: rd_availsem *)
(* never has fewer tokens than there are buffers to be had.                *)
THEOREM BuffersStay == RdsSpec => []BuffersAvailable
<1>1. RdsInit => RdsInv BY RdsInitially
<1>2. RdsInv /\ [RdsNext]_vars => RdsInv' BY RdsInductive
<1>3. RdsInv => BuffersAvailable BY DEF RdsInv, BuffersAvailable, Available, At
<1> QED BY <1>1, <1>2, <1>3, PTL DEF RdsSpec
----------------------------------------------------------------------------
(* The exchanges, when no message outlives its time limit: a request that  *)
(* the server would still handle is the one its sender waits for, and so   *)
(* is every answer to a read or a write.                                   *)
LastSeq == rdseq - 1

Active(a) == comm[a].at # "none"

CallerActive == \E p \in Procs : Active(p)

(* The disk may be read and written. *)
Settled == rdstate = "open" /\ ~CallerActive

AtRest == Settled \/ (reqq = <<>> /\ \A p \in Procs : pc[p] = Idle)

CallersExchange ==
    /\ \A p \in Procs :
          Active(p) => /\ comm[p].seq = LastSeq
                       /\ \/ comm[p].type = "open" /\ rdstate = "pend"
                          \/ comm[p].type = "close" /\ rdstate = "open"
    /\ \A p, q \in Procs : Active(p) /\ Active(q) => p = q

DriversExchange ==
    Active(RDSPROC) =>
       /\ comm[RDSPROC].type \in {"read", "write"}
       /\ comm[RDSPROC].seq > 1 /\ comm[RDSPROC].seq <= LastSeq
       /\ CallerActive \/ rdstate = "pend" => comm[RDSPROC].seq < LastSeq
       /\ sseq <= comm[RDSPROC].seq => sopen

ServerFollows ==
    /\ rdstate # "free" => rdseq > 1
    /\ sseq < rdseq
    /\ Settled => sopen

OpensInFlight ==
    /\ \A m \in requests \cup responses : m.type = "open" => rdstate = "pend" /\ m.seq = LastSeq
    /\ \A m \in responses : m.type = "open" => sopen

ClosesInFlight ==
    \A m \in requests \cup responses :
        m.type = "close" => m.seq = LastSeq /\ \E p \in Procs : Active(p) /\ comm[p].type = "close"

ToDriver(type) == type \in {"read", "write"}

OfDriver(m) ==
    /\ Active(RDSPROC) /\ m.seq = comm[RDSPROC].seq /\ m.type = comm[RDSPROC].type
    /\ m.blk = comm[RDSPROC].blk /\ m.data = comm[RDSPROC].data

RequestsInFlight ==
    \A m \in requests : ToDriver(m.type) => m.seq > 1 /\ (m.seq < sseq \/ OfDriver(m))

ResponsesInFlight ==
    /\ \A m \in responses : m.seq <= sseq
    /\ \A m \in responses :
          ToDriver(m.type) =>
             /\ Active(RDSPROC) /\ m.seq = comm[RDSPROC].seq /\ m.type = comm[RDSPROC].type
             /\ m.type = "write" => disk[comm[RDSPROC].blk] = comm[RDSPROC].data
    /\ \A m, n \in responses : ToDriver(m.type) /\ ToDriver(n.type) => m = n

OneInFlight(seq) ==
    /\ \A m, n \in requests : m.seq = seq /\ n.seq = seq => m = n
    /\ \A m, n \in responses : m.seq = seq /\ n.seq = seq => m = n
    /\ \A m \in requests, n \in responses : ~(m.seq = seq /\ n.seq = seq)

NoneInFlight(seq) == \A m \in requests \cup responses : m.seq # seq

Alone(a) ==
    /\ OneInFlight(comm[a].seq)
    /\ comm[a].at = "send" /\ comm[a].xmit => NoneInFlight(comm[a].seq)

EachAlone ==
    /\ \A p \in Procs : Active(p) => Alone(p)
    /\ Active(RDSPROC) /\ sseq <= comm[RDSPROC].seq => Alone(RDSPROC)

InFlightInv == OpensInFlight /\ ClosesInFlight /\ RequestsInFlight /\ ResponsesInFlight /\ EachAlone

ExchangeInv == AtRest /\ CallersExchange /\ DriversExchange /\ ServerFollows /\ InFlightInv

LEMMA ListTypes ==
    ASSUME RdsInv
    PROVE  /\ rdseq \in Nat \ {0} /\ sseq \in Nat /\ LastSeq \in Nat /\ rdseq = LastSeq + 1
           /\ \A a \in Actors : comm[a] \in Exchanges /\ comm[a].seq \in Nat
           /\ \A p \in Procs : comm[p].seq \in Nat
           /\ comm[RDSPROC].seq \in Nat
           /\ \A m \in requests : m.seq \in Nat /\ m.type \in MessageTypes
           /\ \A m \in responses : m.seq \in Nat /\ m.type \in MessageTypes
           /\ \A a \in Actors : ~Active(a) => comm[a] = NoComm
<1>1. rdseq \in Nat \ {0} /\ sseq \in Nat BY DEF RdsInv, RdsTypes, ServerTypes
<1>2. \A a \in Actors : comm[a] \in Exchanges BY DEF RdsInv, RdsTypes, CommTypes
<1>3. \A a \in Actors : comm[a].seq \in Nat BY <1>2 DEF Exchanges
<1>4. \A m \in requests : m.seq \in Nat /\ m.type \in MessageTypes
  BY DEF RdsInv, RdsTypes, NetTypes, Requests
<1>5. \A m \in responses : m.seq \in Nat /\ m.type \in MessageTypes
  BY DEF RdsInv, RdsTypes, NetTypes, Responses
<1>6. \A a \in Actors : ~Active(a) => comm[a] = NoComm BY DEF Active, RdsInv, RdsTypes, CommTypes
<1> QED BY <1>1, <1>2, <1>3, <1>4, <1>5, <1>6, NoCommIs DEF LastSeq

(* A step between exchanges. *)
LEMMA QuietStep ==
    ASSUME ExchangeInv, Settled, UNCHANGED <<rdstate, rdseq, comm, requests, responses, disk, sseq, sopen>>
    PROVE  ExchangeInv'
<1>1. AtRest' BY DEF AtRest, Settled, CallerActive, Active
<1>2. CallersExchange' /\ DriversExchange' /\ ServerFollows'
  BY DEF ExchangeInv, CallersExchange, DriversExchange, ServerFollows, Settled, CallerActive, Active, LastSeq
<1>3. OpensInFlight' /\ ClosesInFlight'
  BY DEF ExchangeInv, InFlightInv, OpensInFlight, ClosesInFlight, Active, LastSeq
<1>4. RequestsInFlight' /\ ResponsesInFlight'
  BY DEF ExchangeInv, InFlightInv, RequestsInFlight, ResponsesInFlight, OfDriver, Active
<1>5. EachAlone'
  BY DEF ExchangeInv, InFlightInv, EachAlone, Alone, OneInFlight, NoneInFlight, Active
<1> QED BY <1>1, <1>2, <1>3, <1>4, <1>5 DEF ExchangeInv, InFlightInv

(* Messages disappear. *)
LEMMA FewerMessages ==
    ASSUME ExchangeInv, requests' \subseteq requests, responses' \subseteq responses,
           UNCHANGED <<rdstate, rdseq, comm, disk, sseq, sopen, reqq, pc>>
    PROVE  ExchangeInv'
<1>1. AtRest' BY DEF ExchangeInv, AtRest, Settled, CallerActive, Active
<1>2. CallersExchange' /\ DriversExchange' /\ ServerFollows'
  BY DEF ExchangeInv, CallersExchange, DriversExchange, ServerFollows, Settled, CallerActive, Active, LastSeq
<1>3. OpensInFlight' /\ ClosesInFlight'
  BY DEF ExchangeInv, InFlightInv, OpensInFlight, ClosesInFlight, Active, LastSeq
<1>4. RequestsInFlight' /\ ResponsesInFlight'
  BY DEF ExchangeInv, InFlightInv, RequestsInFlight, ResponsesInFlight, OfDriver, Active
<1>5. EachAlone'
  BY DEF ExchangeInv, InFlightInv, EachAlone, Alone, OneInFlight, NoneInFlight, Active
<1> QED BY <1>1, <1>2, <1>3, <1>4, <1>5 DEF ExchangeInv, InFlightInv

(* An exchange goes on; answers it does not accept are consumed. *)
LEMMA GoesOn ==
    ASSUME RdsInv, ExchangeInv, NEW a \in Actors, Active(a),
           comm' = [comm EXCEPT ![a] = comm'[a]], comm'[a].at # "none",
           comm'[a].type = comm[a].type, comm'[a].seq = comm[a].seq,
           comm'[a].blk = comm[a].blk, comm'[a].data = comm[a].data,
           requests' \subseteq requests, responses' \subseteq responses,
           a # RDSPROC \/ sseq <= comm[a].seq =>
               (comm'[a].at = "send" /\ comm'[a].xmit => \A m \in requests' \cup responses' : m.seq # comm[a].seq),
           UNCHANGED <<rdstate, rdseq, disk, sseq, sopen, reqq, pc>>
    PROVE  ExchangeInv'
<1>1. \A c \in Actors : /\ Active(c)' = Active(c) /\ comm'[c].type = comm[c].type /\ comm'[c].seq = comm[c].seq
                        /\ comm'[c].blk = comm[c].blk /\ comm'[c].data = comm[c].data
                        /\ c # a => comm'[c] = comm[c]
  BY DEF Active, RdsInv, RdsTypes, CommTypes
<1>2. RDSPROC \in Actors /\ \A p \in Procs : p \in Actors /\ p # RDSPROC BY NoCommIs
<1>3. LastSeq' = LastSeq BY DEF LastSeq
<1>4. CallerActive' = CallerActive /\ Settled' = Settled BY <1>1, <1>2 DEF CallerActive, Settled
<1>5. AtRest' BY <1>4 DEF ExchangeInv, AtRest
<1>6. CallersExchange' /\ DriversExchange' /\ ServerFollows'
  <2>1. CallersExchange' BY <1>1, <1>2, <1>3 DEF ExchangeInv, CallersExchange
  <2>2. DriversExchange' BY <1>1, <1>2, <1>3, <1>4 DEF ExchangeInv, DriversExchange
  <2>3. ServerFollows' BY <1>4 DEF ExchangeInv, ServerFollows
  <2> QED BY <2>1, <2>2, <2>3
<1>7. OpensInFlight' /\ ClosesInFlight'
  BY <1>1, <1>2, <1>3 DEF ExchangeInv, InFlightInv, OpensInFlight, ClosesInFlight
<1>8. RequestsInFlight' /\ ResponsesInFlight'
  BY <1>1, <1>2 DEF ExchangeInv, InFlightInv, RequestsInFlight, ResponsesInFlight, OfDriver
<1>9. \A c \in Actors : OneInFlight(comm[c].seq) => OneInFlight(comm[c].seq)'
  BY <1>1 DEF OneInFlight
<1>10. \A c \in Actors : NoneInFlight(comm[c].seq) => NoneInFlight(comm[c].seq)'
  BY <1>1 DEF NoneInFlight
<1>12. \A c \in Actors : c # a /\ Alone(c) => Alone(c)' BY <1>1, <1>9, <1>10 DEF Alone
<1>13. Alone(a) /\ (comm'[a].at = "send" /\ comm'[a].xmit =>
                       \A m \in requests' \cup responses' : m.seq # comm[a].seq) => Alone(a)'
  BY <1>9 DEF Alone, NoneInFlight
<1>14. EachAlone' BY <1>1, <1>2, <1>12, <1>13 DEF ExchangeInv, InFlightInv, EachAlone
<1> QED BY <1>5, <1>6, <1>7, <1>8, <1>14 DEF ExchangeInv, InFlightInv

(* An exchange of rdsOpen() is given up. *)
LEMMA GivenUp ==
    ASSUME RdsInv, ExchangeInv, NEW p \in Procs, Active(p), comm[p].type # "close",
           comm' = [comm EXCEPT ![p] = NoComm],
           requests' \subseteq requests, responses' \subseteq responses,
           UNCHANGED <<rdstate, rdseq, disk, sseq, sopen, reqq, pc>>
    PROVE  ExchangeInv'
<1>1. /\ \A c \in Actors : c # p => comm'[c] = comm[c] /\ Active(c)' = Active(c)
      /\ comm'[p] = NoComm /\ ~Active(p)'
  BY NoCommIs DEF Active, RdsInv, RdsTypes, CommTypes
<1>2. RDSPROC \in Actors /\ p # RDSPROC /\ p \in Actors /\ \A q \in Procs : q \in Actors /\ q # RDSPROC BY NoCommIs
<1>3. rdstate = "pend" /\ \A q \in Procs : Active(q) => q = p
  BY DEF ExchangeInv, CallersExchange
<1>4. ~CallerActive' BY <1>1, <1>2, <1>3 DEF CallerActive
<1>5. LastSeq' = LastSeq BY DEF LastSeq
<1>6. ~Settled /\ ~Settled' BY <1>3 DEF Settled
<1>7. AtRest' BY <1>6 DEF ExchangeInv, AtRest
<1>8. CallersExchange' BY <1>4 DEF CallerActive, CallersExchange
<1>9. DriversExchange' BY <1>1, <1>2, <1>3, <1>4, <1>5 DEF ExchangeInv, DriversExchange
<1>10. ServerFollows' BY <1>6 DEF ExchangeInv, ServerFollows
<1>11. OpensInFlight' BY <1>5 DEF ExchangeInv, InFlightInv, OpensInFlight
<1>12. ClosesInFlight' BY <1>1, <1>2, <1>3, <1>5 DEF ExchangeInv, InFlightInv, ClosesInFlight
<1>13. RequestsInFlight' /\ ResponsesInFlight'
  BY <1>1, <1>2 DEF ExchangeInv, InFlightInv, RequestsInFlight, ResponsesInFlight, OfDriver
<1>14. EachAlone'
  BY <1>1, <1>2, <1>4 DEF ExchangeInv, InFlightInv, EachAlone, CallerActive, Alone, OneInFlight, NoneInFlight
<1> QED BY <1>7, <1>8, <1>9, <1>10, <1>11, <1>12, <1>13, <1>14 DEF ExchangeInv, InFlightInv

LEMMA RetryExchange ==
    ASSUME RdsInv, ExchangeInv, NEW a \in Actors, NEW xmit \in BOOLEAN, Retry(a, xmit), comm[a].at = "recv",
           requests' \subseteq requests, responses' \subseteq responses,
           xmit /\ (a # RDSPROC \/ sseq <= comm[a].seq) =>
               \A m \in requests' \cup responses' : m.seq # comm[a].seq,
           UNCHANGED <<rdstate, rdseq, disk, sseq, sopen, reqq, pc>>
    PROVE  Sane' => ExchangeInv'
<1> SUFFICES ASSUME Sane' PROVE ExchangeInv' OBVIOUS
<1>1. Active(a) BY DEF Active
<1>2. CASE comm' = [comm EXCEPT ![a] = NoComm] /\ (Sane' => a # RDSPROC /\ comm[a].type # "close")
  BY <1>1, <1>2, GivenUp DEF Actors
<1>3. CASE /\ comm' = [comm EXCEPT ![a] = comm'[a]]
           /\ comm'[a].at = "send" /\ comm'[a].xmit = xmit
           /\ comm'[a].type = comm[a].type /\ comm'[a].seq = comm[a].seq
           /\ comm'[a].blk = comm[a].blk /\ comm'[a].data = comm[a].data
  BY <1>1, <1>3, GoesOn
<1> QED BY <1>2, <1>3, RetryIs

LEMMA TimeoutExchange ==
    ASSUME ~Late, RdsInv, ExchangeInv, NEW a \in Actors, CommTimeout(a)
    PROVE  Sane' => ExchangeInv'
<1>1. /\ comm[a].at = "recv" /\ Retry(a, TRUE) /\ InFlight(comm[a].seq) = {}
      /\ UNCHANGED <<rdstate, rdseq, disk, sseq, sopen, reqq, pc, requests, responses>>
  BY DEF CommTimeout, lists, net, server
<1>2. \A m \in requests' \cup responses' : m.seq # comm[a].seq BY <1>1 DEF InFlight
<1>3. PICK xmit \in BOOLEAN : xmit = TRUE OBVIOUS
<1> QED BY <1>1, <1>2, <1>3, RetryExchange

LEMMA RefusedExchange ==
    ASSUME RdsInv, ExchangeInv, NEW a \in Actors, NEW r \in responses, Refused(a, r)
    PROVE  Sane' => ExchangeInv'
<1>1. /\ comm[a].at = "recv" /\ Retry(a, ~(r.seq < comm[a].seq)) /\ responses' = responses \ {r}
      /\ UNCHANGED <<rdstate, rdseq, disk, sseq, sopen, reqq, pc, requests>>
  BY DEF Refused, lists, server
<1>2. PICK xmit \in BOOLEAN : xmit = ~(r.seq < comm[a].seq) OBVIOUS
<1>3. Active(a) BY <1>1 DEF Active
<1>4. r.seq \in Nat /\ comm[a].seq \in Nat /\ sseq \in Nat /\ rdseq \in Nat /\ rdseq = LastSeq + 1 /\ LastSeq \in Nat
  BY ListTypes
<1>5. r.seq <= sseq /\ sseq < rdseq
  BY DEF ExchangeInv, InFlightInv, ResponsesInFlight, ServerFollows
<1>6. ASSUME xmit, a # RDSPROC \/ sseq <= comm[a].seq
      PROVE  \A m \in requests' \cup responses' : m.seq # comm[a].seq
  <2>0. ~(r.seq < comm[a].seq) BY <1>2, <1>6, Zenon
  <2>1. CASE a # RDSPROC
    <3>1. a \in Procs BY <2>1 DEF Actors
    <3>2. comm[a].seq = LastSeq BY <3>1, <1>3 DEF ExchangeInv, CallersExchange
    <3>3. r.seq = comm[a].seq BY <3>2, <2>0, <1>4, <1>5
    <3>4. OneInFlight(comm[a].seq) BY <3>1, <1>3 DEF ExchangeInv, InFlightInv, EachAlone, Alone
    <3> QED BY <3>3, <3>4, <1>1 DEF OneInFlight
  <2>2. CASE a = RDSPROC /\ sseq <= comm[a].seq
    <3>1. r.seq = comm[a].seq BY <2>2, <2>0, <1>4, <1>5
    <3>2. OneInFlight(comm[a].seq) BY <2>2, <1>3 DEF ExchangeInv, InFlightInv, EachAlone, Alone
    <3> QED BY <3>1, <3>2, <1>1 DEF OneInFlight
  <2> QED BY <2>1, <2>2, <1>6
<1> QED BY <1>1, <1>2, <1>6, RetryExchange

(* The message of an exchange is sent. *)
LEMMA SendExchange ==
    ASSUME RdsInv, ExchangeInv, NEW a \in Actors, CommSend(a)
    PROVE  ExchangeInv'
<1>1. /\ comm' = [comm EXCEPT ![a] = comm'[a]] /\ comm'[a].at = "recv"
      /\ comm'[a].type = comm[a].type /\ comm'[a].seq = comm[a].seq
      /\ comm'[a].blk = comm[a].blk /\ comm'[a].data = comm[a].data
  BY CommSendStep
<1>2. PICK msg : msg = Message(comm[a]) OBVIOUS
<1>3. /\ comm[a].at = "send"
      /\ requests' = IF comm[a].xmit THEN requests \cup {msg} ELSE requests
      /\ UNCHANGED <<rdstate, rdseq, disk, sseq, sopen, reqq, pc, responses>>
  BY <1>2 DEF CommSend, lists, aux, server
<1>4. msg.type = comm[a].type /\ msg.seq = comm[a].seq /\ msg.blk = comm[a].blk /\ msg.data = comm[a].data
  BY <1>2 DEF Message
<1>5. Active(a) BY <1>3 DEF Active
<1>6. CASE ~comm[a].xmit
  <2>1. requests' = requests BY <1>3, <1>6
  <2>2. comm'[a].at # "none" /\ comm'[a].at # "send" BY <1>1
  <2> QED BY <2>1, <2>2, <1>1, <1>3, <1>5, GoesOn
<1>7. CASE comm[a].xmit
  <2>1. requests' = requests \cup {msg} BY <1>3, <1>7
  <2>2. /\ \A c \in Actors : /\ Active(c)' = Active(c) /\ comm'[c].type = comm[c].type /\ comm'[c].seq = comm[c].seq
                             /\ comm'[c].blk = comm[c].blk /\ comm'[c].data = comm[c].data
                             /\ c # a => comm'[c] = comm[c]
        /\ LastSeq' = LastSeq
    BY <1>1, <1>3, <1>5 DEF Active, RdsInv, RdsTypes, CommTypes, LastSeq
  <2>3. RDSPROC \in Actors /\ \A p \in Procs : p \in Actors /\ p # RDSPROC BY NoCommIs
  <2>4. CallerActive' = CallerActive /\ Settled' = Settled BY <1>3, <2>2, <2>3 DEF CallerActive, Settled
  <2>5. AtRest' BY <1>3, <2>4 DEF ExchangeInv, AtRest
  <2>6. CallersExchange' BY <1>3, <2>2, <2>3 DEF ExchangeInv, CallersExchange
  <2>7. DriversExchange' BY <1>3, <2>2, <2>3, <2>4 DEF ExchangeInv, DriversExchange
  <2>8. ServerFollows' BY <1>3, <2>4 DEF ExchangeInv, ServerFollows
  <2>9. OpensInFlight'
    <3>1. msg.type = "open" => a \in Procs /\ rdstate = "pend" /\ msg.seq = LastSeq
      BY <1>4, <1>5, <2>3 DEF ExchangeInv, DriversExchange, CallersExchange, Actors
    <3> QED BY <3>1, <1>3, <2>1, <2>2 DEF ExchangeInv, InFlightInv, OpensInFlight
  <2>10. ClosesInFlight'
    <3>1. msg.type = "close" => a \in Procs /\ msg.seq = LastSeq
      BY <1>4, <1>5, <2>3 DEF ExchangeInv, DriversExchange, CallersExchange, Actors
    <3> QED BY <3>1, <1>3, <1>4, <1>5, <2>1, <2>2, <2>3 DEF ExchangeInv, InFlightInv, ClosesInFlight
  <2>11. RequestsInFlight'
    <3>1. ToDriver(msg.type) => a = RDSPROC /\ msg.seq > 1
      BY <1>4, <1>5, <2>3 DEF ToDriver, ExchangeInv, DriversExchange, CallersExchange, Actors
    <3> QED BY <3>1, <1>3, <1>4, <1>5, <2>1, <2>2, <2>3
        DEF ExchangeInv, InFlightInv, RequestsInFlight, OfDriver
  <2>12. ResponsesInFlight' BY <1>3, <2>2, <2>3 DEF ExchangeInv, InFlightInv, ResponsesInFlight
  <2>13. Alone(a) => Alone(a)'
    BY <1>1, <1>3, <1>4, <1>7, <2>1 DEF Alone, OneInFlight, NoneInFlight
  <2>14. \A c \in Actors : c # a /\ msg.seq # comm[c].seq /\ Alone(c) => Alone(c)'
    BY <1>3, <2>1, <2>2 DEF Alone, OneInFlight, NoneInFlight
  <2>15. \A p \in Procs : /\ Active(p) => comm[p].seq = LastSeq
                          /\ Active(p) /\ Active(RDSPROC) => comm[RDSPROC].seq # comm[p].seq
    BY ListTypes DEF ExchangeInv, CallersExchange, DriversExchange, CallerActive
  <2>16. \A p, q \in Procs : Active(p) /\ Active(q) => p = q BY DEF ExchangeInv, CallersExchange
  <2>17. \A p \in Procs : Active(p)' => Alone(p)'
    <3> SUFFICES ASSUME NEW p \in Procs, Active(p) PROVE Alone(p)' BY <2>2, <2>3
    <3>1. Alone(p) BY DEF ExchangeInv, InFlightInv, EachAlone
    <3>2. CASE p = a BY <3>1, <3>2, <2>13
    <3>3. CASE p # a
      <4>1. a = RDSPROC BY <3>3, <1>5, <2>16 DEF Actors
      <4>2. msg.seq # comm[p].seq BY <4>1, <1>4, <1>5, <2>15
      <4> QED BY <3>1, <3>3, <4>2, <2>3, <2>14
    <3> QED BY <3>2, <3>3
  <2>18. Active(RDSPROC)' /\ sseq' <= comm'[RDSPROC].seq => Alone(RDSPROC)'
    <3> SUFFICES ASSUME Active(RDSPROC), sseq <= comm[RDSPROC].seq PROVE Alone(RDSPROC)'
      BY <1>3, <2>2, <2>3
    <3>1. Alone(RDSPROC) BY DEF ExchangeInv, InFlightInv, EachAlone
    <3>2. CASE a = RDSPROC BY <3>1, <3>2, <2>13
    <3>3. CASE a # RDSPROC
      <4>1. a \in Procs BY <3>3 DEF Actors
      <4>2. msg.seq # comm[RDSPROC].seq BY <4>1, <1>4, <1>5, <2>15
      <4> QED BY <3>1, <3>3, <4>2, <2>3, <2>14
    <3> QED BY <3>2, <3>3
  <2>19. EachAlone' BY <2>17, <2>18 DEF EachAlone
  <2> QED BY <2>5, <2>6, <2>7, <2>8, <2>9, <2>10, <2>11, <2>12, <2>19 DEF ExchangeInv, InFlightInv
<1> QED BY <1>6, <1>7

(* Every message belongs to an earlier exchange than the next one. *)
LEMMA Earlier ==
    ASSUME RdsInv, ExchangeInv
    PROVE  /\ \A m \in requests \cup responses : m.seq < rdseq
           /\ \A a \in Actors : Active(a) => comm[a].seq < rdseq
<1>1. \A m \in requests : m.seq < rdseq
  <2> SUFFICES ASSUME NEW m \in requests PROVE m.seq < rdseq OBVIOUS
  <2>1. m.seq \in Nat /\ m.type \in MessageTypes /\ rdseq \in Nat /\ rdseq = LastSeq + 1 /\ LastSeq \in Nat
        /\ sseq \in Nat /\ comm[RDSPROC].seq \in Nat
    BY ListTypes
  <2>2. m.type \in {"open", "close"} => m.seq = LastSeq
    BY DEF ExchangeInv, InFlightInv, OpensInFlight, ClosesInFlight
  <2>3. ToDriver(m.type) => m.seq < sseq \/ (Active(RDSPROC) /\ m.seq = comm[RDSPROC].seq)
    BY DEF ExchangeInv, InFlightInv, RequestsInFlight, OfDriver
  <2>4. sseq < rdseq /\ (Active(RDSPROC) => comm[RDSPROC].seq <= LastSeq)
    BY DEF ExchangeInv, ServerFollows, DriversExchange
  <2> QED BY <2>1, <2>2, <2>3, <2>4 DEF MessageTypes, ToDriver
<1>2. \A m \in responses : m.seq < rdseq
  <2>1. \A m \in responses : m.seq \in Nat /\ m.seq <= sseq
    BY ListTypes DEF ExchangeInv, InFlightInv, ResponsesInFlight
  <2>2. sseq < rdseq /\ sseq \in Nat /\ rdseq \in Nat BY ListTypes DEF ExchangeInv, ServerFollows
  <2> QED BY <2>1, <2>2
<1>3. \A a \in Actors : Active(a) => comm[a].seq < rdseq
  BY ListTypes DEF Actors, ExchangeInv, CallersExchange, DriversExchange
<1> QED BY <1>1, <1>2, <1>3

LEMMA OpenExchange ==
    ASSUME RdsInv, ExchangeInv, NEW p \in Procs, Open(p)
    PROVE  ExchangeInv'
<1>1. /\ rdstate = "free" /\ rdstate' = "pend" /\ rdseq' = rdseq + 1
      /\ Exchange(p, "open", Unused, None)
      /\ \A q \in Procs : comm[q] = NoComm /\ pc[q] = Idle
      /\ UNCHANGED <<reqq, pc, requests, responses, disk, sseq, sopen>>
  BY DEF Open, Calls, Exchange, lists, net, server
<1>2. /\ p \in Actors /\ p # RDSPROC /\ Unused \in Numbers /\ None \in Contained
      /\ "open" \in MessageTypes /\ "open" \in {"open", "close"}
  BY NoCommIs, BlockNumbers DEF MessageTypes
<1>3. /\ comm' = [comm EXCEPT ![p] = comm'[p]] /\ comm'[p].at = "send"
      /\ comm'[p].type = "open" /\ comm'[p].seq = rdseq
  BY <1>1, <1>2, ExchangeIs
<1>4. /\ rdseq \in Nat /\ LastSeq \in Nat /\ rdseq = LastSeq + 1 /\ sseq \in Nat /\ comm[RDSPROC].seq \in Nat
      /\ LastSeq' = rdseq /\ rdseq # 0
  BY <1>1, ListTypes DEF LastSeq
<1>5. /\ \A c \in Actors : c # p => comm'[c] = comm[c] /\ Active(c)' = Active(c)
      /\ Active(p)'
  BY <1>2, <1>3 DEF Active, RdsInv, RdsTypes, CommTypes
<1>6. RDSPROC \in Actors /\ \A q \in Procs : q \in Actors /\ q # RDSPROC BY NoCommIs
<1>7. \A q \in Procs : ~Active(q) /\ (q # p => ~Active(q)') BY <1>1, <1>5, <1>6, NoCommIs DEF Active
<1>8. ~Settled /\ ~Settled' /\ CallerActive' BY <1>1, <1>5 DEF Settled, CallerActive
<1>9. AtRest' BY <1>1, <1>8 DEF ExchangeInv, AtRest
<1>10. CallersExchange' BY <1>1, <1>3, <1>4, <1>7 DEF CallersExchange
<1>11. DriversExchange'
  <2>1. comm'[RDSPROC] = comm[RDSPROC] /\ Active(RDSPROC)' = Active(RDSPROC) BY <1>2, <1>5, <1>6
  <2>2. Active(RDSPROC) => comm[RDSPROC].seq <= LastSeq' /\ comm[RDSPROC].seq < LastSeq'
    BY <1>4 DEF ExchangeInv, DriversExchange
  <2> QED BY <2>1, <2>2, <1>1 DEF ExchangeInv, DriversExchange
<1>12. ServerFollows' BY <1>1, <1>4, <1>8 DEF ExchangeInv, ServerFollows
<1>13. \A m \in requests \cup responses : m.type \notin {"open", "close"}
  BY <1>1, <1>7 DEF ExchangeInv, InFlightInv, OpensInFlight, ClosesInFlight
<1>14. OpensInFlight' /\ ClosesInFlight' BY <1>1, <1>13 DEF OpensInFlight, ClosesInFlight
<1>15. RequestsInFlight' /\ ResponsesInFlight'
  BY <1>1, <1>2, <1>5, <1>6 DEF ExchangeInv, InFlightInv, RequestsInFlight, ResponsesInFlight, OfDriver
<1>16. EachAlone'
  <2>1. \A m \in requests \cup responses : m.seq # rdseq
    <3>1. \A m \in requests \cup responses : m.seq \in Nat BY ListTypes
    <3> QED BY <3>1, <1>4, Earlier
  <2>2. Alone(p)' BY <2>1, <1>1, <1>3 DEF Alone, OneInFlight, NoneInFlight
  <2>3. Active(RDSPROC)' /\ sseq' <= comm'[RDSPROC].seq => Alone(RDSPROC)'
    BY <1>1, <1>2, <1>5, <1>6 DEF ExchangeInv, InFlightInv, EachAlone, Alone, OneInFlight, NoneInFlight
  <2> QED BY <2>2, <2>3, <1>7 DEF EachAlone
<1> QED BY <1>9, <1>10, <1>11, <1>12, <1>14, <1>15, <1>16 DEF ExchangeInv, InFlightInv

LEMMA CloseExchange ==
    ASSUME RdsInv, ExchangeInv, NEW p \in Procs, Close(p)
    PROVE  ExchangeInv'
<1>1. /\ rdstate = "open" /\ rdseq' = rdseq + 1 /\ reqq = <<>>
      /\ Exchange(p, "close", Unused, None)
      /\ \A q \in Procs : comm[q] = NoComm /\ pc[q] = Idle
      /\ UNCHANGED <<rdstate, reqq, pc, requests, responses, disk, sseq, sopen>>
  BY DEF Close, Calls, Exchange, net, server
<1>2. /\ p \in Actors /\ p # RDSPROC /\ Unused \in Numbers /\ None \in Contained
      /\ "close" \in MessageTypes /\ "close" \in {"open", "close"}
  BY NoCommIs, BlockNumbers DEF MessageTypes
<1>3. /\ comm' = [comm EXCEPT ![p] = comm'[p]] /\ comm'[p].at = "send"
      /\ comm'[p].type = "close" /\ comm'[p].seq = rdseq
  BY <1>1, <1>2, ExchangeIs
<1>4. /\ rdseq \in Nat /\ LastSeq \in Nat /\ rdseq = LastSeq + 1 /\ sseq \in Nat /\ comm[RDSPROC].seq \in Nat
      /\ LastSeq' = rdseq /\ rdseq # 0
  BY <1>1, ListTypes DEF LastSeq
<1>5. /\ \A c \in Actors : c # p => comm'[c] = comm[c] /\ Active(c)' = Active(c)
      /\ Active(p)'
  BY <1>2, <1>3 DEF Active, RdsInv, RdsTypes, CommTypes
<1>6. RDSPROC \in Actors /\ \A q \in Procs : q \in Actors /\ q # RDSPROC BY NoCommIs
<1>7. \A q \in Procs : ~Active(q) /\ (q # p => ~Active(q)') BY <1>1, <1>5, <1>6, NoCommIs DEF Active
<1>8. ~Settled' /\ CallerActive' BY <1>1, <1>5 DEF Settled, CallerActive
<1>9. AtRest' BY <1>1, <1>8 DEF ExchangeInv, AtRest
<1>10. CallersExchange' BY <1>1, <1>3, <1>4, <1>7 DEF CallersExchange
<1>11. DriversExchange'
  <2>1. comm'[RDSPROC] = comm[RDSPROC] /\ Active(RDSPROC)' = Active(RDSPROC) BY <1>2, <1>5, <1>6
  <2>2. Active(RDSPROC) => comm[RDSPROC].seq <= LastSeq' /\ comm[RDSPROC].seq < LastSeq'
    BY <1>4 DEF ExchangeInv, DriversExchange
  <2> QED BY <2>1, <2>2, <1>1 DEF ExchangeInv, DriversExchange
<1>12. ServerFollows' BY <1>1, <1>4, <1>8 DEF ExchangeInv, ServerFollows
<1>13. \A m \in requests \cup responses : m.type \notin {"open", "close"}
  BY <1>1, <1>7 DEF ExchangeInv, InFlightInv, OpensInFlight, ClosesInFlight
<1>14. OpensInFlight' /\ ClosesInFlight' BY <1>1, <1>13 DEF OpensInFlight, ClosesInFlight
<1>15. RequestsInFlight' /\ ResponsesInFlight'
  BY <1>1, <1>2, <1>5, <1>6 DEF ExchangeInv, InFlightInv, RequestsInFlight, ResponsesInFlight, OfDriver
<1>16. EachAlone'
  <2>1. \A m \in requests \cup responses : m.seq # rdseq
    <3>1. \A m \in requests \cup responses : m.seq \in Nat BY ListTypes
    <3> QED BY <3>1, <1>4, Earlier
  <2>2. Alone(p)' BY <2>1, <1>1, <1>3 DEF Alone, OneInFlight, NoneInFlight
  <2>3. Active(RDSPROC)' /\ sseq' <= comm'[RDSPROC].seq => Alone(RDSPROC)'
    BY <1>1, <1>2, <1>5, <1>6 DEF ExchangeInv, InFlightInv, EachAlone, Alone, OneInFlight, NoneInFlight
  <2> QED BY <2>2, <2>3, <1>7 DEF EachAlone
<1> QED BY <1>9, <1>10, <1>11, <1>12, <1>14, <1>15, <1>16 DEF ExchangeInv, InFlightInv

LEMMA SettledWhen ==
    ASSUME ExchangeInv
    PROVE  /\ reqq # <<>> => Settled
           /\ \A p \in Procs : pc[p] # Idle => Settled
           /\ Settled => \A p \in Procs : ~Active(p)
BY DEF ExchangeInv, AtRest, Settled, CallerActive

(* The driver's process begins to read or to write. *)
LEMMA DriverStarts ==
    ASSUME RdsInv, ExchangeInv, NEW type, ToDriver(type), reqq # <<>>,
           comm[RDSPROC] = NoComm, comm' = [comm EXCEPT ![RDSPROC] = comm'[RDSPROC]],
           comm'[RDSPROC].at = "send", comm'[RDSPROC].type = type, comm'[RDSPROC].seq = rdseq,
           rdseq' = rdseq + 1, UNCHANGED <<rdstate, requests, responses, disk, sseq, sopen>>
    PROVE  ExchangeInv'
<1>1. Settled /\ \A p \in Procs : ~Active(p) BY SettledWhen
<1>2. rdstate = "open" /\ rdseq > 1 /\ sopen BY <1>1 DEF Settled, ExchangeInv, ServerFollows
<1>3. RDSPROC \in Actors /\ \A q \in Procs : q \in Actors /\ q # RDSPROC BY NoCommIs
<1>4. /\ \A p \in Procs : comm'[p] = comm[p] /\ ~Active(p)'
      /\ Active(RDSPROC)' /\ ~Active(RDSPROC)
  BY <1>1, <1>3, NoCommIs DEF Active, RdsInv, RdsTypes, CommTypes
<1>5. /\ rdseq \in Nat /\ LastSeq \in Nat /\ rdseq = LastSeq + 1 /\ sseq \in Nat /\ LastSeq' = rdseq
  BY ListTypes DEF LastSeq
<1>6. ~CallerActive' /\ Settled' BY <1>2, <1>4 DEF CallerActive, Settled
<1>7. AtRest' BY <1>6 DEF AtRest
<1>8. CallersExchange' BY <1>4 DEF CallersExchange
<1>9. DriversExchange'
  <2>1. type \in {"read", "write"} BY DEF ToDriver
  <2>2. rdseq <= LastSeq' BY <1>5
  <2> QED BY <2>1, <2>2, <1>2, <1>6 DEF DriversExchange
<1>10. ServerFollows' BY <1>2, <1>5 DEF ExchangeInv, ServerFollows
<1>11. \A m \in requests \cup responses : m.type \notin {"open", "close"}
  BY <1>2, <1>1 DEF ExchangeInv, InFlightInv, OpensInFlight, ClosesInFlight
<1>12. OpensInFlight' /\ ClosesInFlight' BY <1>11 DEF OpensInFlight, ClosesInFlight
<1>13. RequestsInFlight' /\ ResponsesInFlight'
  <2>1. \A m \in requests : ToDriver(m.type) => m.seq > 1 /\ m.seq < sseq
    BY <1>4 DEF ExchangeInv, InFlightInv, RequestsInFlight, OfDriver
  <2>2. \A m \in responses : ~ToDriver(m.type)
    BY <1>4 DEF ExchangeInv, InFlightInv, ResponsesInFlight
  <2> QED BY <2>1, <2>2 DEF ExchangeInv, InFlightInv, RequestsInFlight, ResponsesInFlight
<1>14. EachAlone'
  <2>1. \A m \in requests \cup responses : m.seq # rdseq
    <3>1. \A m \in requests \cup responses : m.seq \in Nat BY ListTypes
    <3> QED BY <3>1, <1>5, Earlier
  <2>2. Alone(RDSPROC)' BY <2>1 DEF Alone, OneInFlight, NoneInFlight
  <2> QED BY <2>2, <1>4 DEF EachAlone
<1> QED BY <1>7, <1>8, <1>9, <1>10, <1>12, <1>13, <1>14 DEF ExchangeInv, InFlightInv

(* The driver's process has its answer. *)
LEMMA DriverEnds ==
    ASSUME RdsInv, ExchangeInv, NEW r \in responses, comm[RDSPROC].at = "recv",
           Accepted(comm[RDSPROC], r), comm' = [comm EXCEPT ![RDSPROC] = NoComm],
           responses' = responses \ {r}, AtRest',
           UNCHANGED <<rdstate, rdseq, requests, disk, sseq, sopen>>
    PROVE  ExchangeInv'
<1>1. Active(RDSPROC) /\ r.type = comm[RDSPROC].type BY DEF Active, Accepted
<1>2. ToDriver(r.type) BY <1>1 DEF ExchangeInv, DriversExchange, ToDriver
<1>3. r.seq = comm[RDSPROC].seq /\ r.seq <= sseq BY <1>2 DEF ExchangeInv, InFlightInv, ResponsesInFlight
<1>4. RDSPROC \in Actors /\ \A q \in Procs : q \in Actors /\ q # RDSPROC BY NoCommIs
<1>5. /\ \A p \in Procs : comm'[p] = comm[p] /\ Active(p)' = Active(p)
      /\ ~Active(RDSPROC)'
  BY <1>4, NoCommIs DEF Active, RdsInv, RdsTypes, CommTypes
<1>6. CallerActive' = CallerActive /\ Settled' = Settled /\ LastSeq' = LastSeq
  BY <1>5 DEF CallerActive, Settled, LastSeq
<1>7. CallersExchange' BY <1>5, <1>6 DEF ExchangeInv, CallersExchange
<1>8. DriversExchange' BY <1>5 DEF DriversExchange
<1>9. ServerFollows' BY <1>6 DEF ExchangeInv, ServerFollows
<1>10. OpensInFlight' /\ ClosesInFlight'
  BY <1>5, <1>6 DEF ExchangeInv, InFlightInv, OpensInFlight, ClosesInFlight
<1>11. RequestsInFlight'
  <2> SUFFICES ASSUME NEW m \in requests, ToDriver(m.type) PROVE m.seq > 1 /\ m.seq < sseq
    BY DEF RequestsInFlight
  <2>1. m.seq > 1 /\ (m.seq < sseq \/ m.seq = comm[RDSPROC].seq)
    BY DEF ExchangeInv, InFlightInv, RequestsInFlight, OfDriver
  <2>2. m.seq \in Nat /\ sseq \in Nat /\ r.seq \in Nat BY ListTypes
  <2>3. CASE sseq <= comm[RDSPROC].seq
    <3>1. OneInFlight(comm[RDSPROC].seq) BY <1>1, <2>3 DEF ExchangeInv, InFlightInv, EachAlone, Alone
    <3>2. m.seq # comm[RDSPROC].seq BY <3>1, <1>3 DEF OneInFlight
    <3> QED BY <3>2, <2>1
  <2>4. CASE ~(sseq <= comm[RDSPROC].seq) BY <2>1, <2>2, <2>4, <1>3
  <2> QED BY <2>3, <2>4
<1>12. ResponsesInFlight' BY <1>2 DEF ExchangeInv, InFlightInv, ResponsesInFlight
<1>13. EachAlone'
  BY <1>5 DEF ExchangeInv, InFlightInv, EachAlone, Alone, OneInFlight, NoneInFlight
<1> QED BY <1>7, <1>8, <1>9, <1>10, <1>11, <1>12, <1>13 DEF ExchangeInv, InFlightInv

(* rdsOpen() or rdsClose() has its answer. *)
LEMMA CallerEnds ==
    ASSUME RdsInv, ExchangeInv, NEW p \in Procs, NEW r \in responses, DoneByCaller(p, r)
    PROVE  ExchangeInv'
<1>1. /\ comm[p].at = "recv" /\ r.type = comm[p].type /\ responses' = responses \ {r}
      /\ comm' = [comm EXCEPT ![p] = NoComm]
      /\ rdstate' = IF comm[p].type = "open" THEN "open" ELSE "free"
      /\ UNCHANGED <<rdseq, reqq, pc, requests, disk, sseq, sopen>>
  BY DEF DoneByCaller, Accepted, lists, aux, server
<1>2. Active(p) BY <1>1 DEF Active
<1>3. RDSPROC \in Actors /\ p # RDSPROC /\ \A q \in Procs : q \in Actors /\ q # RDSPROC BY NoCommIs
<1>4. /\ comm[p].seq = LastSeq
      /\ \/ comm[p].type = "open" /\ rdstate = "pend"
         \/ comm[p].type = "close" /\ rdstate = "open"
      /\ \A q \in Procs : Active(q) => q = p
  BY <1>2 DEF ExchangeInv, CallersExchange
<1>5. /\ \A c \in Actors : c # p => comm'[c] = comm[c] /\ Active(c)' = Active(c)
      /\ ~Active(p)'
  BY <1>1, NoCommIs DEF Active, RdsInv, RdsTypes, CommTypes
<1>6. ~CallerActive' /\ LastSeq' = LastSeq BY <1>1, <1>3, <1>4, <1>5 DEF CallerActive, LastSeq
<1>7. CallerActive /\ ~Settled BY <1>2 DEF CallerActive, Settled
<1>8. AtRest' BY <1>1, <1>7 DEF ExchangeInv, AtRest
<1>9. CallersExchange' BY <1>6 DEF CallersExchange, CallerActive
<1>10. DriversExchange'
  <2>1. comm'[RDSPROC] = comm[RDSPROC] /\ Active(RDSPROC)' = Active(RDSPROC) BY <1>3, <1>5
  <2>2. rdstate' # "pend" BY <1>1
  <2> QED BY <2>1, <2>2, <1>1, <1>6 DEF ExchangeInv, DriversExchange
<1>11. r.seq = LastSeq /\ (r.type = "open" => sopen)
  BY <1>1, <1>4 DEF ExchangeInv, InFlightInv, OpensInFlight, ClosesInFlight
<1>12. ServerFollows' BY <1>1, <1>4, <1>11 DEF ExchangeInv, ServerFollows, Settled
<1>13. \A m \in requests' \cup responses' : m.seq # LastSeq
  <2>1. OneInFlight(LastSeq) BY <1>2, <1>4 DEF ExchangeInv, InFlightInv, EachAlone, Alone
  <2> QED BY <2>1, <1>1, <1>11 DEF OneInFlight
<1>14. \A m \in requests' \cup responses' : m.type \notin {"open", "close"}
  BY <1>1, <1>13 DEF ExchangeInv, InFlightInv, OpensInFlight, ClosesInFlight
<1>15. OpensInFlight' /\ ClosesInFlight' BY <1>14 DEF OpensInFlight, ClosesInFlight
<1>16. RequestsInFlight' /\ ResponsesInFlight'
  BY <1>1, <1>3, <1>5 DEF ExchangeInv, InFlightInv, RequestsInFlight, ResponsesInFlight, OfDriver
<1>17. EachAlone'
  <2>1. \A q \in Procs : ~Active(q)' BY <1>6 DEF CallerActive
  <2>2. Active(RDSPROC)' /\ sseq' <= comm'[RDSPROC].seq => Alone(RDSPROC)'
    BY <1>1, <1>3, <1>5 DEF ExchangeInv, InFlightInv, EachAlone, Alone, OneInFlight, NoneInFlight
  <2> QED BY <2>1, <2>2 DEF EachAlone
<1> QED BY <1>8, <1>9, <1>10, <1>12, <1>15, <1>16, <1>17 DEF ExchangeInv, InFlightInv

(* The server answers: what it is sent, if it does not ignore it. *)
LEMMA AnsweredIs ==
    ASSUME RdsInv, ExchangeInv, NEW m \in requests, ~Ignored(m), ToDriver(m.type)
    PROVE  /\ OfDriver(m) /\ sseq <= m.seq /\ m.seq > 1 /\ sopen
           /\ Alone(RDSPROC)
           /\ \A n \in responses : ~ToDriver(n.type)
<1>1. m.seq > 1 /\ (m.seq < sseq \/ OfDriver(m)) BY DEF ExchangeInv, InFlightInv, RequestsInFlight
<1>2. m.seq \in Nat /\ sseq \in Nat BY ListTypes
<1>3. ~(m.seq < sseq) BY <1>1 DEF Ignored
<1>4. OfDriver(m) /\ sseq <= m.seq BY <1>1, <1>2, <1>3
<1>5. Active(RDSPROC) /\ m.seq = comm[RDSPROC].seq BY <1>4 DEF OfDriver
<1>6. sopen BY <1>4, <1>5 DEF ExchangeInv, DriversExchange
<1>7. Alone(RDSPROC) BY <1>4, <1>5 DEF ExchangeInv, InFlightInv, EachAlone
<1>8. \A n \in responses : ToDriver(n.type) => n.seq = m.seq
  BY <1>5 DEF ExchangeInv, InFlightInv, ResponsesInFlight
<1>9. \A n \in responses : ~(m.seq = comm[RDSPROC].seq /\ n.seq = comm[RDSPROC].seq)
  BY <1>7 DEF Alone, OneInFlight
<1>10. \A n \in responses : ~ToDriver(n.type) BY <1>5, <1>8, <1>9
<1> QED BY <1>1, <1>4, <1>6, <1>7, <1>10

(* A request becomes its answer. *)
LEMMA AnswerAlone ==
    ASSUME NEW m \in requests, NEW r, r.seq = m.seq, requests' = requests \ {m},
           responses' = responses \cup {r}, UNCHANGED comm, NEW a, Alone(a)
    PROVE  Alone(a)'
BY DEF Alone, OneInFlight, NoneInFlight

LEMMA HandleExchange ==
    ASSUME RdsInv, ExchangeInv, NEW m \in requests, Handle(m)
    PROVE  ExchangeInv'
<1>1. /\ requests' = requests \ {m} /\ UNCHANGED <<rdstate, rdseq, reqq, pc, comm>>
  BY DEF Handle, lists
<1>2. CASE UNCHANGED <<responses, server>> BY <1>1, <1>2, FewerMessages DEF server
<1>3. CASE ~Ignored(m) /\ Serve(m) /\ responses' = responses \cup {Response(m)}
  <2>1. PICK r : r = Response(m) OBVIOUS
  <2>2. r.type = m.type /\ r.seq = m.seq BY <2>1 DEF Response, Rdread, Status
  <2>3. responses' = responses \cup {r} /\ sseq' = m.seq BY <1>3, <2>1 DEF Serve
  <2>4. /\ m.seq \in Nat /\ m.type \in MessageTypes /\ rdseq \in Nat /\ sseq \in Nat /\ LastSeq \in Nat
        /\ rdseq = LastSeq + 1 /\ comm[RDSPROC].seq \in Nat /\ LastSeq' = LastSeq
        /\ \A n \in requests \cup responses : n.seq \in Nat
    BY <1>1, ListTypes DEF LastSeq
  <2>5. m.seq < rdseq /\ sseq < rdseq BY Earlier DEF ExchangeInv, ServerFollows
  <2>6. m.type \in {"open", "close"} => m.seq = LastSeq
    BY DEF ExchangeInv, InFlightInv, OpensInFlight, ClosesInFlight
  <2>7. ToDriver(m.type) => OfDriver(m) /\ sseq <= m.seq /\ sopen BY <1>3, AnsweredIs
  <2>8. sseq <= sseq'
    BY <2>3, <2>4, <2>5, <2>6, <2>7 DEF MessageTypes, ToDriver
  <2>9. \A a : Active(a)' = Active(a) BY <1>1 DEF Active
  <2>10. CallerActive' = CallerActive /\ Settled' = Settled BY <1>1, <2>9 DEF CallerActive, Settled
  <2>11. AtRest' BY <1>1, <2>10 DEF ExchangeInv, AtRest
  <2>12. CallersExchange' BY <1>1, <2>4, <2>9 DEF ExchangeInv, CallersExchange
  <2>13. m.type = "open" => rdstate = "pend" BY DEF ExchangeInv, InFlightInv, OpensInFlight
  <2>14. m.type = "close" => CallerActive /\ rdstate = "open"
    BY DEF ExchangeInv, InFlightInv, ClosesInFlight, CallersExchange, CallerActive
  <2>15. \A n \in responses' : n.seq <= sseq'
    BY <2>2, <2>3, <2>4, <2>8 DEF ExchangeInv, InFlightInv, ResponsesInFlight
  <2>16. \A n \in requests : ToDriver(n.type) => n.seq > 1 /\ (n.seq < sseq' \/ OfDriver(n))
    BY <2>4, <2>8, <2>3 DEF ExchangeInv, InFlightInv, RequestsInFlight
  <2>17. RequestsInFlight' BY <1>1, <2>9, <2>16 DEF RequestsInFlight, OfDriver
  <2>18. \A p \in Procs : Active(p)' => Alone(p)'
    BY <1>1, <2>2, <2>3, <2>9, AnswerAlone DEF ExchangeInv, InFlightInv, EachAlone
  <2>19. Active(RDSPROC) /\ sseq' <= comm[RDSPROC].seq => Alone(RDSPROC)'
    <3>1. Active(RDSPROC) /\ sseq' <= comm[RDSPROC].seq => Alone(RDSPROC)
      BY <2>3, <2>4, <2>8 DEF ExchangeInv, InFlightInv, EachAlone
    <3> QED BY <3>1, <1>1, <2>2, <2>3, AnswerAlone
  <2>20. EachAlone' BY <1>1, <2>9, <2>18, <2>19 DEF EachAlone
  <2>21. ClosesInFlight'
    BY <1>1, <2>2, <2>3, <2>4, <2>9 DEF ExchangeInv, InFlightInv, ClosesInFlight
  <2>22. ServerFollows'
    <3>1. Settled => sopen'
      <4>1. Settled => sopen BY DEF ExchangeInv, ServerFollows
      <4>2. m.type = "close" \/ sopen' = sopen \/ sopen' = TRUE
        BY <1>3 DEF Serve, Rdopen, Rdclose, Rdwrite
      <4> QED BY <4>1, <4>2, <2>14 DEF Settled
    <3> QED BY <3>1, <1>1, <2>3, <2>5, <2>10 DEF ExchangeInv, ServerFollows
  <2>23. OpensInFlight'
    <3>1. \A n \in requests' \cup responses' : n.type = "open" => rdstate = "pend" /\ n.seq = LastSeq
      BY <1>1, <2>2, <2>3 DEF ExchangeInv, InFlightInv, OpensInFlight
    <3>2. m.type = "open" => sopen' BY <1>3 DEF Serve, Rdopen
    <3>3. m.type # "open" => sopen' = sopen \/ rdstate = "open"
      BY <1>3, <2>14 DEF Serve, Rdopen, Rdwrite
    <3>4. \A n \in responses' : n.type = "open" => sopen'
      BY <3>1, <3>2, <3>3, <1>1, <2>2, <2>3 DEF ExchangeInv, InFlightInv, OpensInFlight
    <3> QED BY <3>1, <3>4, <1>1, <2>4 DEF OpensInFlight
  <2>24. DriversExchange'
    <3>1. Active(RDSPROC) /\ sseq' <= comm[RDSPROC].seq => sopen'
      <4> SUFFICES ASSUME Active(RDSPROC), sseq' <= comm[RDSPROC].seq PROVE sopen' OBVIOUS
      <4>1. sopen BY <2>3, <2>4, <2>8 DEF ExchangeInv, DriversExchange
      <4>2. m.type # "close"
        <5>1. m.type = "close" => comm[RDSPROC].seq < LastSeq /\ m.seq = LastSeq
          BY <2>6, <2>14 DEF ExchangeInv, DriversExchange
        <5> QED BY <5>1, <2>3, <2>4
      <4> QED BY <4>1, <4>2, <1>3 DEF Serve, Rdopen, Rdclose, Rdwrite
    <3> QED BY <3>1, <1>1, <2>4, <2>9, <2>10 DEF ExchangeInv, DriversExchange
  <2>25. ResponsesInFlight'
    <3>1. CASE ToDriver(m.type)
      <4>1. /\ Active(RDSPROC) /\ m.seq = comm[RDSPROC].seq /\ m.type = comm[RDSPROC].type
            /\ m.blk = comm[RDSPROC].blk /\ m.data = comm[RDSPROC].data
            /\ \A n \in responses : ~ToDriver(n.type)
        BY <3>1, <1>3, AnsweredIs DEF OfDriver
      <4>2. m.type = "write" => disk'[m.blk] = m.data
        <5>1. m.type = "write" => m.blk \in Blocks /\ disk \in [Blocks -> Contained]
          BY DEF RdsInv, RdsTypes, NetTypes, Requests, ServerTypes
        <5> QED BY <5>1, <1>3, <2>7, <3>1 DEF Serve, Rdwrite
      <4> QED BY <4>1, <4>2, <1>1, <2>2, <2>3, <2>9, <2>15 DEF ResponsesInFlight
    <3>2. CASE ~ToDriver(m.type)
      <4>1. disk' = disk BY <1>3, <3>2 DEF Serve, Rdopen, Rdclose, ToDriver
      <4> QED BY <4>1, <3>2, <1>1, <2>2, <2>3, <2>9, <2>15 DEF ExchangeInv, InFlightInv, ResponsesInFlight
    <3> QED BY <3>1, <3>2
  <2> QED BY <2>11, <2>12, <2>24, <2>22, <2>23, <2>21, <2>17, <2>25, <2>20 DEF ExchangeInv, InFlightInv
<1> QED BY <1>2, <1>3 DEF Handle

LEMMA ExchangeInitially == RdsInit => ExchangeInv
<1> SUFFICES ASSUME RdsInit PROVE ExchangeInv OBVIOUS
<1>1. /\ rdstate = "free" /\ rdseq = 1 /\ reqq = <<>> /\ requests = {} /\ responses = {} /\ sseq = 0
      /\ \A p \in Procs : pc[p] = Idle
      /\ \A a \in Actors : ~Active(a)
  BY NoCommIs DEF RdsInit, ServerInit, Active
<1>2. ~Active(RDSPROC) /\ \A p \in Procs : ~Active(p) BY <1>1, NoCommIs
<1>3. AtRest /\ CallersExchange /\ DriversExchange /\ ServerFollows
  BY <1>1, <1>2 DEF AtRest, CallersExchange, DriversExchange, ServerFollows, Settled
<1>4. InFlightInv
  BY <1>1, <1>2 DEF InFlightInv, OpensInFlight, ClosesInFlight, RequestsInFlight, ResponsesInFlight, EachAlone
<1> QED BY <1>3, <1>4 DEF ExchangeInv

LEMMA ExchangeInductive ==
    ASSUME ~Late, RdsInv, Sane => ExchangeInv, [RdsNext]_vars
    PROVE  Sane' => ExchangeInv'
<1> SUFFICES ASSUME Sane' PROVE ExchangeInv' OBVIOUS
<1>1. CASE UNCHANGED vars
  <2>1. Sane BY <1>1 DEF vars, aux, Sane
  <2> QED BY <1>1, <2>1, FewerMessages DEF vars, lists, net, server
<1>2. ASSUME NEW p \in Procs, NEW blk \in Uses[p],
             \/ Read(p, blk)
             \/ \E data \in Data : Rewrite(p, blk, data) \/ WriteCached(p, blk, data) \/ WriteNew(p, blk, data)
      PROVE  ExchangeInv'
  <2>1. /\ Sane /\ rdstate = "open" /\ \A q \in Procs : comm[q] = NoComm
        /\ UNCHANGED <<rdstate, rdseq, comm, requests, responses, disk, sseq, sopen>>
    BY <1>2 DEF Read, Rewrite, WriteCached, WriteNew, Calls, net, server
  <2>2. Settled BY <2>1, NoCommIs DEF Settled, CallerActive, Active
  <2> QED BY <2>1, <2>2, QuietStep
<1>3. ASSUME NEW p \in Procs, Sync(p) PROVE ExchangeInv'
  <2>1. /\ Sane /\ rdstate = "open" /\ \A q \in Procs : comm[q] = NoComm
        /\ UNCHANGED <<rdstate, rdseq, comm, requests, responses, disk, sseq, sopen>>
    BY <1>3 DEF Sync, Calls, net, server
  <2>2. Settled BY <2>1, NoCommIs DEF Settled, CallerActive, Active
  <2> QED BY <2>1, <2>2, QuietStep
<1>4. ASSUME NEW p \in Procs, Got(p) \/ Received(p) PROVE ExchangeInv'
  <2>1. Sane /\ pc[p].at \in {"woken", "receive"} BY <1>4 DEF Got, Received
  <2>2. UNCHANGED <<rdstate, rdseq, comm, requests, responses, disk, sseq, sopen>>
    BY <1>4 DEF Got, Received, net, server
  <2>3. Idle.at = "user" BY DEF Idle
  <2>4. pc[p] # Idle BY <2>1, <2>3
  <2> QED BY <2>1, <2>2, <2>4, SettledWhen, QuietStep
<1>5. ASSUME NEW p \in Procs, Open(p) \/ Close(p) PROVE ExchangeInv'
  <2>1. Sane BY <1>5 DEF Open, Close, Calls
  <2> QED BY <1>5, <2>1, OpenExchange, CloseExchange
<1>6. ASSUME TakesRequest, StartRead \/ StartWrite PROVE ExchangeInv'
  <2>1. PICK type, b : b = Head(reqq) /\ type = buf[b].op OBVIOUS
  <2>2. type \in {"read", "write"} /\ ToDriver(type) BY <1>6, <2>1 DEF StartRead, StartWrite, ToDriver
  <2>3. PICK data : Exchange(RDSPROC, type, buf[b].blk, data) /\ data \in Contained
    BY <1>6, <2>1, TakesRequestIs, BlockNumbers DEF StartRead, StartWrite
  <2>4. /\ Sane /\ reqq # <<>> /\ buf[b].blk \in Blocks /\ buf[b].blk \in Numbers
    BY <1>6, <2>1, <2>2, TakesRequestIs
  <2>5. comm[RDSPROC] = NoComm BY <1>6 DEF TakesRequest
  <2>6. UNCHANGED <<rdstate, requests, responses, disk, sseq, sopen>>
    BY <1>6 DEF StartRead, StartWrite, net, server
  <2>7. /\ RDSPROC \in Actors /\ type \in MessageTypes BY <2>2, NoCommIs DEF MessageTypes
  <2>8. /\ comm' = [comm EXCEPT ![RDSPROC] = comm'[RDSPROC]] /\ rdseq' = rdseq + 1
        /\ comm'[RDSPROC].at = "send" /\ comm'[RDSPROC].type = type /\ comm'[RDSPROC].seq = rdseq
    BY <2>2, <2>3, <2>4, <2>7, ExchangeIs
  <2> QED BY <2>2, <2>4, <2>5, <2>6, <2>8, DriverStarts
<1>7. ASSUME DoSync PROVE ExchangeInv'
  <2>1. /\ Sane /\ reqq # <<>>
        /\ UNCHANGED <<rdstate, rdseq, comm, requests, responses, disk, sseq, sopen>>
    BY <1>7, TakesRequestIs DEF DoSync, net, server
  <2> QED BY <2>1, SettledWhen, QuietStep
<1>8. ASSUME NEW a \in Actors, CommSend(a) PROVE ExchangeInv'
  <2>1. Sane BY <1>8 DEF CommSend
  <2> QED BY <1>8, <2>1, SendExchange
<1>9. ASSUME NEW a \in Actors, CommTimeout(a) PROVE ExchangeInv'
  <2>1. Sane BY <1>9 DEF CommTimeout
  <2> QED BY <1>9, <2>1, TimeoutExchange
<1>10. ASSUME NEW r \in responses, EndWrite(r) \/ EndRead(r) PROVE ExchangeInv'
  <2>1. /\ Sane /\ comm[RDSPROC].at = "recv" /\ Accepted(comm[RDSPROC], r)
        /\ comm' = [comm EXCEPT ![RDSPROC] = NoComm] /\ responses' = responses \ {r}
        /\ UNCHANGED <<rdstate, rdseq, requests, disk, sseq, sopen>>
    BY <1>10 DEF EndWrite, EndRead, server
  <2>2. AtRest'
    <3>1. CASE EndWrite(r)
      <4>1. Settled' = Settled
        BY <2>1, NoCommIs DEF Settled, CallerActive, Active, RdsInv, RdsTypes, CommTypes
      <4> QED BY <3>1, <4>1, <2>1 DEF EndWrite, lists, ExchangeInv, AtRest
    <3>2. CASE EndRead(r)
      <4>1. reqq # <<>> BY <3>2, Heads DEF EndRead, Reading
      <4>2. Settled BY <4>1, <2>1, SettledWhen
      <4>3. Settled'
        BY <2>1, <4>2, NoCommIs DEF Settled, CallerActive, Active, RdsInv, RdsTypes, CommTypes
      <4> QED BY <4>3 DEF AtRest
    <3> QED BY <3>1, <3>2, <1>10
  <2> QED BY <2>1, <2>2, DriverEnds
<1>11. ASSUME NEW r \in responses, NEW p \in Procs, DoneByCaller(p, r) PROVE ExchangeInv'
  <2>1. Sane BY <1>11 DEF DoneByCaller
  <2> QED BY <1>11, <2>1, CallerEnds
<1>12. ASSUME NEW r \in responses, NEW a \in Actors, Refused(a, r) PROVE ExchangeInv'
  <2>1. Sane BY <1>12 DEF Refused
  <2> QED BY <1>12, <2>1, RefusedExchange
<1>13. ASSUME NEW m \in requests, Handle(m) PROVE ExchangeInv'
  <2>1. Sane BY <1>13 DEF Handle
  <2> QED BY <1>13, <2>1, HandleExchange
<1>14. ASSUME NEW m, Lose(m) PROVE ExchangeInv'
  <2>1. /\ Sane /\ requests' \subseteq requests /\ responses' \subseteq responses
        /\ UNCHANGED <<rdstate, rdseq, comm, disk, sseq, sopen, reqq, pc>>
    BY <1>14 DEF Lose, lists, server
  <2> QED BY <2>1, FewerMessages
<1>15. StartRead \/ StartWrite => TakesRequest BY DEF StartRead, StartWrite
<1> QED BY <1>1, <1>2, <1>3, <1>4, <1>5, <1>6, <1>7, <1>8, <1>9, <1>10, <1>11, <1>12, <1>13, <1>14, <1>15
    DEF RdsNext, Driver, Reply
----------------------------------------------------------------------------
(* Where the data of a block is, until two writes of a block have waited   *)
(* at the same time: in the only write of it that is queued, or else in    *)
(* the one being sent, or else on the disk.                                *)
HeadIsRead == Reading => buf[Head(reqq)].op = "read"

WritesQueued ==
    \A blk \in Blocks : \A b \in Writes(blk) : buf[b].data = wrote[blk] /\ \A c \in Writes(blk) : b = c

WaitsToWrite(p) == pc[p].call = "write" /\ pc[p].at \in {"wait", "woken"}

(* Nobody else has a write of the block that a process waits to write.     *)
WritesWaiting ==
    \A p \in Procs :
        WaitsToWrite(p) =>
            /\ pc[p].blk \in Uses[p] /\ Writes(pc[p].blk) = {}
            /\ \A q \in Procs \ {p} : WaitsToWrite(q) => pc[q].blk # pc[p].blk

Writing(blk) == comm[RDSPROC].type = "write" /\ comm[RDSPROC].blk = blk

WritesDone ==
    \A blk \in Blocks :
        Writes(blk) = {} =>
            IF Writing(blk) THEN comm[RDSPROC].data = wrote[blk] ELSE disk[blk] = wrote[blk]

DataInv == HeadIsRead /\ WritesQueued /\ WritesWaiting /\ WritesDone

RequestsKept ==
    \A b \in Buffers : buf'[b].op = buf[b].op /\ buf'[b].blk = buf[b].blk /\ buf'[b].data = buf[b].data

DriverKept ==
    /\ comm'[RDSPROC].type = comm[RDSPROC].type
    /\ comm'[RDSPROC].blk = comm[RDSPROC].blk /\ comm'[RDSPROC].data = comm[RDSPROC].data

LEMMA WritesAre ==
    ASSUME RdsInv
    PROVE  /\ \A blk : \A b \in Writes(blk) : b \in Buffers /\ b \in ToSet(reqq)
           /\ \A blk : QueuedWrite(blk) = 0 <=> Writes(blk) = {}
           /\ \A blk : QueuedWrite(blk) # 0 => reqq[QueuedWrite(blk)] \in Writes(blk)
<1>1. Lists(reqq, ToSet(reqq)) BY ThreeLists DEF RdsInv
<1>2. \A blk : /\ QueuedWrite(blk) = 0 <=> Writes(blk) = {}
               /\ QueuedWrite(blk) # 0 => reqq[QueuedWrite(blk)] \in Writes(blk)
  BY <1>1, QueuedWriteIs
<1>3. \A blk : \A b \in Writes(blk) : b \in Buffers /\ b \in ToSet(reqq) BY Heads DEF Writes
<1> QED BY <1>2, <1>3

LEMMA DataKept ==
    ASSUME RdsInv, DataInv, UNCHANGED <<reqq, wrote, disk>>, RequestsKept, DriverKept,
           \A p \in Procs : WaitsToWrite(p)' =>
               \/ WaitsToWrite(p) /\ pc'[p].blk = pc[p].blk
               \/ /\ pc'[p].blk \in Uses[p] /\ Writes(pc'[p].blk) = {}
                  /\ \A q \in Procs \ {p} : pc'[q] = pc[q] /\ (WaitsToWrite(q) => pc[q].blk # pc'[p].blk)
    PROVE  DataInv'
<1>1. \A blk : Writes(blk)' = Writes(blk) BY Heads DEF Writes, RequestsKept
<1>2. HeadIsRead' BY Heads DEF DataInv, HeadIsRead, Reading, DriverKept, RequestsKept
<1>3. WritesQueued' BY <1>1, WritesAre DEF DataInv, WritesQueued, RequestsKept
<1>4. WritesWaiting'
  <2>1. \A p \in Procs : WaitsToWrite(p)' => pc'[p].blk \in Uses[p] /\ Writes(pc'[p].blk) = {}
    BY DEF DataInv, WritesWaiting
  <2>2. ASSUME NEW p \in Procs, NEW q \in Procs \ {p}, WaitsToWrite(p)', WaitsToWrite(q)'
        PROVE  pc'[q].blk # pc'[p].blk
    <3>1. CASE /\ WaitsToWrite(p) /\ pc'[p].blk = pc[p].blk
               /\ WaitsToWrite(q) /\ pc'[q].blk = pc[q].blk
      BY <3>1 DEF DataInv, WritesWaiting
    <3>2. CASE \A r \in Procs \ {p} : pc'[r] = pc[r] /\ (WaitsToWrite(r) => pc[r].blk # pc'[p].blk)
      BY <2>2, <3>2 DEF WaitsToWrite
    <3>3. CASE \A r \in Procs \ {q} : pc'[r] = pc[r] /\ (WaitsToWrite(r) => pc[r].blk # pc'[q].blk)
      BY <2>2, <3>3 DEF WaitsToWrite
    <3> QED BY <2>2, <3>1, <3>2, <3>3
  <2>3. \A p \in Procs : WaitsToWrite(p)' => (Writes(pc[p].blk))' = {} BY <2>1, <1>1 DEF Writes
  <2> QED BY <2>1, <2>2, <2>3 DEF WritesWaiting
<1>5. WritesDone' BY <1>1 DEF DataInv, WritesDone, Writing, DriverKept
<1> QED BY <1>2, <1>3, <1>4, <1>5 DEF DataInv

(* A request is queued. *)
LEMMA DataQueued ==
    ASSUME RdsInv, DataInv, NEW p \in Procs, NEW b \in Buffers, b \notin ToSet(reqq),
           NEW call \in {"read", "write", "sync"}, NEW blk, NEW data, Queue(p, b, call, blk, data),
           ToSet(Append(reqq, b)) = ToSet(reqq) \cup {b},
           call = "write" => /\ blk \in Uses[p] /\ Writes(blk) = {}
                             /\ \A q \in Procs \ {p} : WaitsToWrite(q) => pc[q].blk # blk,
           UNCHANGED <<comm, disk>>
    PROVE  DataInv'
<1>1. /\ reqq' = Append(reqq, b)
      /\ \A c \in Buffers \ {b} : buf'[c] = buf[c]
      /\ buf'[b].op = call /\ buf'[b].blk = blk /\ (call = "write" => buf'[b].data = data)
      /\ wrote' = IF call = "write" THEN [wrote EXCEPT ![blk] = data] ELSE wrote
  BY DEF Queue, RdsInv, RdsTypes
<1>2. \A blk2 : Writes(blk2)' = IF call = "write" /\ blk2 = blk THEN Writes(blk2) \cup {b} ELSE Writes(blk2)
  BY <1>1, Heads DEF Writes
<1>3. wrote \in [Blocks -> Contained] BY DEF RdsInv, RdsTypes
<1>4. HeadIsRead'
  <2> SUFFICES ASSUME Reading PROVE buf'[Head(reqq')].op = "read" BY DEF HeadIsRead, Reading
  <2>1. reqq # <<>> BY Heads
  <2>2. reqq \in Seq(ToSet(reqq)) BY ThreeLists, ListedOnce DEF RdsInv
  <2>3. Head(reqq') = Head(reqq) BY <1>1, <2>1, <2>2
  <2>4. Head(reqq) \in Buffers /\ Head(reqq) \in ToSet(reqq) BY <2>1, Heads
  <2> QED BY <2>3, <2>4, <1>1 DEF DataInv, HeadIsRead
<1>5. WritesQueued'
  <2> SUFFICES ASSUME NEW x \in Blocks, NEW c \in Writes(x)'
               PROVE  buf'[c].data = wrote'[x] /\ \A d \in Writes(x)' : c = d
    BY DEF WritesQueued
  <2>1. CASE call = "write" /\ x = blk
    <3>1. Writes(x)' = {b} BY <2>1, <1>2
    <3> QED BY <3>1, <2>1, <1>1, <1>3
  <2>2. CASE ~(call = "write" /\ x = blk)
    <3>1. Writes(x)' = Writes(x) /\ wrote'[x] = wrote[x] BY <2>2, <1>1, <1>2, <1>3
    <3>2. c \in Buffers /\ c # b BY <3>1, WritesAre
    <3> QED BY <3>1, <3>2, <1>1 DEF DataInv, WritesQueued
  <2> QED BY <2>1, <2>2
<1>6. WritesWaiting'
  <2> SUFFICES ASSUME NEW q \in Procs, WaitsToWrite(q)'
               PROVE  /\ (pc[q].blk \in Uses[q] /\ Writes(pc[q].blk) = {})'
                      /\ \A r \in Procs \ {q} : WaitsToWrite(r)' => pc'[r].blk # pc'[q].blk
    BY DEF WritesWaiting
  <2>1. PICK x : pc' = [pc EXCEPT ![p] = x] /\ x.at \notin {"wait", "woken"}
    <3> DEFINE x == IF call = "write" THEN Idle ELSE [at |-> "receive", call |-> call, blk |-> blk, data |-> None]
    <3>1. pc' = [pc EXCEPT ![p] = x] /\ x.at \notin {"wait", "woken"} BY DEF Queue, Idle
    <3> QED BY <3>1
  <2>2. /\ q # p /\ pc'[q] = pc[q] /\ WaitsToWrite(q)
        /\ \A r \in Procs : WaitsToWrite(r)' => WaitsToWrite(r) /\ pc'[r] = pc[r]
    BY <2>1 DEF WaitsToWrite, RdsInv, RdsTypes, CallTypes
  <2>3. pc[q].blk \in Uses[q] /\ Writes(pc[q].blk) = {} BY <2>2 DEF DataInv, WritesWaiting
  <2>4. call = "write" => pc[q].blk # blk BY <2>2
  <2>5. PICK y : y = pc[q].blk OBVIOUS
  <2>6. Writes(y)' = {} BY <2>3, <2>4, <2>5, <1>2
  <2>7. (Writes(pc[q].blk))' = {} BY <2>2, <2>5, <2>6 DEF Writes
  <2>8. \A r \in Procs \ {q} : WaitsToWrite(r)' => pc'[r].blk # pc'[q].blk
    BY <2>2 DEF DataInv, WritesWaiting
  <2> QED BY <2>2, <2>3, <2>7, <2>8
<1>7. WritesDone' BY <1>1, <1>2, <1>3 DEF DataInv, WritesDone, Writing
<1> QED BY <1>4, <1>5, <1>6, <1>7 DEF DataInv

LEMMA RewriteData ==
    ASSUME RdsInv, DataInv, NEW p \in Procs, NEW blk \in Uses[p], NEW data \in Data, Rewrite(p, blk, data)
    PROVE  DataInv'
<1>1. PICK b : b = reqq[QueuedWrite(blk)] OBVIOUS
<1>2. blk \in Blocks BY BlockNumbers
<1>3. b \in Writes(blk) /\ b \in Buffers BY <1>1, WritesAre DEF Rewrite
<1>4. /\ buf' = [buf EXCEPT ![b].data = data] /\ wrote' = [wrote EXCEPT ![blk] = data]
      /\ UNCHANGED <<reqq, pc, comm, disk>>
  BY <1>1 DEF Rewrite, server
<1>5. buf \in [Buffers -> BufferFields] /\ wrote \in [Blocks -> Contained] BY DEF RdsInv, RdsTypes
<1>6. /\ \A c \in Buffers : buf'[c].op = buf[c].op /\ buf'[c].blk = buf[c].blk
      /\ \A c \in Buffers \ {b} : buf'[c] = buf[c]
      /\ buf'[b].data = data
  BY <1>3, <1>4, <1>5 DEF BufferFields
<1>7. \A x : Writes(x)' = Writes(x) BY <1>4, <1>6, Heads DEF Writes
<1>8. HeadIsRead' BY <1>4, <1>6, Heads DEF DataInv, HeadIsRead, Reading
<1>9. WritesQueued'
  <2> SUFFICES ASSUME NEW x \in Blocks, NEW c \in Writes(x)
               PROVE  buf'[c].data = wrote'[x] /\ \A d \in Writes(x) : c = d
    BY <1>7 DEF WritesQueued
  <2>1. buf[c].data = wrote[x] /\ \A d \in Writes(x) : c = d BY DEF DataInv, WritesQueued
  <2>2. CASE x = blk
    <3>1. c = b BY <2>1, <2>2, <1>3
    <3> QED BY <3>1, <2>1, <2>2, <1>4, <1>5, <1>6
  <2>3. CASE x # blk
    <3>1. c # b /\ c \in Buffers BY <2>3, <1>3, WritesAre DEF Writes
    <3> QED BY <3>1, <2>1, <2>3, <1>4, <1>5, <1>6
  <2> QED BY <2>2, <2>3
<1>10. WritesWaiting' BY <1>4, <1>7 DEF DataInv, WritesWaiting, WaitsToWrite
<1>11. WritesDone' BY <1>3, <1>4, <1>5, <1>7 DEF DataInv, WritesDone, Writing
<1> QED BY <1>8, <1>9, <1>10, <1>11 DEF DataInv

LEMMA MeetsNoWrite ==
    ASSUME NEW blk, Meets("write", blk), "write" \notin crossed'
    PROVE  \A q \in Procs : WaitsToWrite(q) => pc[q].blk # blk
BY DEF Meets, WaitsToWrite

LEMMA WriteCachedData ==
    ASSUME RdsInv, DataInv, NEW p \in Procs, NEW blk \in Uses[p], NEW data \in Data, WriteCached(p, blk, data),
           "write" \notin crossed'
    PROVE  DataInv'
<1>1. PICK i : i = FirstFor(cache, blk) OBVIOUS
<1>2. PICK b : b = cache[i] OBVIOUS
<1>3. Len(cache) \in Nat /\ OnThreeLists(reqq, cache, free) BY ThreeLists DEF RdsInv
<1>4. i \in 1 .. Len(cache) BY <1>1, <1>3, FirstForIs DEF WriteCached, Reusable
<1>5. b \in Buffers /\ b \notin ToSet(reqq) /\ ToSet(Append(reqq, b)) = ToSet(reqq) \cup {b}
  <2>1. /\ cache[i] \in Buffers /\ cache[i] \notin ToSet(reqq)
        /\ ToSet(Append(reqq, cache[i])) = ToSet(reqq) \cup {cache[i]}
    BY <1>3, <1>4, CachedTaken
  <2> QED BY <2>1, <1>2
<1>6. Writes(blk) = {} /\ \A q \in Procs : WaitsToWrite(q) => pc[q].blk # blk
  <2>1. Meets("write", blk) BY DEF WriteCached
  <2>2. Writes(blk) = {} BY WritesAre DEF WriteCached
  <2> QED BY <2>1, <2>2, MeetsNoWrite
<1>7. PICK call : call = "write" OBVIOUS
<1>8. Queue(p, b, call, blk, data) /\ UNCHANGED <<comm, disk>> BY <1>1, <1>2, <1>7 DEF WriteCached, server
<1> QED BY <1>5, <1>6, <1>7, <1>8, DataQueued

LEMMA RequestData ==
    ASSUME RdsInv, DataInv, NEW p \in Procs, NEW call \in {"read", "write", "sync"}, NEW blk, NEW data,
           Request(p, call, blk, data), Sane', UNCHANGED <<comm, disk>>,
           call = "write" => /\ blk \in Uses[p] /\ Writes(blk) = {}
                             /\ \A q \in Procs \ {p} : WaitsToWrite(q) => pc[q].blk # blk
    PROVE  DataInv'
<1>1. OnThreeLists(reqq, cache, free) /\ Len(cache) \in Nat BY ThreeLists DEF RdsInv
<1>2. PICK b \in Buffers : /\ Queue(p, b, call, blk, data) /\ b \notin ToSet(reqq)
                           /\ ToSet(Append(reqq, b)) = ToSet(reqq) \cup {b}
  <2>1. CASE free # <<>> /\ Queue(p, Head(free), call, blk, data)
    <3>1. /\ Head(free) \in Buffers /\ Head(free) \notin ToSet(reqq)
          /\ ToSet(Append(reqq, Head(free))) = ToSet(reqq) \cup {Head(free)}
      BY <2>1, <1>1, FreeTaken
    <3> QED BY <2>1, <3>1
  <2>2. CASE Oldest # 0 /\ Queue(p, cache[Oldest], call, blk, data)
    <3>1. Oldest \in 1 .. Len(cache) BY <2>2, <1>1, OldestIs
    <3>2. PICK i : i = Oldest OBVIOUS
    <3>3. /\ cache[i] \in Buffers /\ cache[i] \notin ToSet(reqq)
          /\ ToSet(Append(reqq, cache[i])) = ToSet(reqq) \cup {cache[i]}
      BY <3>1, <3>2, <1>1, CachedTaken
    <3> QED BY <2>2, <3>2, <3>3
  <2> QED BY <2>1, <2>2 DEF Request, Sane
<1> QED BY <1>2, DataQueued

LEMMA GotData ==
    ASSUME RdsInv, DataInv, NEW p \in Procs, Got(p), Sane'
    PROVE  DataInv'
<1>1. pc[p].at = "woken" /\ UNCHANGED <<comm, disk>> BY DEF Got, server
<1>2. PICK call, blk, data : call = pc[p].call /\ blk = pc[p].blk /\ data = pc[p].data OBVIOUS
<1>3. call \in {"read", "write", "sync"} BY <1>1, <1>2 DEF RdsInv, RdsTypes, CallTypes
<1>4. call = "write" => /\ blk \in Uses[p] /\ Writes(blk) = {}
                        /\ \A q \in Procs \ {p} : WaitsToWrite(q) => pc[q].blk # blk
  BY <1>1, <1>2 DEF DataInv, WritesWaiting, WaitsToWrite
<1>5. Request(p, call, blk, data) BY <1>2 DEF Got
<1> QED BY <1>1, <1>3, <1>4, <1>5, RequestData

LEMMA AllocData ==
    ASSUME RdsInv, DataInv, NEW p \in Procs, NEW call \in {"read", "write", "sync"}, NEW blk, NEW data,
           Alloc(p, call, blk, data), Sane', UNCHANGED <<comm, disk>>,
           call = "write" => /\ blk \in Uses[p] /\ Writes(blk) = {}
                             /\ \A q \in Procs \ {p} : WaitsToWrite(q) => pc[q].blk # blk
    PROVE  DataInv'
<1>1. CASE availsem.count > 0
  <2>1. Request(p, call, blk, data) BY <1>1 DEF Alloc
  <2> QED BY <2>1, RequestData
<1>2. CASE ~(availsem.count > 0)
  <2>1. RequestsKept /\ DriverKept /\ UNCHANGED <<reqq, wrote>>
    BY <1>2 DEF Alloc, lists, RequestsKept, DriverKept
  <2>2. \A q \in Procs \ {p} : pc'[q] = pc[q] BY <1>2 DEF Alloc, RdsInv, RdsTypes, CallTypes
  <2>3. pc'[p].call = call /\ pc'[p].blk = blk BY <1>2 DEF Alloc, RdsInv, RdsTypes, CallTypes
  <2>4. ASSUME NEW q \in Procs, WaitsToWrite(q)'
        PROVE  \/ WaitsToWrite(q) /\ pc'[q].blk = pc[q].blk
               \/ /\ pc'[q].blk \in Uses[q] /\ Writes(pc'[q].blk) = {}
                  /\ \A r \in Procs \ {q} : pc'[r] = pc[r] /\ (WaitsToWrite(r) => pc[r].blk # pc'[q].blk)
    <3>1. CASE q = p BY <3>1, <2>2, <2>3, <2>4 DEF WaitsToWrite
    <3>2. CASE q # p BY <3>2, <2>2, <2>4 DEF WaitsToWrite
    <3> QED BY <3>1, <3>2
  <2> QED BY <2>1, <2>4, DataKept
<1> QED BY <1>1, <1>2

(* The request at the head is taken. *)
LEMMA HeadTaken ==
    ASSUME RdsInv, reqq # <<>>, reqq' = Tail(reqq),
           \A c \in Buffers \ {Head(reqq)} : buf'[c].op = buf[c].op /\ buf'[c].blk = buf[c].blk
    PROVE  \A blk : Writes(blk)' = Writes(blk) \ {Head(reqq)}
<1>1. ToSet(reqq') = ToSet(reqq) \ {Head(reqq)} BY HeadMoves DEF RdsInv
<1>2. ToSet(reqq) \subseteq Buffers BY Heads
<1> QED BY <1>1, <1>2 DEF Writes

LEMMA WokenToWrite ==
    ASSUME RdsInv, MakeAvailable
    PROVE  \A p \in Procs : WaitsToWrite(p)' => WaitsToWrite(p) /\ pc'[p].blk = pc[p].blk
<1>1. \A p \in Procs : /\ pc'[p] = pc[p] \/ (pc[p].at = "wait" /\ pc'[p].at = "woken")
                       /\ pc'[p].call = pc[p].call /\ pc'[p].blk = pc[p].blk
  BY MakeAvailableAddsToken DEF RdsInv, RdsTypes
<1> QED BY <1>1 DEF WaitsToWrite

LEMMA StartReadData ==
    ASSUME RdsInv, DataInv, StartRead
    PROVE  DataInv'
<1>1. /\ TakesRequest /\ buf[Head(reqq)].op = "read" /\ comm[RDSPROC] = NoComm
      /\ UNCHANGED <<buf, reqq, pc, wrote, disk>>
  BY DEF StartRead, TakesRequest, lists, aux, server
<1>2. comm'[RDSPROC].type = "read" /\ comm[RDSPROC].type = "none"
  BY <1>1, NoCommIs DEF StartRead, Exchange, RdsInv, RdsTypes, CommTypes
<1>3. \A blk : Writes(blk)' = Writes(blk) BY <1>1 DEF Writes
<1>4. HeadIsRead' BY <1>1 DEF HeadIsRead
<1>5. WritesQueued' BY <1>1, <1>3 DEF DataInv, WritesQueued
<1>6. WritesWaiting' BY <1>1, <1>3 DEF DataInv, WritesWaiting, WaitsToWrite
<1>7. WritesDone' BY <1>1, <1>2, <1>3 DEF DataInv, WritesDone, Writing
<1> QED BY <1>4, <1>5, <1>6, <1>7 DEF DataInv

LEMMA StartWriteData ==
    ASSUME RdsInv, DataInv, StartWrite
    PROVE  DataInv'
<1>1. PICK b : b = Head(reqq) OBVIOUS
<1>2. /\ TakesRequest /\ buf[b].op = "write" /\ comm[RDSPROC] = NoComm
      /\ reqq' = Tail(reqq) /\ buf' = [buf EXCEPT ![b].refcnt = 0] /\ MakeAvailable
      /\ UNCHANGED <<wrote, disk>>
  BY <1>1 DEF StartWrite, TakesRequest, aux, server
<1>3. /\ comm'[RDSPROC].type = "write" /\ comm'[RDSPROC].blk = buf[b].blk /\ comm'[RDSPROC].data = buf[b].data
      /\ comm[RDSPROC].type = "none"
  BY <1>1, <1>2, NoCommIs DEF StartWrite, Exchange, RdsInv, RdsTypes, CommTypes
<1>4. reqq # <<>> /\ b \in Buffers /\ b \in ToSet(reqq) /\ buf[b].blk \in Blocks
  BY <1>1, <1>2, TakesRequestIs, Heads
<1>5. \A c \in Buffers : buf'[c].op = buf[c].op /\ buf'[c].blk = buf[c].blk /\ buf'[c].data = buf[c].data
  BY <1>2 DEF RdsInv, RdsTypes, BufferFields
<1>6. \A blk : Writes(blk)' = Writes(blk) \ {b} BY <1>1, <1>2, <1>4, <1>5, HeadTaken
<1>7. b \in Writes(buf[b].blk) BY <1>2, <1>4 DEF Writes
<1>8. Writes(buf[b].blk) = {b} /\ buf[b].data = wrote[buf[b].blk] BY <1>4, <1>7 DEF DataInv, WritesQueued
<1>9. HeadIsRead' BY <1>3 DEF HeadIsRead, Reading
<1>10. WritesQueued' BY <1>2, <1>5, <1>6, WritesAre DEF DataInv, WritesQueued
<1>11. WritesWaiting' BY <1>2, <1>6, WokenToWrite DEF DataInv, WritesWaiting
<1>12. WritesDone'
  <2> SUFFICES ASSUME NEW blk \in Blocks, Writes(blk)' = {}
               PROVE  IF Writing(blk)' THEN comm'[RDSPROC].data = wrote[blk] ELSE disk[blk] = wrote[blk]
    BY <1>2 DEF WritesDone
  <2>1. CASE blk = buf[b].blk BY <2>1, <1>3, <1>8 DEF Writing
  <2>2. CASE blk # buf[b].blk
    <3>1. Writes(blk) = {} BY <2>2, <1>6 DEF Writes
    <3>2. ~Writing(blk) /\ ~Writing(blk)' BY <2>2, <1>3 DEF Writing
    <3> QED BY <3>1, <3>2 DEF DataInv, WritesDone
  <2> QED BY <2>1, <2>2
<1> QED BY <1>9, <1>10, <1>11, <1>12 DEF DataInv

LEMMA DoSyncData ==
    ASSUME RdsInv, DataInv, DoSync
    PROVE  DataInv'
<1>1. /\ TakesRequest /\ buf[Head(reqq)].op = "sync" /\ reqq' = Tail(reqq) /\ MakeAvailable
      /\ UNCHANGED <<buf, comm, wrote, disk>>
  BY DEF DoSync, aux, server
<1>2. ~Reading /\ reqq # <<>> BY <1>1, TakesRequestIs
<1>3. \A blk : Writes(blk)' = Writes(blk) BY <1>1, <1>2, HeadTaken DEF Writes
<1>4. HeadIsRead' BY <1>1, <1>2 DEF HeadIsRead, Reading
<1>5. WritesQueued' BY <1>1, <1>3 DEF DataInv, WritesQueued
<1>6. WritesWaiting' BY <1>1, <1>3, WokenToWrite DEF DataInv, WritesWaiting
<1>7. WritesDone' BY <1>1, <1>3 DEF DataInv, WritesDone, Writing
<1> QED BY <1>4, <1>5, <1>6, <1>7 DEF DataInv

LEMMA EndWriteData ==
    ASSUME RdsInv, ExchangeInv, DataInv, NEW r \in responses, EndWrite(r)
    PROVE  DataInv'
<1>1. /\ comm[RDSPROC].at = "recv" /\ comm[RDSPROC].type = "write" /\ r.type = "write"
      /\ comm' = [comm EXCEPT ![RDSPROC] = NoComm]
      /\ UNCHANGED <<buf, reqq, pc, wrote, disk>>
  BY DEF EndWrite, Accepted, lists, aux, server
<1>2. disk[comm[RDSPROC].blk] = comm[RDSPROC].data
  BY <1>1 DEF ExchangeInv, InFlightInv, ResponsesInFlight, ToDriver
<1>3. comm'[RDSPROC].type = "none" BY <1>1, NoCommIs DEF RdsInv, RdsTypes, CommTypes
<1>4. \A blk : Writes(blk)' = Writes(blk) BY <1>1 DEF Writes
<1>5. HeadIsRead' BY <1>3 DEF HeadIsRead, Reading
<1>6. WritesQueued' BY <1>1, <1>4 DEF DataInv, WritesQueued
<1>7. WritesWaiting' BY <1>1, <1>4 DEF DataInv, WritesWaiting, WaitsToWrite
<1>8. WritesDone' BY <1>1, <1>2, <1>3, <1>4 DEF DataInv, WritesDone, Writing
<1> QED BY <1>5, <1>6, <1>7, <1>8 DEF DataInv

LEMMA EndReadData ==
    ASSUME RdsInv, DataInv, NEW r \in responses, EndRead(r)
    PROVE  DataInv'
<1>1. PICK b : b = Head(reqq) OBVIOUS
<1>2. /\ Reading /\ comm' = [comm EXCEPT ![RDSPROC] = NoComm] /\ MakeAvailable
      /\ reqq' = Tail(reqq) /\ buf' = [buf EXCEPT ![b].data = r.data, ![b].refcnt = 1]
      /\ UNCHANGED <<wrote, disk>>
  BY <1>1 DEF EndRead, Reading, server
<1>3. buf[b].op = "read" /\ reqq # <<>> BY <1>1, <1>2, Heads DEF DataInv, HeadIsRead
<1>4. \A c \in Buffers \ {b} : buf'[c] = buf[c] BY <1>2 DEF RdsInv, RdsTypes
<1>5. \A blk : Writes(blk)' = Writes(blk)
  <2>1. \A blk : Writes(blk)' = Writes(blk) \ {b} BY <1>1, <1>2, <1>3, <1>4, HeadTaken
  <2>2. \A blk : b \notin Writes(blk) BY <1>3 DEF Writes
  <2> QED BY <2>1, <2>2
<1>6. comm'[RDSPROC].type = "none" BY <1>2, NoCommIs DEF RdsInv, RdsTypes, CommTypes
<1>7. HeadIsRead' BY <1>6 DEF HeadIsRead, Reading
<1>8. \A blk : \A c \in Writes(blk) : c \in Buffers \ {b} BY <1>3, WritesAre DEF Writes
<1>9. WritesQueued' BY <1>2, <1>4, <1>5, <1>8 DEF DataInv, WritesQueued
<1>10. WritesWaiting' BY <1>2, <1>5, WokenToWrite DEF DataInv, WritesWaiting
<1>11. \A blk : ~Writing(blk) /\ ~Writing(blk)' BY <1>2, <1>6 DEF Writing, Reading
<1>12. WritesDone' BY <1>2, <1>5, <1>11 DEF DataInv, WritesDone
<1> QED BY <1>7, <1>9, <1>10, <1>12 DEF DataInv

LEMMA HandleData ==
    ASSUME RdsInv, ExchangeInv, DataInv, NEW m \in requests, Handle(m)
    PROVE  DataInv'
<1>1. UNCHANGED <<buf, reqq, pc, comm, wrote>> BY DEF Handle, lists, aux
<1>2. RequestsKept /\ DriverKept /\ \A p \in Procs : WaitsToWrite(p)' = WaitsToWrite(p)
  BY <1>1 DEF RequestsKept, DriverKept, WaitsToWrite
<1>3. CASE disk' = disk BY <1>1, <1>2, <1>3, DataKept
<1>4. CASE ~Ignored(m) /\ m.type = "write" /\ disk' = [disk EXCEPT ![m.blk] = m.data]
  <2>1. m.type = comm[RDSPROC].type /\ m.blk = comm[RDSPROC].blk /\ m.data = comm[RDSPROC].data
    BY <1>4, AnsweredIs DEF ToDriver, OfDriver
  <2>2. Writing(m.blk) BY <2>1, <1>4 DEF Writing
  <2>3. \A blk : Writes(blk)' = Writes(blk) BY <1>1 DEF Writes
  <2>4. HeadIsRead' BY <1>1 DEF DataInv, HeadIsRead, Reading
  <2>5. WritesQueued' BY <1>1, <2>3 DEF DataInv, WritesQueued
  <2>6. WritesWaiting' BY <1>1, <2>3 DEF DataInv, WritesWaiting, WaitsToWrite
  <2>7. \A blk \in Blocks : ~Writing(blk) => disk'[blk] = disk[blk]
    BY <1>4, <2>2 DEF RdsInv, RdsTypes, ServerTypes
  <2>8. WritesDone' BY <1>1, <2>3, <2>7 DEF DataInv, WritesDone, Writing
  <2> QED BY <2>4, <2>5, <2>6, <2>8 DEF DataInv
<1> QED BY <1>3, <1>4 DEF Handle, server, Serve, Rdopen, Rdclose, Rdwrite

LEMMA DataInitially == RdsInit => DataInv
<1> SUFFICES ASSUME RdsInit PROVE DataInv OBVIOUS
<1>1. reqq = <<>> /\ wrote = disk /\ comm[RDSPROC].type = "none" /\ \A p \in Procs : pc[p] = Idle
  BY NoCommIs DEF RdsInit
<1>2. \A blk : Writes(blk) = {} BY <1>1 DEF Writes, ToSet
<1> QED BY <1>1, <1>2 DEF DataInv, HeadIsRead, Reading, WritesQueued, WritesWaiting, WaitsToWrite, Idle, WritesDone, Writing

LEMMA DriverSame ==
    ASSUME RdsInv, NEW p \in Procs, comm' = [comm EXCEPT ![p] = comm'[p]]
    PROVE  DriverKept
BY NoCommIs DEF DriverKept, RdsInv, RdsTypes, CommTypes

LEMMA RetryKeepsDriver ==
    ASSUME RdsInv, NEW a \in Actors, NEW xmit \in BOOLEAN, Retry(a, xmit), comm[a].at = "recv", Sane'
    PROVE  DriverKept
<1>1. CASE comm' = [comm EXCEPT ![a] = NoComm] /\ a # RDSPROC
  BY <1>1, NoCommIs DEF DriverKept, RdsInv, RdsTypes, CommTypes
<1>2. CASE /\ comm' = [comm EXCEPT ![a] = comm'[a]]
           /\ comm'[a].type = comm[a].type /\ comm'[a].blk = comm[a].blk /\ comm'[a].data = comm[a].data
  BY <1>2, NoCommIs DEF DriverKept, RdsInv, RdsTypes, CommTypes
<1> QED BY <1>1, <1>2, RetryIs

LEMMA DataInductive ==
    ASSUME RdsInv, Sane => ExchangeInv, Sane /\ "write" \notin crossed => DataInv, [RdsNext]_vars
    PROVE  Sane' /\ "write" \notin crossed' => DataInv'
<1> SUFFICES ASSUME Sane', "write" \notin crossed' PROVE DataInv' OBVIOUS
<1>a. Sane => ExchangeInv /\ DataInv BY CrossedGrows
<1> USE <1>a
<1>1. CASE UNCHANGED vars
  <2>1. Sane BY <1>1 DEF vars, aux, Sane
  <2>2. RequestsKept /\ DriverKept /\ UNCHANGED <<reqq, wrote, disk>> /\ \A p \in Procs : WaitsToWrite(p)' = WaitsToWrite(p) /\ pc'[p] = pc[p]
    BY <1>1 DEF vars, lists, aux, server, RequestsKept, DriverKept, WaitsToWrite
  <2> QED BY <2>1, <2>2, DataKept
<1>2. ASSUME NEW p \in Procs, NEW blk \in Uses[p], NEW data \in Data, WriteCached(p, blk, data) PROVE DataInv'
  <2>1. Sane BY <1>2 DEF WriteCached, Calls
  <2> QED BY <1>2, <2>1, WriteCachedData
<1>3. ASSUME NEW p \in Procs, NEW blk \in Uses[p], Read(p, blk) PROVE DataInv'
  <2>1. Sane /\ UNCHANGED <<comm, disk>> BY <1>3 DEF Read, Calls, server
  <2>2. CASE Alloc(p, "read", blk, None)
    <3>1. PICK call : call = "read" OBVIOUS
    <3>2. Alloc(p, call, blk, None) /\ call # "write" /\ call \in {"read", "write", "sync"} BY <2>2, <3>1
    <3> QED BY <2>1, <3>2, AllocData
  <2>3. CASE UNCHANGED <<lists, sems, mail, pc, wrote, crossed, fault>>
    <3>1. /\ RequestsKept /\ DriverKept /\ UNCHANGED <<reqq, wrote>>
          /\ \A q \in Procs : WaitsToWrite(q)' = WaitsToWrite(q) /\ pc'[q] = pc[q]
      BY <2>1, <2>3 DEF lists, RequestsKept, DriverKept, WaitsToWrite
    <3> QED BY <2>1, <3>1, DataKept
  <2> QED BY <1>3, <2>2, <2>3 DEF Read
<1>4. ASSUME NEW p \in Procs, NEW blk \in Uses[p], NEW data \in Data, WriteNew(p, blk, data) PROVE DataInv'
  <2>1. Sane /\ Meets("write", blk) /\ UNCHANGED <<comm, disk>> BY <1>4 DEF WriteNew, Calls, server
  <2>2. Writes(blk) = {} BY <1>4, WritesAre DEF WriteNew
  <2>3. \A q \in Procs : WaitsToWrite(q) => pc[q].blk # blk BY <2>1, MeetsNoWrite
  <2>4. PICK call : call = "write" OBVIOUS
  <2>5. Alloc(p, call, blk, data) /\ call \in {"read", "write", "sync"} BY <1>4, <2>4 DEF WriteNew
  <2> QED BY <2>1, <2>2, <2>3, <2>5, AllocData
<1>5. ASSUME NEW p \in Procs, Sync(p) PROVE DataInv'
  <2>1. Sane /\ UNCHANGED <<comm, disk>> BY <1>5 DEF Sync, Calls, server
  <2>2. PICK call : call = "sync" OBVIOUS
  <2>3. Alloc(p, call, Unused, None) /\ call # "write" /\ call \in {"read", "write", "sync"}
    BY <1>5, <2>2 DEF Sync
  <2> QED BY <2>1, <2>3, AllocData
<1>6. ASSUME NEW p \in Procs, NEW blk \in Uses[p], NEW data \in Data, Rewrite(p, blk, data) PROVE DataInv'
  <2>1. Sane BY <1>6 DEF Rewrite, Calls
  <2> QED BY <1>6, <2>1, RewriteData
<1>7. ASSUME NEW p \in Procs, Got(p) PROVE DataInv'
  <2>1. Sane BY <1>7 DEF Got
  <2> QED BY <1>7, <2>1, GotData
<1>8. ASSUME NEW p \in Procs, Received(p) PROVE DataInv'
  <2>1. Sane /\ UNCHANGED <<reqq, wrote, disk, comm>> BY <1>8 DEF Received, server
  <2>2. RequestsKept
    <3>1. buf' = buf \/ buf' = [buf EXCEPT ![mail[p]].refcnt = @ - 1] BY <1>8 DEF Received
    <3> QED BY <3>1 DEF RequestsKept, RdsInv, RdsTypes, BufferFields
  <2>3. \A q \in Procs : WaitsToWrite(q)' => WaitsToWrite(q) /\ pc'[q] = pc[q]
    BY <1>8 DEF Received, WaitsToWrite, Idle, RdsInv, RdsTypes, CallTypes
  <2> QED BY <2>1, <2>2, <2>3, DataKept DEF DriverKept
<1>9. ASSUME NEW p \in Procs, Open(p) \/ Close(p) PROVE DataInv'
  <2>1. /\ Sane /\ UNCHANGED <<reqq, pc, wrote, disk>>
        /\ \E type : comm' = [comm EXCEPT ![p] = type]
    BY <1>9 DEF Open, Close, Calls, Exchange, lists, server
  <2>2. DriverKept BY <2>1, NoCommIs DEF DriverKept, RdsInv, RdsTypes, CommTypes
  <2>3. RequestsKept
    <3>1. CASE buf' = buf BY <3>1 DEF RequestsKept
    <3>2. CASE buf' = [b \in Buffers |-> IF b \in ToSet(cache) THEN [buf[b] EXCEPT !.valid = FALSE] ELSE buf[b]]
      BY <3>2 DEF RequestsKept, RdsInv, RdsTypes, BufferFields
    <3> QED BY <1>9, <3>1, <3>2 DEF Open, Close, lists
  <2> QED BY <2>1, <2>2, <2>3, DataKept DEF WaitsToWrite
<1>10. ASSUME Driver PROVE DataInv'
  <2>1. Sane BY <1>10 DEF Driver, StartRead, StartWrite, DoSync, TakesRequest
  <2> QED BY <1>10, <2>1, StartReadData, StartWriteData, DoSyncData DEF Driver
<1>11. ASSUME UNCHANGED <<buf, reqq, pc, wrote, disk>>, Sane, DriverKept PROVE DataInv'
  BY <1>11, DataKept DEF RequestsKept, WaitsToWrite
<1>12. ASSUME NEW a \in Actors, CommSend(a) PROVE DataInv'
  <2>1. Sane /\ UNCHANGED <<buf, reqq, pc, wrote, disk>> BY <1>12 DEF CommSend, lists, aux, server
  <2>2. DriverKept BY <1>12, CommSendStep, NoCommIs DEF DriverKept, RdsInv, RdsTypes, CommTypes
  <2> QED BY <2>1, <2>2, <1>11
<1>13. ASSUME NEW a \in Actors, CommTimeout(a) PROVE DataInv'
  <2>1. Sane /\ UNCHANGED <<buf, reqq, pc, wrote, disk>> BY <1>13 DEF CommTimeout, lists, server
  <2>2. PICK xmit \in BOOLEAN : xmit = TRUE OBVIOUS
  <2>3. Retry(a, xmit) /\ comm[a].at = "recv" BY <1>13, <2>2 DEF CommTimeout
  <2> QED BY <2>1, <2>3, <1>11, RetryKeepsDriver
<1>14. ASSUME NEW a \in Actors, NEW r \in responses, Refused(a, r) PROVE DataInv'
  <2>1. Sane /\ UNCHANGED <<buf, reqq, pc, wrote, disk>> BY <1>14 DEF Refused, lists, server
  <2>2. PICK xmit \in BOOLEAN : xmit = ~(r.seq < comm[a].seq) OBVIOUS
  <2>3. Retry(a, xmit) /\ comm[a].at = "recv" BY <1>14, <2>2 DEF Refused
  <2> QED BY <2>1, <2>3, <1>11, RetryKeepsDriver
<1>15. ASSUME NEW p \in Procs, NEW r \in responses, DoneByCaller(p, r) PROVE DataInv'
  <2>1. /\ Sane /\ UNCHANGED <<buf, reqq, pc, wrote, disk>> /\ comm' = [comm EXCEPT ![p] = NoComm]
    BY <1>15 DEF DoneByCaller, lists, aux, server
  <2>2. DriverKept BY <2>1, NoCommIs DEF DriverKept, RdsInv, RdsTypes, CommTypes
  <2> QED BY <2>1, <2>2, <1>11
<1>16. ASSUME NEW r \in responses, EndRead(r) \/ EndWrite(r) PROVE DataInv'
  <2>1. Sane BY <1>16 DEF EndRead, EndWrite
  <2> QED BY <1>16, <2>1, EndReadData, EndWriteData
<1>17. ASSUME NEW m \in requests, Handle(m) PROVE DataInv'
  <2>1. Sane BY <1>17 DEF Handle
  <2> QED BY <1>17, <2>1, HandleData
<1>18. ASSUME NEW m, Lose(m) PROVE DataInv'
  <2>1. Sane /\ UNCHANGED <<buf, reqq, pc, wrote, disk, comm>> BY <1>18 DEF Lose, lists, server
  <2> QED BY <2>1, <1>11 DEF DriverKept
<1> QED BY <1>1, <1>2, <1>3, <1>4, <1>5, <1>6, <1>7, <1>8, <1>9, <1>10, <1>12, <1>13, <1>14, <1>15, <1>16, <1>17, <1>18
    DEF RdsNext, Reply

(* The remote disk driver, when no message outlives the time limit of its  *)
(* exchange: NoWriteLost holds for any processes, whatever blocks they     *)
(* share, and any buffers, retries and losses.  What rdsWrite() was given  *)
(* last for a block is in the request queue, or in the message of          *)
(* rdscomm(), or in the server's file, until the driver comes to grief or  *)
(* two writes of a block have waited at the same time.                     *)
THEOREM WritesStay ==
    ASSUME ~Late
    PROVE  RdsSpec => []NoWriteLost
<1> DEFINE Inv == RdsInv /\ (Sane => ExchangeInv) /\ (Sane /\ "write" \notin crossed => DataInv)
<1>1. RdsInit => Inv BY RdsInitially, ExchangeInitially, DataInitially
<1>2. Inv /\ [RdsNext]_vars => Inv' BY RdsInductive, ExchangeInductive, DataInductive
<1>3. Inv => NoWriteLost
  <2> SUFFICES ASSUME Inv, Sane, "write" \notin crossed, NEW blk \in Blocks PROVE Contents(blk) = wrote[blk] BY DEF NoWriteLost
  <2>1. CASE QueuedWrite(blk) # 0
    <3>1. reqq[QueuedWrite(blk)] \in Writes(blk) BY <2>1, WritesAre
    <3> QED BY <2>1, <3>1 DEF Contents, DataInv, WritesQueued
  <2>2. CASE QueuedWrite(blk) = 0
    <3>1. Writes(blk) = {} BY <2>2, WritesAre
    <3> QED BY <2>2, <3>1 DEF Contents, DataInv, WritesDone, Writing
  <2> QED BY <2>1, <2>2
<1> QED BY <1>1, <1>2, <1>3, PTL DEF RdsSpec
----------------------------------------------------------------------------
(***************************************************************************)
(* A read returns what was written last.  The queue, the cache, the        *)
(* exchange and the mailboxes are on its way.                              *)
(***************************************************************************)
InCache(blk) == {b \in ToSet(cache) : buf[b].valid /\ buf[b].blk = blk}

(* No buffer has what was written to the block. *)
Uncopied(blk) == Writes(blk) = {} /\ InCache(blk) = {}

(* A valid buffer of the cache has the last write of its block, nobody     *)
(* reads it, and it is the one that a search for the block finds.          *)
CacheCurrent ==
    \A i \in 1 .. Len(cache) :
        buf[cache[i]].valid =>
            /\ buf[cache[i]].op = "write" /\ buf[cache[i]].refcnt = 0
            /\ buf[cache[i]].data = wrote[buf[cache[i]].blk]
            /\ Writes(buf[cache[i]].blk) = {}
            /\ \A j \in 1 .. i - 1 : buf[cache[j]].blk # buf[cache[i]].blk

Wants(p) ==
    \/ pc[p].at \in {"wait", "woken"} /\ pc[p].call \in {"read", "write"}
    \/ pc[p].at = "receive" /\ pc[p].call = "read"

(* The block that a process reads, or waits to write, stays on the server, *)
(* and nobody reads or writes what another process waits to write.         *)
CallsPending ==
    /\ \A p \in Procs : Wants(p) => pc[p].blk \in Uses[p] /\ Uncopied(pc[p].blk)
    /\ \A p \in Procs : WaitsToWrite(p) => pc[p].data \in Data
    /\ \A p \in Procs : pc[p].at = "receive" => pc[p].call # "write"
    /\ \A p \in Procs : pc[p].call = "sync" => pc[p].blk = Unused
    /\ \A p \in Procs : WaitsToWrite(p) => \A q \in Procs \ {p} : Wants(q) => pc[q].blk # pc[p].blk

(* A process waits for the answer to the request. *)
Asked(b) ==
    /\ ~buf[b].valid /\ buf[b].pid \in Procs
    /\ pc[buf[b].pid].at = "receive" /\ pc[buf[b].pid].call = buf[b].op
    /\ pc[buf[b].pid].blk = buf[b].blk /\ mail[buf[b].pid] = None

RequestsPending ==
    /\ \A b \in ToSet(reqq) : buf[b].op # "write" => Asked(b)
    /\ \A b, c \in ToSet(reqq) :
          buf[b].op # "write" /\ buf[c].op # "write" /\ buf[b].pid = buf[c].pid => b = c

Answered(p) ==
    /\ mail[p] \in ToSet(cache) /\ ~buf[mail[p]].valid /\ buf[mail[p]].refcnt = 1 /\ buf[mail[p]].pid = p
    /\ buf[mail[p]].blk = pc[p].blk /\ buf[mail[p]].data = wrote[pc[p].blk]

Delivered ==
    /\ mail = [p \in Procs |-> mail[p]]
    /\ \A p \in Procs : pc[p].at = "receive" /\ pc[p].call = "read" /\ mail[p] # None => Answered(p)

ReadsInFlight ==
    /\ Reading => comm[RDSPROC].blk = buf[Head(reqq)].blk
    /\ \A r \in responses : r.type = "read" => r.data = disk[comm[RDSPROC].blk]

CacheInv == CacheCurrent /\ CallsPending /\ RequestsPending /\ Delivered /\ ReadsInFlight

LEMMA Cached ==
    ASSUME RdsInv
    PROVE  /\ Len(cache) \in Nat /\ OnThreeLists(reqq, cache, free)
           /\ \A i \in 1 .. Len(cache) : cache[i] \in Buffers /\ cache[i] \in ToSet(cache)
           /\ \A c \in ToSet(cache) : c \in Buffers /\ c \notin ToSet(reqq) /\ \E i \in 1 .. Len(cache) : cache[i] = c
<1>1. Lists(cache, ToSet(cache)) /\ ToSet(reqq) \cap ToSet(cache) = {} /\ OnThreeLists(reqq, cache, free)
  BY ThreeLists DEF RdsInv
<1>2. /\ Len(cache) \in Nat /\ \A i \in 1 .. Len(cache) : cache[i] \in ToSet(cache)
      /\ \A c \in ToSet(cache) : \E i \in 1 .. Len(cache) : cache[i] = c
  BY <1>1, ListedOnce
<1> QED BY <1>1, <1>2, Heads

(* The search in the cache finds the only valid copy of a block. *)
LEMMA OneCopy ==
    ASSUME RdsInv, CacheCurrent, NEW blk, NEW c \in InCache(blk), NEW i, i = FirstFor(cache, blk)
    PROVE  i # 0 /\ i \in 1 .. Len(cache) /\ c = cache[i] /\ buf[c].valid /\ buf[c].refcnt = 0
<1>1. PICK k \in 1 .. Len(cache) : cache[k] = c /\ buf[c].valid /\ buf[c].blk = blk
  BY Cached DEF InCache
<1>2. /\ i = 0 => \A j \in 1 .. Len(cache) : buf[cache[j]].blk # blk
      /\ i # 0 => /\ i \in 1 .. Len(cache) /\ buf[cache[i]].blk = blk
                  /\ \A j \in 1 .. Len(cache) : j < i => buf[cache[j]].blk # blk
  BY Cached, FirstForIs
<1>3. i # 0 /\ i \in 1 .. Len(cache) /\ buf[cache[i]].blk = blk BY <1>1, <1>2
<1>4. ~(k < i) BY <1>1, <1>2, <1>3
<1>5. \A j \in 1 .. k - 1 : buf[cache[j]].blk # blk BY <1>1 DEF CacheCurrent
<1>6. ~(i < k)
  <2>1. i < k => i \in 1 .. k - 1 BY <1>1, <1>3, Cached
  <2> QED BY <2>1, <1>3, <1>5
<1>7. i = k BY <1>1, <1>3, <1>4, <1>6, Cached
<1> QED BY <1>1, <1>3, <1>7 DEF CacheCurrent

(* rdsRead() finds its block: it is as it was written last. *)
LEMMA HitIs ==
    ASSUME RdsInv, DataInv, CacheInv, NEW blk \in Blocks, Copy(blk) # 0
    PROVE  buf[Copy(blk)].data = wrote[blk]
<1>1. PICK c, q : c = FirstFor(cache, blk) /\ q = LastFor(reqq, blk) OBVIOUS
<1>2. Copy(blk) = IF c # 0 /\ buf[cache[c]].valid THEN cache[c]
                  ELSE IF q # 0 /\ buf[reqq[q]].op = "write" THEN reqq[q] ELSE 0
  BY <1>1 DEF Copy
<1>3. CASE c # 0 /\ buf[cache[c]].valid
  <2>1. c \in 1 .. Len(cache) /\ buf[cache[c]].blk = blk BY <1>1, <1>3, Cached, FirstForIs
  <2>2. buf[cache[c]].data = wrote[blk] BY <2>1, <1>3 DEF CacheInv, CacheCurrent
  <2> QED BY <2>2, <1>2, <1>3
<1>4. CASE q # 0 /\ buf[reqq[q]].op = "write" /\ Copy(blk) = reqq[q]
  <2>1. Len(reqq) \in Nat /\ \A j \in 1 .. Len(reqq) : reqq[j] \in ToSet(reqq)
    BY ThreeLists DEF RdsInv
  <2>2. q \in 1 .. Len(reqq) /\ buf[reqq[q]].blk = blk BY <1>1, <1>4, <2>1, LastForIs
  <2>3. reqq[q] \in Writes(blk) BY <1>4, <2>1, <2>2 DEF Writes
  <2>4. buf[reqq[q]].data = wrote[blk] BY <2>3 DEF DataInv, WritesQueued
  <2> QED BY <2>4, <1>4
<1> QED BY <1>2, <1>3, <1>4

(* It does not find it: no write of it is queued or cached. *)
LEMMA MissIs ==
    ASSUME RdsInv, CacheInv, NEW p \in Procs, NEW blk \in Uses[p], Unused \notin Uses[p],
           Copy(blk) = 0
    PROVE  Uncopied(blk)
<1>1. PICK c, q : c = FirstFor(cache, blk) /\ q = LastFor(reqq, blk) OBVIOUS
<1>2. Copy(blk) = IF c # 0 /\ buf[cache[c]].valid THEN cache[c]
                  ELSE IF q # 0 /\ buf[reqq[q]].op = "write" THEN reqq[q] ELSE 0
  BY <1>1 DEF Copy
<1>3. /\ Len(reqq) \in Nat /\ \A j \in 1 .. Len(reqq) : reqq[j] \in ToSet(reqq)
      /\ \A b \in ToSet(reqq) : \E j \in 1 .. Len(reqq) : reqq[j] = b
  <2>1. Lists(reqq, ToSet(reqq)) BY ThreeLists DEF RdsInv
  <2> QED BY <2>1, ListedOnce
<1>4. 0 \notin Buffers BY RdsAssumption DEF Buffers
<1>5. InCache(blk) = {}
  <2> SUFFICES ASSUME NEW b \in InCache(blk) PROVE FALSE OBVIOUS
  <2>1. c # 0 /\ c \in 1 .. Len(cache) /\ buf[cache[c]].valid BY <1>1, OneCopy DEF CacheInv
  <2>2. cache[c] \in Buffers BY <2>1, Cached
  <2> QED BY <2>1, <2>2, <1>2, <1>4
<1>6. Writes(blk) = {}
  <2> SUFFICES ASSUME NEW b \in Writes(blk) PROVE FALSE OBVIOUS
  <2>1. PICK j \in 1 .. Len(reqq) : reqq[j] = b /\ buf[b].blk = blk BY <1>3 DEF Writes
  <2>2. q # 0 /\ q \in 1 .. Len(reqq) /\ buf[reqq[q]].blk = blk BY <1>1, <1>3, <2>1, LastForIs
  <2>3. PICK d : d = reqq[q] OBVIOUS
  <2>4. d \in ToSet(reqq) /\ d \in Buffers /\ buf[d].blk = blk BY <2>2, <2>3, <1>3, Heads
  <2>5. buf[d].op # "write"
    <3>1. c # 0 => cache[c] \in Buffers BY <1>1, Cached, FirstForIs
    <3> QED BY <3>1, <2>2, <2>3, <2>4, <1>2, <1>4
  <2>6. PICK r \in Procs : pc[r].at = "receive" /\ pc[r].call = buf[d].op /\ pc[r].blk = blk
    BY <2>4, <2>5 DEF CacheInv, RequestsPending, Asked
  <2>7. pc[r].call \in {"read", "sync"}
    BY <2>6 DEF CacheInv, CallsPending, RdsInv, RdsTypes, CallTypes
  <2>8. pc[r].call # "sync" BY <2>6 DEF CacheInv, CallsPending
  <2>9. Uncopied(blk) BY <2>6, <2>7, <2>8 DEF CacheInv, CallsPending, Wants
  <2> QED BY <2>9 DEF Uncopied
<1> QED BY <1>5, <1>6 DEF Uncopied
----------------------------------------------------------------------------
(* What keeps the cache current: its buffers stay in their order, and are  *)
(* what they were, or an older copy of nothing comes to stand before them. *)
KeepsOrder(list) ==
    \A i \in 1 .. Len(list) :
        \E k \in 1 .. Len(cache) :
            list[i] = cache[k] /\ \A j \in 1 .. i - 1 : \E l \in 1 .. k - 1 : list[j] = cache[l]

LEMMA SameOrder == RdsInv => KeepsOrder(cache)
BY Cached DEF KeepsOrder

LEMMA RemovedKeepsOrder ==
    ASSUME RdsInv, NEW i \in 1 .. Len(cache)
    PROVE  /\ KeepsOrder(RemoveAt(cache, i))
           /\ \A j \in 1 .. Len(RemoveAt(cache, i)) : RemoveAt(cache, i)[j] \in ToSet(cache) \ {cache[i]}
<1>1. Len(cache) \in Nat BY Cached
<1>2. \A j \in 1 .. Len(RemoveAt(cache, i)) : RemoveAt(cache, i)[j] \in ToSet(cache) \ {cache[i]}
  <2>1. OnThreeLists(reqq, cache, free) BY Cached
  <2>2. OnThreeLists(Append(reqq, cache[i]), RemoveAt(cache, i), free) /\ ToSet(RemoveAt(cache, i)) = ToSet(cache) \ {cache[i]}
    BY <2>1, CachedTaken
  <2>3. \A j \in 1 .. Len(RemoveAt(cache, i)) : RemoveAt(cache, i)[j] \in ToSet(RemoveAt(cache, i)) BY <2>2, ThreeLists
  <2> QED BY <2>2, <2>3
<1>3. PICK c : c = RemoveAt(cache, i) OBVIOUS
<1>4. Len(c) = Len(cache) - 1 /\ \A j \in 1 .. Len(cache) - 1 : c[j] = IF j < i THEN cache[j] ELSE cache[j + 1]
  <2>1. OnThreeLists(reqq, cache, free) BY Cached
  <2>2. /\ Len(RemoveAt(cache, i)) = Len(cache) - 1
        /\ \A j \in 1 .. Len(cache) - 1 : RemoveAt(cache, i)[j] = IF j < i THEN cache[j] ELSE cache[j + 1]
    BY <2>1, CachedTaken
  <2> QED BY <2>2, <1>3
<1>5. KeepsOrder(c)
  <2> SUFFICES ASSUME NEW m \in 1 .. Len(c)
               PROVE  \E k \in 1 .. Len(cache) :
                         c[m] = cache[k] /\ \A j \in 1 .. m - 1 : \E l \in 1 .. k - 1 : c[j] = cache[l]
    BY DEF KeepsOrder
  <2>1. PICK k : k = IF m < i THEN m ELSE m + 1 OBVIOUS
  <2>2. k \in 1 .. Len(cache) /\ c[m] = cache[k] BY <2>1, <1>1, <1>4
  <2>3. ASSUME NEW j \in 1 .. m - 1 PROVE \E l \in 1 .. k - 1 : c[j] = cache[l]
    <3>1. PICK l : l = IF j < i THEN j ELSE j + 1 OBVIOUS
    <3>2. l \in 1 .. k - 1 /\ c[j] = cache[l] BY <3>1, <2>1, <2>2, <1>1, <1>4
    <3> QED BY <3>2
  <2> QED BY <2>2, <2>3
<1> QED BY <1>2, <1>3, <1>5

LEMMA CurrentStays ==
    ASSUME RdsInv, CacheCurrent, KeepsOrder(cache'),
           \A i \in 1 .. Len(cache') :
              /\ buf'[cache'[i]].blk = buf[cache'[i]].blk
              /\ buf'[cache'[i]].valid =>
                    /\ buf[cache'[i]].valid
                    /\ buf'[cache'[i]].op = buf[cache'[i]].op
                    /\ buf'[cache'[i]].refcnt = buf[cache'[i]].refcnt
                    /\ buf'[cache'[i]].data = buf[cache'[i]].data
                    /\ wrote'[buf[cache'[i]].blk] = wrote[buf[cache'[i]].blk]
                    /\ \A blk : blk = buf[cache'[i]].blk => Writes(blk)' = {}
    PROVE  CacheCurrent'
<1> SUFFICES ASSUME NEW i \in 1 .. Len(cache'), buf'[cache'[i]].valid
             PROVE  (/\ buf[cache[i]].op = "write" /\ buf[cache[i]].refcnt = 0
                     /\ buf[cache[i]].data = wrote[buf[cache[i]].blk]
                     /\ Writes(buf[cache[i]].blk) = {}
                     /\ \A j \in 1 .. i - 1 : buf[cache[j]].blk # buf[cache[i]].blk)'
  BY DEF CacheCurrent
<1>1. PICK c, blk : c = cache'[i] /\ blk = buf[c].blk OBVIOUS
<1>2. PICK k \in 1 .. Len(cache) :
         c = cache[k] /\ \A j \in 1 .. i - 1 : \E l \in 1 .. k - 1 : cache'[j] = cache[l]
  BY <1>1 DEF KeepsOrder
<1>3. /\ buf[c].op = "write" /\ buf[c].refcnt = 0 /\ buf[c].data = wrote[blk]
      /\ \A l \in 1 .. k - 1 : buf[cache[l]].blk # blk
  <2>1. buf[cache[k]].valid /\ cache[k] = c BY <1>1, <1>2
  <2> QED BY <2>1, <1>1 DEF CacheCurrent
<1>4. Writes(blk)' = {} /\ buf'[c].blk = blk BY <1>1
<1>5. (Writes(buf[cache[i]].blk))' = {} BY <1>1, <1>4 DEF Writes
<1>6. ASSUME NEW j \in 1 .. i - 1 PROVE buf'[cache'[j]].blk # buf'[cache'[i]].blk
  <2>1. j \in 1 .. Len(cache')
    <3>1. i \in Nat /\ i >= 1 OBVIOUS
    <3> QED BY <3>1
  <2>2. PICK l \in 1 .. k - 1 : cache'[j] = cache[l] BY <1>2
  <2> QED BY <2>1, <2>2, <1>1, <1>3, <1>4
<1> QED BY <1>1, <1>3, <1>5, <1>6

(* A buffer is put at the head of the cache. *)
LEMMA CurrentAdds ==
    ASSUME RdsInv, CacheCurrent, NEW b, cache' = <<b>> \o cache, NEW blk, buf'[b].blk = blk, InCache(blk) = {},
           \A c \in ToSet(cache) : buf'[c] = buf[c], wrote' = wrote,
           \A x : Writes(x)' \subseteq Writes(x),
           buf'[b].valid => /\ buf'[b].op = "write" /\ buf'[b].refcnt = 0 /\ buf'[b].data = wrote[blk]
                            /\ Writes(blk)' = {}
    PROVE  CacheCurrent'
<1>1. /\ Len(cache') = Len(cache) + 1 /\ cache'[1] = b /\ Len(cache) \in Nat
      /\ \A i \in 1 .. Len(cache) : cache'[i + 1] = cache[i]
  <2>1. Len(cache) \in Nat /\ Lists(cache, ToSet(cache)) BY Cached, ThreeLists DEF RdsInv
  <2>2. cache \in Seq(ToSet(cache) \cup {b}) BY <2>1, ListedOnce
  <2> QED BY <2>1, <2>2
<1> SUFFICES ASSUME NEW i \in 1 .. Len(cache'), buf'[cache'[i]].valid
             PROVE  (/\ buf[cache[i]].op = "write" /\ buf[cache[i]].refcnt = 0
                     /\ buf[cache[i]].data = wrote[buf[cache[i]].blk]
                     /\ Writes(buf[cache[i]].blk) = {}
                     /\ \A j \in 1 .. i - 1 : buf[cache[j]].blk # buf[cache[i]].blk)'
  BY DEF CacheCurrent
<1>2. CASE i = 1
  <2>1. cache'[i] = b BY <1>1, <1>2
  <2>2. (Writes(buf[cache[i]].blk))' = {}
    <3>1. Writes(blk)' = {} BY <2>1
    <3> QED BY <2>1, <3>1 DEF Writes
  <2>3. 1 .. i - 1 = {} BY <1>2
  <2> QED BY <2>1, <2>2, <2>3
<1>3. CASE i # 1
  <2>1. PICK k \in 1 .. Len(cache) : i = k + 1
    <3>1. i - 1 \in 1 .. Len(cache) /\ i = (i - 1) + 1 BY <1>1, <1>3
    <3> QED BY <3>1
  <2>2. PICK c, x : c = cache[k] /\ x = buf[c].blk OBVIOUS
  <2>3. cache'[i] = c /\ c \in ToSet(cache) /\ buf'[c] = buf[c] BY <2>1, <2>2, <1>1, Cached
  <2>4. /\ buf[c].op = "write" /\ buf[c].refcnt = 0 /\ buf[c].data = wrote[x]
        /\ Writes(x) = {} /\ \A j \in 1 .. k - 1 : buf[cache[j]].blk # x
    BY <2>2, <2>3 DEF CacheCurrent
  <2>5. Writes(x)' = {} BY <2>4
  <2>6. (Writes(buf[cache[i]].blk))' = {} BY <2>2, <2>3, <2>5 DEF Writes
  <2>7. x # blk BY <2>2, <2>3 DEF InCache
  <2>8. ASSUME NEW j \in 1 .. i - 1 PROVE buf'[cache'[j]].blk # x
    <3>1. CASE j = 1 BY <3>1, <1>1, <2>7
    <3>2. CASE j # 1
      <4>1. PICK l \in 1 .. k - 1 : j = l + 1
        <5>1. j - 1 \in 1 .. k - 1 /\ j = (j - 1) + 1 BY <3>2, <2>1
        <5> QED BY <5>1
      <4>2. l \in 1 .. Len(cache) BY <2>1, <1>1
      <4>3. cache'[j] = cache[l] /\ buf'[cache[l]] = buf[cache[l]] BY <4>1, <4>2, <1>1, Cached
      <4> QED BY <4>1, <4>3, <2>4
    <3> QED BY <3>1, <3>2
  <2> QED BY <2>2, <2>3, <2>4, <2>6, <2>8
<1> QED BY <1>2, <1>3

(* Nothing is different but the exchange, or the calls that wait for a     *)
(* buffer.                                                                 *)
LEMMA CacheQuiet ==
    ASSUME CacheInv, UNCHANGED <<buf, reqq, cache, mail, pc, wrote>>, ReadsInFlight'
    PROVE  CacheInv'
<1>1. /\ \A blk : Writes(blk)' = Writes(blk) /\ InCache(blk)' = InCache(blk)
  BY DEF Writes, InCache
<1>2. CacheCurrent' BY <1>1 DEF CacheInv, CacheCurrent
<1>3. CallsPending' BY <1>1 DEF CacheInv, CallsPending, Wants, WaitsToWrite, Uncopied
<1>4. RequestsPending' BY DEF CacheInv, RequestsPending, Asked
<1>5. Delivered' BY DEF CacheInv, Delivered, Answered
<1> QED BY <1>2, <1>3, <1>4, <1>5 DEF CacheInv

LEMMA ReadsQuiet ==
    ASSUME CacheInv, comm'[RDSPROC].type = comm[RDSPROC].type, comm'[RDSPROC].blk = comm[RDSPROC].blk,
           responses' \subseteq responses, disk' = disk,
           Reading => Head(reqq') = Head(reqq) /\ buf'[Head(reqq)].blk = buf[Head(reqq)].blk
    PROVE  ReadsInFlight'
BY DEF CacheInv, ReadsInFlight, Reading

LEMMA CacheWaits ==
    ASSUME RdsInv, CacheInv, NEW p \in Procs, pc[p] = Idle, NEW call, NEW blk, NEW data, Alloc(p, call, blk, data),
           ~(availsem.count > 0),
           call = "write" => \A q \in Procs \ {p} : Wants(q) => pc[q].blk # blk,
           call = "read" => \A q \in Procs \ {p} : WaitsToWrite(q) => pc[q].blk # blk,
           UNCHANGED <<comm, responses, disk>>,
           call \in {"read", "write"} => blk \in Uses[p] /\ Uncopied(blk),
           call = "write" => data \in Data, call = "sync" => blk = Unused
    PROVE  CacheInv'
<1>a. UNCHANGED <<buf, reqq, cache, mail, wrote>> BY DEF Alloc, lists
<1>1. \A x : Writes(x)' = Writes(x) /\ InCache(x)' = InCache(x) BY <1>a DEF Writes, InCache
<1>2. /\ \A q \in Procs \ {p} : pc'[q] = pc[q]
      /\ pc'[p].at = "wait" /\ pc'[p].call = call /\ pc'[p].blk = blk /\ pc'[p].data = data
  BY DEF Alloc, RdsInv, RdsTypes, CallTypes
<1>3. CacheCurrent' BY <1>1, <1>a DEF CacheInv, CacheCurrent
<1>4. CallsPending'
  <2>1. ASSUME NEW q \in Procs, Wants(q)' PROVE (pc[q].blk \in Uses[q] /\ Uncopied(pc[q].blk))'
    <3>1. PICK x : x = pc'[q].blk OBVIOUS
    <3>2. x \in Uses[q] /\ Uncopied(x)
      <4>1. CASE q = p BY <4>1, <2>1, <3>1, <1>2 DEF Wants
      <4>2. CASE q # p BY <4>2, <2>1, <3>1, <1>2 DEF Wants, CacheInv, CallsPending
      <4> QED BY <4>1, <4>2
    <3>3. (Uncopied(pc[q].blk))' BY <3>1, <3>2, <1>a DEF Uncopied, Writes, InCache
    <3> QED BY <3>1, <3>2, <3>3
  <2>2. \A q \in Procs : WaitsToWrite(q)' => pc'[q].data \in Data BY <1>2 DEF CacheInv, CallsPending, WaitsToWrite
  <2>3. \A q \in Procs : /\ pc'[q].at = "receive" => pc'[q].call # "write"
                         /\ pc'[q].call = "sync" => pc'[q].blk = Unused
    BY <1>2 DEF CacheInv, CallsPending
  <2>4. ASSUME NEW r \in Procs, NEW q \in Procs \ {r}, WaitsToWrite(r)', Wants(q)' PROVE pc'[q].blk # pc'[r].blk
    <3>1. CASE r = p
      <4>1. call = "write" /\ pc'[q] = pc[q] /\ Wants(q) BY <3>1, <2>4, <1>2 DEF WaitsToWrite, Wants
      <4> QED BY <4>1, <3>1, <1>2
    <3>2. CASE r # p /\ q = p
      <4>1. pc'[r] = pc[r] /\ WaitsToWrite(r) BY <3>2, <2>4, <1>2 DEF WaitsToWrite
      <4>2. call \in {"read", "write"} BY <3>2, <2>4, <1>2 DEF Wants
      <4>3. Wants(r) BY <4>1 DEF WaitsToWrite, Wants
      <4> QED BY <4>1, <4>2, <4>3, <3>2, <1>2
    <3>3. CASE r # p /\ q # p
      <4>1. pc'[r] = pc[r] /\ WaitsToWrite(r) /\ pc'[q] = pc[q] /\ Wants(q)
        BY <3>3, <2>4, <1>2 DEF WaitsToWrite, Wants
      <4> QED BY <4>1 DEF CacheInv, CallsPending
    <3> QED BY <3>1, <3>2, <3>3
  <2> QED BY <2>1, <2>2, <2>3, <2>4 DEF CallsPending
<1>5. pc[p].at # "receive" BY DEF Idle
<1>6. RequestsPending' BY <1>2, <1>5, <1>a DEF CacheInv, RequestsPending, Asked
<1>7. Delivered' BY <1>2, <1>5, <1>a DEF CacheInv, Delivered, Answered
<1>8. ReadsInFlight' BY <1>a, ReadsQuiet
<1> QED BY <1>3, <1>4, <1>6, <1>7, <1>8 DEF CacheInv
----------------------------------------------------------------------------
(* A request is queued.  Its buffer comes from the free list or is taken   *)
(* out of the cache.                                                       *)
LEMMA CacheQueued ==
    ASSUME RdsInv, CacheInv, NEW p \in Procs, NEW b \in Buffers, b \notin ToSet(reqq),
           NEW call \in {"read", "write", "sync"}, NEW blk, NEW data, Queue(p, b, call, blk, data),
           ToSet(Append(reqq, b)) = ToSet(reqq) \cup {b}, pc[p].at # "receive",
           call # "sync" => blk \in Uses[p] /\ Writes(blk) = {} /\ InCache(blk) \subseteq {b},
           call = "sync" => blk = Unused,
           call = "write" => \A q \in Procs \ {p} : Wants(q) => pc[q].blk # blk,
           call = "read" => \A q \in Procs \ {p} : WaitsToWrite(q) => pc[q].blk # blk,
           KeepsOrder(cache'), \A i \in 1 .. Len(cache') : cache'[i] \in ToSet(cache) \ {b},
           ToSet(cache') = ToSet(cache) \ {b}, b \in ToSet(cache) => buf[b].refcnt <= 0,
           UNCHANGED <<comm, responses, disk>>
    PROVE  CacheInv'
<1>1. /\ reqq' = Append(reqq, b)
      /\ \A c \in Buffers \ {b} : buf'[c] = buf[c]
      /\ buf'[b].op = call /\ buf'[b].blk = blk /\ buf'[b].pid = p /\ (call # "write" => ~buf'[b].valid)
      /\ wrote' = IF call = "write" THEN [wrote EXCEPT ![blk] = data] ELSE wrote
  BY DEF Queue, RdsInv, RdsTypes
<1>2. /\ \A q \in Procs \ {p} : pc'[q] = pc[q] /\ mail'[q] = mail[q]
      /\ IF call = "write" THEN pc'[p].at = "user" /\ pc'[p].call = "none"
         ELSE /\ mail'[p] = None /\ pc'[p].at = "receive" /\ pc'[p].call = call
              /\ pc'[p].blk = blk
      /\ mail' = [q \in Procs |-> mail'[q]]
  <2>1. mail = [q \in Procs |-> mail[q]] BY DEF CacheInv, Delivered
  <2>2. pc \in [Procs -> CallsInProgress] BY DEF RdsInv, RdsTypes, CallTypes
  <2>3. mail' = IF call = "write" THEN mail ELSE [mail EXCEPT ![p] = None] BY DEF Queue
  <2>4. mail' = [q \in Procs |-> mail'[q]] BY <2>1, <2>3
  <2> QED BY <2>1, <2>2, <2>3, <2>4 DEF Queue, Idle
<1>3. /\ \A x : Writes(x)' = IF call = "write" /\ x = blk THEN Writes(x) \cup {b} ELSE Writes(x)
      /\ \A x : InCache(x)' = InCache(x) \ {b}
  <2>1. ToSet(reqq) \subseteq Buffers /\ ToSet(cache) \subseteq Buffers BY Heads
  <2>2. \A x : Writes(x)' = IF call = "write" /\ x = blk THEN Writes(x) \cup {b} ELSE Writes(x)
    BY <1>1, <2>1 DEF Writes
  <2>3. \A x : InCache(x)' = InCache(x) \ {b} BY <1>1, <2>1 DEF InCache
  <2> QED BY <2>2, <2>3
<1>4. wrote \in [Blocks -> Contained] /\ buf \in [Buffers -> BufferFields] BY DEF RdsInv, RdsTypes
<1>5. \A x \in Blocks : call # "write" \/ x # blk => wrote'[x] = wrote[x] BY <1>1, <1>4
<1>6. CacheCurrent'
  <2>1. ASSUME NEW i \in 1 .. Len(cache')
        PROVE  /\ buf'[cache'[i]] = buf[cache'[i]]
               /\ buf[cache'[i]].valid => /\ wrote'[buf[cache'[i]].blk] = wrote[buf[cache'[i]].blk]
                                          /\ \A x : x = buf[cache'[i]].blk => Writes(x)' = {}
    <3>1. PICK c, x : c = cache'[i] /\ x = buf[c].blk OBVIOUS
    <3>2. c \in ToSet(cache) /\ c # b /\ c \in Buffers BY <3>1, Cached
    <3>3. buf'[c] = buf[c] BY <3>2, <1>1
    <3>4. ASSUME buf[c].valid PROVE wrote'[x] = wrote[x] /\ Writes(x)' = {}
      <4>1. PICK k \in 1 .. Len(cache) : cache[k] = c BY <3>2, Cached
      <4>2. buf[c].op = "write" /\ Writes(x) = {} BY <4>1, <3>1, <3>4 DEF CacheInv, CacheCurrent
      <4>3. x \in Blocks BY <4>2, <3>1, <3>2, <1>4 DEF BufferFields
      <4>4. c \in InCache(x) BY <3>1, <3>2, <3>4 DEF InCache
      <4>5. call # "write" \/ x # blk BY <4>4, <3>2
      <4> QED BY <4>2, <4>3, <4>5, <1>3, <1>5
    <3> QED BY <3>1, <3>3, <3>4
  <2>2. CacheCurrent BY DEF CacheInv
  <2> QED BY <2>1, <2>2, CurrentStays
<1>7. \A q \in Procs \ {p} : Wants(q) => pc[q].blk \in Blocks /\ (call # "write" \/ pc[q].blk # blk)
  BY BlockNumbers DEF CacheInv, CallsPending
<1>8. CallsPending'
  <2>1. ASSUME NEW q \in Procs, Wants(q)' PROVE (pc[q].blk \in Uses[q] /\ Uncopied(pc[q].blk))'
    <3>1. PICK x : x = pc'[q].blk OBVIOUS
    <3>2. x \in Uses[q] /\ Writes(x)' = {} /\ InCache(x)' = {}
      <4>1. CASE q = p
        <5>1. call = "read" /\ x = blk BY <4>1, <3>1, <2>1, <1>2 DEF Wants
        <5> QED BY <5>1, <4>1, <1>3
      <4>2. CASE q # p
        <5>1. Wants(q) /\ x = pc[q].blk BY <4>2, <3>1, <2>1, <1>2 DEF Wants
        <5>2. x \in Uses[q] /\ Writes(x) = {} /\ InCache(x) = {} BY <5>1 DEF CacheInv, CallsPending, Uncopied
        <5> QED BY <5>1, <5>2, <4>2, <1>3, <1>7
      <4> QED BY <4>1, <4>2
    <3>3. (Uncopied(pc[q].blk))' BY <3>1, <3>2 DEF Uncopied, Writes, InCache
    <3> QED BY <3>1, <3>2, <3>3
  <2>2. \A q \in Procs : WaitsToWrite(q)' => pc'[q].data \in Data BY <1>2 DEF CacheInv, CallsPending, WaitsToWrite
  <2>3. \A q \in Procs : /\ pc'[q].at = "receive" => pc'[q].call # "write"
                         /\ pc'[q].call = "sync" => pc'[q].blk = Unused
    BY <1>2 DEF CacheInv, CallsPending
  <2>4. ASSUME NEW r \in Procs, NEW q \in Procs \ {r}, WaitsToWrite(r)', Wants(q)' PROVE pc'[q].blk # pc'[r].blk
    <3>1. r # p /\ pc'[r] = pc[r] /\ WaitsToWrite(r) BY <2>4, <1>2 DEF WaitsToWrite
    <3>2. CASE q = p
      <4>1. call = "read" /\ pc'[q].blk = blk BY <3>2, <2>4, <1>2 DEF Wants
      <4> QED BY <4>1, <3>1
    <3>3. CASE q # p
      <4>1. pc'[q] = pc[q] /\ Wants(q) BY <3>3, <2>4, <1>2 DEF Wants
      <4> QED BY <4>1, <3>1 DEF CacheInv, CallsPending
    <3> QED BY <3>2, <3>3
  <2> QED BY <2>1, <2>2, <2>3, <2>4 DEF CallsPending
<1>9. RequestsPending'
  <2>1. ToSet(reqq') = ToSet(reqq) \cup {b} BY <1>1
  <2>2. \A c \in ToSet(reqq) : c # b /\ buf'[c] = buf[c] BY <1>1, Heads
  <2>3. \A c \in ToSet(reqq) : buf[c].op # "write" => Asked(c) /\ buf[c].pid \in Procs \ {p}
    BY DEF CacheInv, RequestsPending, Asked
  <2>4. \A c \in ToSet(reqq) : buf[c].op # "write" => Asked(c)' BY <2>2, <2>3, <1>2 DEF Asked
  <2>5. buf'[b].op # "write" => Asked(b)' BY <1>1, <1>2 DEF Asked
  <2>6. \A c, d \in ToSet(reqq') :
           buf'[c].op # "write" /\ buf'[d].op # "write" /\ buf'[c].pid = buf'[d].pid => c = d
    BY <2>1, <2>2, <2>3, <1>1 DEF CacheInv, RequestsPending
  <2> QED BY <2>1, <2>2, <2>4, <2>5, <2>6 DEF RequestsPending
<1>10. Delivered'
  <2> SUFFICES ASSUME NEW q \in Procs, pc'[q].at = "receive", pc'[q].call = "read", mail'[q] # None
               PROVE  Answered(q)'
    BY <1>2 DEF Delivered
  <2>1. q # p /\ pc'[q] = pc[q] /\ mail'[q] = mail[q] BY <1>2
  <2>2. Answered(q) /\ Wants(q) BY <2>1 DEF CacheInv, Delivered, Wants
  <2>3. PICK c : c = mail[q] OBVIOUS
  <2>4. c \in ToSet(cache) /\ buf[c].refcnt = 1 BY <2>2, <2>3 DEF Answered
  <2>5. c # b /\ c \in Buffers BY <2>4, Cached
  <2>6. wrote'[pc[q].blk] = wrote[pc[q].blk] BY <2>1, <2>2, <1>5, <1>7
  <2> QED BY <2>1, <2>2, <2>3, <2>4, <2>5, <2>6, <1>1 DEF Answered
<1>11. ReadsInFlight'
  <2>1. ASSUME Reading PROVE Head(reqq') = Head(reqq) /\ buf'[Head(reqq)].blk = buf[Head(reqq)].blk
    <3>1. reqq # <<>> /\ Head(reqq) \in Buffers /\ Head(reqq) \in ToSet(reqq) BY <2>1, Heads
    <3>2. reqq \in Seq(ToSet(reqq)) BY ThreeLists, ListedOnce DEF RdsInv
    <3>3. Head(reqq') = Head(reqq) BY <1>1, <3>1, <3>2
    <3> QED BY <3>1, <3>3, <1>1
  <2> QED BY <2>1, ReadsQuiet
<1> QED BY <1>6, <1>8, <1>9, <1>10, <1>11 DEF CacheInv

LEMMA MeetsNobody ==
    ASSUME NEW blk, Meets("write", blk), crossed' = {}
    PROVE  \A q \in Procs : Wants(q) => pc[q].blk # blk
BY DEF Meets, Wants

LEMMA MeetsNoWriter ==
    ASSUME NEW blk, Meets("read", blk), crossed' = {}
    PROVE  \A q \in Procs : WaitsToWrite(q) => pc[q].blk # blk
BY DEF Meets, WaitsToWrite

LEMMA WriteCachedCache ==
    ASSUME RdsInv, DataInv, CacheInv, NEW p \in Procs, NEW blk \in Uses[p], NEW data \in Data,
           WriteCached(p, blk, data), crossed' = {}
    PROVE  CacheInv'
<1>1. PICK i : i = FirstFor(cache, blk) OBVIOUS
<1>2. PICK b : b = cache[i] OBVIOUS
<1>3. Len(cache) \in Nat /\ OnThreeLists(reqq, cache, free) BY Cached
<1>4. i \in 1 .. Len(cache) BY <1>1, <1>3, FirstForIs DEF WriteCached, Reusable
<1>5. /\ b \in Buffers /\ b \in ToSet(cache) /\ b \notin ToSet(reqq)
      /\ ToSet(Append(reqq, b)) = ToSet(reqq) \cup {b} /\ ToSet(RemoveAt(cache, i)) = ToSet(cache) \ {b}
  <2>1. /\ cache[i] \in Buffers /\ cache[i] \in ToSet(cache) /\ cache[i] \notin ToSet(reqq)
        /\ ToSet(Append(reqq, cache[i])) = ToSet(reqq) \cup {cache[i]}
        /\ ToSet(RemoveAt(cache, i)) = ToSet(cache) \ {cache[i]}
    BY <1>3, <1>4, CachedTaken
  <2> QED BY <2>1, <1>2
<1>6. KeepsOrder(RemoveAt(cache, i)) /\ \A j \in 1 .. Len(RemoveAt(cache, i)) : RemoveAt(cache, i)[j] \in ToSet(cache) \ {b}
  BY <1>2, <1>4, RemovedKeepsOrder
<1>7. PICK call : call = "write" OBVIOUS
<1>8. /\ Queue(p, b, call, blk, data) /\ UNCHANGED <<comm, responses, disk>> /\ pc[p] = Idle
      /\ cache' = RemoveAt(cache, i) /\ buf[b].refcnt <= 0
  BY <1>1, <1>2, <1>7 DEF WriteCached, Reusable, Calls, net, server
<1>9. Writes(blk) = {} BY WritesAre DEF WriteCached
<1>10. InCache(blk) \subseteq {b} BY <1>1, <1>2, OneCopy DEF CacheInv
<1>11. pc[p].at # "receive" BY <1>8 DEF Idle
<1>12. \A q \in Procs : Wants(q) => pc[q].blk # blk BY MeetsNobody DEF WriteCached
<1> QED BY <1>5, <1>6, <1>7, <1>8, <1>9, <1>10, <1>11, <1>12, CacheQueued

LEMMA RequestCache ==
    ASSUME RdsInv, CacheInv, NEW p \in Procs, NEW call \in {"read", "write", "sync"}, NEW blk, NEW data,
           Request(p, call, blk, data), Sane', pc[p].at # "receive",
           call # "sync" => blk \in Uses[p] /\ Uncopied(blk), call = "sync" => blk = Unused,
           call = "write" => \A q \in Procs \ {p} : Wants(q) => pc[q].blk # blk,
           call = "read" => \A q \in Procs \ {p} : WaitsToWrite(q) => pc[q].blk # blk,
           UNCHANGED <<comm, responses, disk>>
    PROVE  CacheInv'
<1>1. OnThreeLists(reqq, cache, free) /\ Len(cache) \in Nat BY Cached
<1>2. PICK b \in Buffers : /\ Queue(p, b, call, blk, data) /\ b \notin ToSet(reqq)
                           /\ ToSet(Append(reqq, b)) = ToSet(reqq) \cup {b}
                           /\ KeepsOrder(cache') /\ \A i \in 1 .. Len(cache') : cache'[i] \in ToSet(cache) \ {b}
                           /\ ToSet(cache') = ToSet(cache) \ {b} /\ (b \in ToSet(cache) => buf[b].refcnt <= 0)
  <2>1. CASE free # <<>> /\ Queue(p, Head(free), call, blk, data) /\ cache' = cache
    <3>1. /\ Head(free) \in Buffers /\ Head(free) \notin ToSet(reqq) /\ Head(free) \notin ToSet(cache)
          /\ ToSet(Append(reqq, Head(free))) = ToSet(reqq) \cup {Head(free)}
      BY <2>1, <1>1, FreeTaken
    <3>2. KeepsOrder(cache') BY <2>1, SameOrder
    <3>3. \A i \in 1 .. Len(cache') : cache'[i] \in ToSet(cache) \ {Head(free)} BY <2>1, <3>1, Cached
    <3> QED BY <2>1, <3>1, <3>2, <3>3
  <2>2. CASE Oldest # 0 /\ Queue(p, cache[Oldest], call, blk, data) /\ cache' = RemoveAt(cache, Oldest)
    <3>1. Oldest \in 1 .. Len(cache) /\ buf[cache[Oldest]].refcnt <= 0 BY <2>2, <1>1, OldestIs
    <3>2. PICK i : i = Oldest OBVIOUS
    <3>3. /\ cache[i] \in Buffers /\ cache[i] \notin ToSet(reqq)
          /\ ToSet(Append(reqq, cache[i])) = ToSet(reqq) \cup {cache[i]}
          /\ ToSet(RemoveAt(cache, i)) = ToSet(cache) \ {cache[i]}
      BY <3>1, <3>2, <1>1, CachedTaken
    <3>4. /\ KeepsOrder(RemoveAt(cache, i))
          /\ \A j \in 1 .. Len(RemoveAt(cache, i)) : RemoveAt(cache, i)[j] \in ToSet(cache) \ {cache[i]}
      BY <3>1, <3>2, RemovedKeepsOrder
    <3> QED BY <2>2, <3>1, <3>2, <3>3, <3>4
  <2> QED BY <2>1, <2>2 DEF Request, Sane
<1>3. call # "sync" => blk \in Uses[p] /\ Writes(blk) = {} /\ InCache(blk) = {} BY DEF Uncopied
<1> QED BY <1>2, <1>3, CacheQueued

LEMMA AllocCache ==
    ASSUME RdsInv, CacheInv, NEW p \in Procs, NEW call \in {"read", "write", "sync"}, NEW blk, NEW data,
           Alloc(p, call, blk, data), Sane', pc[p] = Idle, call = "write" => data \in Data,
           call # "sync" => blk \in Uses[p] /\ Uncopied(blk), call = "sync" => blk = Unused,
           call = "write" => \A q \in Procs \ {p} : Wants(q) => pc[q].blk # blk,
           call = "read" => \A q \in Procs \ {p} : WaitsToWrite(q) => pc[q].blk # blk,
           UNCHANGED <<comm, responses, disk>>
    PROVE  CacheInv'
<1>1. CASE availsem.count > 0
  <2>1. Request(p, call, blk, data) /\ pc[p].at # "receive" BY <1>1 DEF Alloc, Idle
  <2> QED BY <2>1, RequestCache
<1>2. CASE ~(availsem.count > 0) BY <1>2, CacheWaits
<1> QED BY <1>1, <1>2

LEMMA GotCache ==
    ASSUME RdsInv, CacheInv, NEW p \in Procs, Got(p), Sane'
    PROVE  CacheInv'
<1>1. pc[p].at = "woken" /\ UNCHANGED <<comm, responses, disk>> BY DEF Got, net, server
<1>2. PICK call, blk, data : call = pc[p].call /\ blk = pc[p].blk /\ data = pc[p].data OBVIOUS
<1>3. call \in {"read", "write", "sync"} BY <1>1, <1>2 DEF RdsInv, RdsTypes, CallTypes
<1>4. /\ call # "sync" => blk \in Uses[p] /\ Uncopied(blk)
      /\ call = "sync" => blk = Unused
  BY <1>1, <1>2, <1>3 DEF CacheInv, CallsPending, Wants
<1>5. call = "write" => \A q \in Procs \ {p} : Wants(q) => pc[q].blk # blk
  BY <1>1, <1>2 DEF CacheInv, CallsPending, WaitsToWrite
<1>6. call = "read" => \A q \in Procs \ {p} : WaitsToWrite(q) => pc[q].blk # blk
  <2>1. call = "read" => Wants(p) BY <1>1, <1>2 DEF Wants
  <2> QED BY <2>1, <1>2 DEF CacheInv, CallsPending
<1>7. Request(p, call, blk, data) /\ pc[p].at # "receive" BY <1>1, <1>2 DEF Got
<1> QED BY <1>1, <1>3, <1>4, <1>5, <1>6, <1>7, RequestCache

(* A queued write is overwritten: nothing else has its block. *)
LEMMA RewriteCache ==
    ASSUME RdsInv, CacheInv, NEW p \in Procs, NEW blk \in Uses[p], NEW data \in Data, Rewrite(p, blk, data)
    PROVE  CacheInv'
<1>1. PICK b : b = reqq[QueuedWrite(blk)] OBVIOUS
<1>2. b \in Writes(blk) /\ b \in Buffers /\ b \in ToSet(reqq) BY <1>1, WritesAre DEF Rewrite
<1>3. /\ buf' = [buf EXCEPT ![b].data = data] /\ wrote' = [wrote EXCEPT ![blk] = data]
      /\ UNCHANGED <<reqq, cache, mail, pc, comm, responses, disk>>
  BY <1>1 DEF Rewrite, net, server
<1>4. buf \in [Buffers -> BufferFields] /\ wrote \in [Blocks -> Contained] BY DEF RdsInv, RdsTypes
<1>5. /\ \A c \in Buffers : /\ buf'[c].op = buf[c].op /\ buf'[c].blk = buf[c].blk
                            /\ buf'[c].valid = buf[c].valid /\ buf'[c].pid = buf[c].pid
      /\ \A c \in Buffers \ {b} : buf'[c] = buf[c]
      /\ \A x \in Blocks \ {blk} : wrote'[x] = wrote[x]
  BY <1>2, <1>3, <1>4 DEF BufferFields
<1>6. ToSet(reqq) \subseteq Buffers /\ ToSet(cache) \subseteq Buffers BY Heads
<1>7. \A x : Writes(x)' = Writes(x) /\ InCache(x)' = InCache(x) BY <1>3, <1>5, <1>6 DEF Writes, InCache
<1>8. \A c \in ToSet(cache) : c # b /\ buf'[c] = buf[c] BY <1>2, <1>5, Cached
<1>9. CacheCurrent'
  <2>1. KeepsOrder(cache') /\ CacheCurrent BY <1>3, SameOrder DEF CacheInv
  <2>2. ASSUME NEW i \in 1 .. Len(cache')
        PROVE  /\ buf'[cache'[i]] = buf[cache'[i]]
               /\ buf[cache'[i]].valid => /\ wrote'[buf[cache'[i]].blk] = wrote[buf[cache'[i]].blk]
                                          /\ \A x : x = buf[cache'[i]].blk => Writes(x)' = {}
    <3>1. PICK c, x : c = cache'[i] /\ x = buf[c].blk OBVIOUS
    <3>2. c = cache[i] /\ i \in 1 .. Len(cache) /\ c \in ToSet(cache) /\ c \in Buffers BY <3>1, <1>3, Cached
    <3>3. ASSUME buf[c].valid PROVE wrote'[x] = wrote[x] /\ Writes(x)' = {}
      <4>1. buf[c].op = "write" /\ Writes(x) = {} BY <3>1, <3>2, <3>3 DEF CacheInv, CacheCurrent
      <4>2. x \in Blocks BY <4>1, <3>1, <3>2, <1>4 DEF BufferFields
      <4> QED BY <4>1, <4>2, <1>2, <1>5, <1>7
    <3> QED BY <3>1, <3>2, <3>3, <1>8
  <2> QED BY <2>1, <2>2, CurrentStays
<1>10. ASSUME NEW q \in Procs, Wants(q) PROVE pc[q].blk \in Blocks \ {blk}
  <2>1. pc[q].blk \in Blocks /\ Uncopied(pc[q].blk) BY <1>10, BlockNumbers DEF CacheInv, CallsPending
  <2>2. ~Uncopied(blk) BY <1>2 DEF Uncopied
  <2> QED BY <2>1, <2>2
<1>11. CallsPending' BY <1>3, <1>7 DEF CacheInv, CallsPending, Wants, WaitsToWrite, Uncopied
<1>12. RequestsPending' BY <1>3, <1>5, <1>6 DEF CacheInv, RequestsPending, Asked
<1>13. Delivered'
  <2> SUFFICES ASSUME NEW q \in Procs, pc[q].at = "receive", pc[q].call = "read", mail[q] # None
               PROVE  Answered(q)'
    BY <1>3 DEF CacheInv, Delivered
  <2>1. Answered(q) /\ Wants(q) BY DEF CacheInv, Delivered, Wants
  <2> QED BY <2>1, <1>3, <1>5, <1>8, <1>10 DEF Answered
<1>14. ReadsInFlight' BY <1>3, <1>5, Heads, ReadsQuiet
<1> QED BY <1>9, <1>11, <1>12, <1>13, <1>14 DEF CacheInv
----------------------------------------------------------------------------
(* The driver's process has done with a request. *)
LEMMA WokenToWant ==
    ASSUME RdsInv, MakeAvailable
    PROVE  \A p \in Procs : /\ Wants(p)' <=> Wants(p)
                            /\ WaitsToWrite(p)' <=> WaitsToWrite(p)
                            /\ pc'[p].at = "receive" <=> pc[p].at = "receive"
                            /\ pc'[p].call = pc[p].call /\ pc'[p].blk = pc[p].blk /\ pc'[p].data = pc[p].data
<1>1. \A p \in Procs : /\ pc'[p] = pc[p] \/ (pc[p].at = "wait" /\ pc'[p].at = "woken")
                       /\ pc'[p].call = pc[p].call /\ pc'[p].blk = pc[p].blk /\ pc'[p].data = pc[p].data
  BY MakeAvailableAddsToken DEF RdsInv, RdsTypes
<1> QED BY <1>1 DEF Wants, WaitsToWrite

LEMMA CallsWoken ==
    ASSUME RdsInv, CacheInv, MakeAvailable,
           \A q \in Procs : Wants(q) => \A x : x = pc[q].blk => Writes(x)' = {} /\ InCache(x)' = {}
    PROVE  CallsPending'
<1>1. ASSUME NEW q \in Procs, Wants(q)' PROVE (pc[q].blk \in Uses[q] /\ Uncopied(pc[q].blk))'
  <2>1. PICK x : x = pc[q].blk OBVIOUS
  <2>2. Wants(q) /\ pc'[q].blk = x BY <1>1, <2>1, WokenToWant
  <2>3. x \in Uses[q] /\ Writes(x)' = {} /\ InCache(x)' = {} BY <2>1, <2>2 DEF CacheInv, CallsPending
  <2>4. (Uncopied(pc[q].blk))' BY <2>2, <2>3 DEF Uncopied, Writes, InCache
  <2> QED BY <2>2, <2>3, <2>4
<1>2. ASSUME NEW r \in Procs, NEW q \in Procs \ {r}, WaitsToWrite(r)', Wants(q)' PROVE pc'[q].blk # pc'[r].blk
  <2>1. WaitsToWrite(r) /\ Wants(q) /\ pc'[r].blk = pc[r].blk /\ pc'[q].blk = pc[q].blk BY <1>2, WokenToWant
  <2> QED BY <2>1 DEF CacheInv, CallsPending
<1> QED BY <1>1, <1>2, WokenToWant DEF CacheInv, CallsPending

LEMMA SentIs ==
    ASSUME CacheInv, NEW p \in Procs, NEW msg, mail[p] = None, mail' = Sent(p, msg)
    PROVE  /\ mail'[p] = msg /\ \A q \in Procs \ {p} : mail'[q] = mail[q]
           /\ mail' = [q \in Procs |-> mail'[q]]
<1>1. mail = [q \in Procs |-> mail[q]] BY DEF CacheInv, Delivered
<1>2. mail' = [mail EXCEPT ![p] = IF @ = None THEN msg ELSE @] BY DEF Sent
<1> QED BY <1>1, <1>2

(* Those behind the request at the head wait as before. *)
LEMMA RequestsBehind ==
    ASSUME RdsInv, CacheInv, MakeAvailable, reqq # <<>>, reqq' = Tail(reqq),
           \A c \in Buffers \ {Head(reqq)} :
              buf'[c].op = buf[c].op /\ buf'[c].blk = buf[c].blk /\ buf'[c].valid = buf[c].valid /\ buf'[c].pid = buf[c].pid,
           \A q \in Procs : mail'[q] = mail[q] \/ (buf[Head(reqq)].op # "write" /\ q = buf[Head(reqq)].pid)
    PROVE  RequestsPending'
<1>1. PICK b : b = Head(reqq) OBVIOUS
<1>2. ToSet(reqq') = ToSet(reqq) \ {b} /\ b \in ToSet(reqq) BY <1>1, HeadMoves DEF RdsInv
<1>3. \A c \in ToSet(reqq') : /\ c \in Buffers /\ c \in ToSet(reqq) /\ c # b
                              /\ buf'[c].op = buf[c].op /\ buf'[c].blk = buf[c].blk
                              /\ buf'[c].valid = buf[c].valid /\ buf'[c].pid = buf[c].pid
  BY <1>1, <1>2, Heads
<1>4. ASSUME NEW c \in ToSet(reqq'), buf'[c].op # "write" PROVE Asked(c)'
  <2>1. c \in ToSet(reqq) /\ buf[c].op # "write" /\ Asked(c) /\ c # b
    BY <1>3, <1>4 DEF CacheInv, RequestsPending
  <2>2. PICK q : q = buf[c].pid OBVIOUS
  <2>3. q \in Procs /\ buf'[c].pid = q BY <1>3, <2>1, <2>2 DEF Asked
  <2>4. mail'[q] = mail[q]
    <3>1. ~(buf[b].op # "write" /\ q = buf[b].pid) BY <1>2, <2>1, <2>2 DEF CacheInv, RequestsPending
    <3> QED BY <3>1, <1>1, <2>3
  <2>5. /\ pc'[q].at = "receive" <=> pc[q].at = "receive"
        /\ pc'[q].call = pc[q].call /\ pc'[q].blk = pc[q].blk
    BY <2>3, WokenToWant
  <2> QED BY <1>3, <2>1, <2>2, <2>3, <2>4, <2>5 DEF Asked
<1>5. \A c, d \in ToSet(reqq') :
         buf'[c].op # "write" /\ buf'[d].op # "write" /\ buf'[c].pid = buf'[d].pid => c = d
  BY <1>3 DEF CacheInv, RequestsPending
<1> QED BY <1>4, <1>5 DEF RequestsPending

LEMMA NoAnswers ==
    ASSUME ExchangeInv, comm[RDSPROC] = NoComm
    PROVE  \A r \in responses : r.type # "read"
BY NoCommIs DEF ExchangeInv, InFlightInv, ResponsesInFlight, Active, ToDriver

LEMMA StartReadCache ==
    ASSUME RdsInv, ExchangeInv, CacheInv, StartRead
    PROVE  CacheInv'
<1>1. /\ UNCHANGED <<buf, reqq, cache, mail, pc, wrote, responses>> /\ comm[RDSPROC] = NoComm
      /\ Exchange(RDSPROC, "read", buf[Head(reqq)].blk, None)
  BY DEF StartRead, TakesRequest, lists, net, aux
<1>2. comm'[RDSPROC].blk = buf[Head(reqq)].blk BY <1>1, NoCommIs DEF Exchange, RdsInv, RdsTypes, CommTypes
<1>3. ReadsInFlight' BY <1>1, <1>2, NoAnswers DEF ReadsInFlight
<1> QED BY <1>1, <1>3, CacheQuiet

LEMMA StartWriteCache ==
    ASSUME RdsInv, ExchangeInv, DataInv, CacheInv, StartWrite
    PROVE  CacheInv'
<1>1. PICK b, x : b = Head(reqq) /\ x = buf[b].blk OBVIOUS
<1>2. /\ TakesRequest /\ buf[b].op = "write" /\ comm[RDSPROC] = NoComm
      /\ reqq' = Tail(reqq) /\ buf' = [buf EXCEPT ![b].refcnt = 0] /\ MakeAvailable
      /\ cache' = <<b>> \o cache /\ UNCHANGED <<wrote, mail, responses>>
  BY <1>1 DEF StartWrite, TakesRequest, aux, net
<1>3. reqq # <<>> /\ b \in Buffers /\ b \in ToSet(reqq) /\ x \in Blocks
  BY <1>1, <1>2, TakesRequestIs, Heads
<1>4. /\ \A c \in Buffers \ {b} : buf'[c] = buf[c]
      /\ \A c \in Buffers : /\ buf'[c].op = buf[c].op /\ buf'[c].blk = buf[c].blk /\ buf'[c].data = buf[c].data
                            /\ buf'[c].valid = buf[c].valid /\ buf'[c].pid = buf[c].pid
      /\ buf'[b].refcnt = 0
  BY <1>2, <1>3 DEF RdsInv, RdsTypes, BufferFields
<1>5. \A y : Writes(y)' = Writes(y) \ {b} BY <1>1, <1>2, <1>3, <1>4, HeadTaken
<1>6. Writes(x) = {b} /\ buf[b].data = wrote[x]
  <2>1. b \in Writes(x) BY <1>1, <1>2, <1>3 DEF Writes
  <2> QED BY <2>1, <1>3 DEF DataInv, WritesQueued
<1>7. InCache(x) = {}
  <2> SUFFICES ASSUME NEW c \in InCache(x) PROVE FALSE OBVIOUS
  <2>1. PICK i \in 1 .. Len(cache) : cache[i] = c /\ buf[c].valid /\ buf[c].blk = x BY Cached DEF InCache
  <2>2. Writes(x) = {} BY <2>1 DEF CacheInv, CacheCurrent
  <2> QED BY <2>2, <1>6
<1>8. \A c \in ToSet(cache) : c # b /\ c \in Buffers /\ buf'[c] = buf[c] BY <1>3, <1>4, Cached
<1>9. ToSet(cache') = ToSet(cache) \cup {b} BY <1>1, <1>2, <1>3, HeadMoves DEF RdsInv
<1>10. CacheCurrent'
  <2>1. CacheCurrent /\ buf'[b].blk = x BY <1>1, <1>3, <1>4 DEF CacheInv
  <2>2. /\ buf'[b].op = "write" /\ buf'[b].refcnt = 0 /\ buf'[b].data = wrote[x]
        /\ Writes(x)' = {}
    BY <1>2, <1>3, <1>4, <1>5, <1>6
  <2>3. \A y : Writes(y)' \subseteq Writes(y) BY <1>5
  <2> QED BY <2>1, <2>2, <2>3, <1>2, <1>7, <1>8, CurrentAdds
<1>11. CallsPending'
  <2>1. ASSUME NEW q \in Procs, Wants(q), NEW y, y = pc[q].blk PROVE Writes(y)' = {} /\ InCache(y)' = {}
    <3>1. Writes(y) = {} /\ InCache(y) = {} BY <2>1 DEF CacheInv, CallsPending, Uncopied
    <3>2. y # x BY <3>1, <1>6
    <3>3. InCache(y)' = {} BY <3>1, <3>2, <1>1, <1>3, <1>4, <1>8, <1>9 DEF InCache
    <3> QED BY <3>1, <3>3, <1>5
  <2> QED BY <2>1, <1>2, CallsWoken
<1>12. RequestsPending' BY <1>2, <1>3, <1>4, RequestsBehind
<1>13. Delivered'
  <2> SUFFICES ASSUME NEW q \in Procs, pc'[q].at = "receive", pc'[q].call = "read", mail'[q] # None
               PROVE  Answered(q)'
    BY <1>2 DEF CacheInv, Delivered
  <2>1. /\ pc[q].at = "receive" /\ pc[q].call = "read" /\ pc'[q].blk = pc[q].blk
    BY <1>2, WokenToWant
  <2>2. Answered(q) BY <2>1, <1>2 DEF CacheInv, Delivered
  <2> QED BY <2>1, <2>2, <1>2, <1>8, <1>9 DEF Answered
<1>14. ReadsInFlight'
  <2>1. comm'[RDSPROC].type = "write"
    BY <1>1, <1>2, NoCommIs DEF StartWrite, Exchange, RdsInv, RdsTypes, CommTypes
  <2> QED BY <2>1, <1>2, NoAnswers DEF ReadsInFlight, Reading
<1> QED BY <1>10, <1>11, <1>12, <1>13, <1>14 DEF CacheInv

LEMMA DoSyncCache ==
    ASSUME RdsInv, ExchangeInv, CacheInv, DoSync
    PROVE  CacheInv'
<1>1. PICK b, p : b = Head(reqq) /\ p = buf[b].pid OBVIOUS
<1>2. /\ TakesRequest /\ buf[b].op = "sync" /\ reqq' = Tail(reqq) /\ MakeAvailable
      /\ mail' = Sent(p, "OK") /\ comm[RDSPROC] = NoComm
      /\ UNCHANGED <<buf, cache, wrote, comm, responses, disk>>
  BY <1>1 DEF DoSync, TakesRequest, aux, net, server
<1>3. reqq # <<>> /\ ~Reading /\ b \in ToSet(reqq) BY <1>1, <1>2, TakesRequestIs, Heads
<1>4. p \in Procs /\ pc[p].call = "sync" /\ mail[p] = None
  BY <1>1, <1>2, <1>3 DEF CacheInv, RequestsPending, Asked
<1>5. /\ \A q \in Procs \ {p} : mail'[q] = mail[q]
      /\ mail' = [q \in Procs |-> mail'[q]]
  <2>1. PICK msg : msg = "OK" OBVIOUS
  <2>2. mail' = Sent(p, msg) BY <1>2, <2>1
  <2> QED BY <2>2, <1>4, SentIs
<1>6. \A x : Writes(x)' = Writes(x) /\ InCache(x)' = InCache(x)
  <2>1. \A x : Writes(x)' = Writes(x) \ {b} BY <1>1, <1>2, <1>3, HeadTaken
  <2>2. \A x : b \notin Writes(x) BY <1>2 DEF Writes
  <2>3. \A x : InCache(x)' = InCache(x) BY <1>2 DEF InCache
  <2> QED BY <2>1, <2>2, <2>3
<1>7. CacheCurrent' BY <1>2, <1>6 DEF CacheInv, CacheCurrent
<1>8. CallsPending'
  <2>1. \A q \in Procs : Wants(q) => \A x : x = pc[q].blk => Writes(x)' = {} /\ InCache(x)' = {}
    BY <1>6 DEF CacheInv, CallsPending, Uncopied
  <2> QED BY <2>1, <1>2, CallsWoken
<1>9. RequestsPending' BY <1>1, <1>2, <1>3, <1>5, RequestsBehind
<1>10. Delivered'
  <2> SUFFICES ASSUME NEW q \in Procs, pc'[q].at = "receive", pc'[q].call = "read", mail'[q] # None
               PROVE  Answered(q)'
    BY <1>5 DEF Delivered
  <2>1. /\ pc[q].at = "receive" /\ pc[q].call = "read" /\ pc'[q].blk = pc[q].blk
    BY <1>2, WokenToWant
  <2>2. mail'[q] = mail[q] BY <2>1, <1>4, <1>5
  <2>3. Answered(q) BY <2>1, <2>2 DEF CacheInv, Delivered
  <2> QED BY <2>1, <2>2, <2>3, <1>2 DEF Answered
<1>11. ReadsInFlight' BY <1>2, <1>3, NoAnswers DEF ReadsInFlight, Reading
<1> QED BY <1>7, <1>8, <1>9, <1>10, <1>11 DEF CacheInv

(* The answer is what was written last: nobody has written the block since *)
(* the request was queued, and the server has no older data.               *)
LEMMA EndReadCache ==
    ASSUME RdsInv, ExchangeInv, DataInv, CacheInv, NEW r \in responses, EndRead(r)
    PROVE  CacheInv'
<1>1. PICK b, p, x : b = Head(reqq) /\ p = buf[b].pid /\ x = buf[b].blk OBVIOUS
<1>2. /\ Reading /\ r.type = "read" /\ responses' = responses \ {r}
      /\ comm' = [comm EXCEPT ![RDSPROC] = NoComm] /\ MakeAvailable
      /\ reqq' = Tail(reqq) /\ cache' = <<b>> \o cache
      /\ buf' = [buf EXCEPT ![b].data = r.data, ![b].refcnt = 1]
      /\ mail' = Sent(p, b) /\ UNCHANGED <<wrote, disk>>
  BY <1>1 DEF EndRead, Accepted, Reading, server
<1>3. buf[b].op = "read" /\ reqq # <<>> /\ b \in Buffers /\ b \in ToSet(reqq)
  BY <1>1, <1>2, Heads DEF DataInv, HeadIsRead
<1>4. /\ p \in Procs /\ pc[p].at = "receive" /\ pc[p].call = "read" /\ pc[p].blk = x
      /\ mail[p] = None /\ ~buf[b].valid
  BY <1>1, <1>3 DEF CacheInv, RequestsPending, Asked
<1>5. x \in Uses[p] /\ x \in Blocks /\ Writes(x) = {} /\ InCache(x) = {}
  BY <1>4, BlockNumbers DEF CacheInv, CallsPending, Wants, Uncopied
<1>6. r.data = wrote[x]
  <2>1. comm[RDSPROC].blk = x /\ r.data = disk[x] BY <1>1, <1>2 DEF CacheInv, ReadsInFlight
  <2>2. ~Writing(x) BY <1>2 DEF Writing, Reading
  <2> QED BY <2>1, <2>2, <1>5 DEF DataInv, WritesDone
<1>7. /\ \A c \in Buffers \ {b} : buf'[c] = buf[c]
      /\ buf'[b].op = "read" /\ buf'[b].blk = x /\ buf'[b].data = r.data
      /\ ~buf'[b].valid /\ buf'[b].refcnt = 1 /\ buf'[b].pid = p
  <2>1. buf \in [Buffers -> BufferFields] BY DEF RdsInv, RdsTypes
  <2>2. PICK f : f = [buf[b] EXCEPT !.data = r.data] OBVIOUS
  <2>3. buf'[b] = [f EXCEPT !.refcnt = 1] BY <2>1, <2>2, <1>2, <1>3
  <2>4. f.op = "read" /\ f.blk = x /\ f.data = r.data /\ ~f.valid /\ f.pid = p /\ DOMAIN f = DOMAIN buf[b]
    BY <2>1, <2>2, <1>1, <1>3, <1>4 DEF BufferFields
  <2>5. f = [op |-> f.op, refcnt |-> f.refcnt, blk |-> f.blk, valid |-> f.valid, pid |-> f.pid, data |-> f.data]
    BY <2>1, <2>2, <1>3 DEF BufferFields
  <2>6. /\ buf'[b].op = "read" /\ buf'[b].blk = x /\ buf'[b].data = r.data
        /\ ~buf'[b].valid /\ buf'[b].refcnt = 1 /\ buf'[b].pid = p
    BY <2>3, <2>4, <2>5
  <2>7. \A c \in Buffers \ {b} : buf'[c] = buf[c] BY <2>1, <1>2
  <2> QED BY <2>6, <2>7
<1>8. \A c \in ToSet(cache) : c # b /\ c \in Buffers /\ buf'[c] = buf[c] BY <1>3, <1>7, Cached
<1>9. ToSet(cache') = ToSet(cache) \cup {b} BY <1>1, <1>2, <1>3, HeadMoves DEF RdsInv
<1>10. \A y : Writes(y)' = Writes(y)
  <2>1. \A y : Writes(y)' = Writes(y) \ {b} BY <1>1, <1>2, <1>3, <1>7, HeadTaken
  <2>2. \A y : b \notin Writes(y) BY <1>3 DEF Writes
  <2> QED BY <2>1, <2>2
<1>11. \A y : InCache(y)' = InCache(y) BY <1>7, <1>8, <1>9 DEF InCache
<1>12. CacheCurrent'
  <2>1. CacheCurrent /\ \A y : Writes(y)' \subseteq Writes(y) BY <1>10 DEF CacheInv
  <2> QED BY <2>1, <1>2, <1>5, <1>7, <1>8, CurrentAdds
<1>13. CallsPending'
  <2>1. \A q \in Procs : Wants(q) => \A y : y = pc[q].blk => Writes(y)' = {} /\ InCache(y)' = {}
    BY <1>10, <1>11 DEF CacheInv, CallsPending, Uncopied
  <2> QED BY <2>1, <1>2, CallsWoken
<1>14. /\ mail'[p] = b /\ \A q \in Procs \ {p} : mail'[q] = mail[q]
       /\ mail' = [q \in Procs |-> mail'[q]]
  BY <1>2, <1>4, SentIs
<1>15. RequestsPending' BY <1>1, <1>2, <1>3, <1>7, <1>14, RequestsBehind
<1>16. Delivered'
  <2> SUFFICES ASSUME NEW q \in Procs, pc'[q].at = "receive", pc'[q].call = "read", mail'[q] # None
               PROVE  Answered(q)'
    BY <1>14 DEF Delivered
  <2>1. /\ pc[q].at = "receive" /\ pc[q].call = "read" /\ pc'[q].blk = pc[q].blk
    BY <1>2, WokenToWant
  <2>2. CASE q = p BY <2>1, <2>2, <1>2, <1>4, <1>6, <1>7, <1>9, <1>14 DEF Answered
  <2>3. CASE q # p
    <3>1. mail'[q] = mail[q] BY <2>3, <1>14
    <3>2. Answered(q) BY <2>1, <3>1 DEF CacheInv, Delivered
    <3> QED BY <2>1, <3>1, <3>2, <1>2, <1>8, <1>9 DEF Answered
  <2> QED BY <2>2, <2>3
<1>17. ReadsInFlight'
  <2>1. comm'[RDSPROC].type = "none" BY <1>2, NoCommIs DEF RdsInv, RdsTypes, CommTypes
  <2>2. \A n \in responses' : n.type # "read"
    BY <1>2 DEF ExchangeInv, InFlightInv, ResponsesInFlight, ToDriver
  <2> QED BY <2>1, <2>2 DEF ReadsInFlight, Reading
<1> QED BY <1>12, <1>13, <1>15, <1>16, <1>17 DEF CacheInv

LEMMA EndWriteCache ==
    ASSUME RdsInv, ExchangeInv, CacheInv, NEW r \in responses, EndWrite(r)
    PROVE  CacheInv'
<1>1. /\ comm[RDSPROC].type = "write" /\ comm' = [comm EXCEPT ![RDSPROC] = NoComm]
      /\ responses' \subseteq responses /\ UNCHANGED <<buf, reqq, cache, mail, pc, wrote>>
  BY DEF EndWrite, lists, aux
<1>2. comm'[RDSPROC].type = "none" BY <1>1, NoCommIs DEF RdsInv, RdsTypes, CommTypes
<1>3. \A n \in responses' : n.type # "read"
  BY <1>1 DEF ExchangeInv, InFlightInv, ResponsesInFlight, ToDriver
<1>4. ReadsInFlight' BY <1>2, <1>3 DEF ReadsInFlight, Reading
<1> QED BY <1>1, <1>4, CacheQuiet

(* A read returns, or a sync does. *)
LEMMA ReceivedCache ==
    ASSUME RdsInv, CacheInv, NEW p \in Procs, Received(p), Sane'
    PROVE  /\ CacheInv'
           /\ \/ UNCHANGED returned
              \/ /\ pc[p].blk \in Uses[p]
                 /\ returned' = [returned EXCEPT ![p] = [blk |-> pc[p].blk, data |-> wrote[pc[p].blk]]]
<1>1. PICK b : b = mail[p] OBVIOUS
<1>2. /\ pc[p].at = "receive" /\ mail[p] # None /\ mail' = [mail EXCEPT ![p] = None]
      /\ pc' = [pc EXCEPT ![p] = Idle]
      /\ UNCHANGED <<reqq, cache, wrote, comm, responses, disk>>
      /\ IF pc[p].call = "sync" THEN UNCHANGED <<buf, returned>>
         ELSE /\ buf' = [buf EXCEPT ![b].refcnt = @ - 1]
              /\ returned' = [returned EXCEPT ![p] = [blk |-> pc[p].blk, data |-> buf[b].data]]
  BY <1>1 DEF Received, Sane, net, server
<1>3. pc[p].call \in {"read", "sync"}
  BY <1>2 DEF CacheInv, CallsPending, RdsInv, RdsTypes, CallTypes
<1>4. ASSUME pc[p].call = "read"
      PROVE  /\ b \in ToSet(cache) /\ b \in Buffers /\ b \notin ToSet(reqq) /\ ~buf[b].valid
             /\ buf[b].blk = pc[p].blk /\ buf[b].data = wrote[pc[p].blk] /\ pc[p].blk \in Uses[p] /\ buf[b].pid = p
  <2>1. Answered(p) /\ Wants(p) BY <1>2, <1>4 DEF CacheInv, Delivered, Wants
  <2> QED BY <2>1, <1>1, Cached DEF Answered, CacheInv, CallsPending
<1>5. /\ \A c \in Buffers : pc[p].call = "sync" \/ c # b => buf'[c] = buf[c]
      /\ \A c \in Buffers : /\ buf'[c].op = buf[c].op /\ buf'[c].blk = buf[c].blk /\ buf'[c].data = buf[c].data
                            /\ buf'[c].valid = buf[c].valid /\ buf'[c].pid = buf[c].pid
  BY <1>2 DEF RdsInv, RdsTypes, BufferFields
<1>6. ToSet(reqq) \subseteq Buffers /\ ToSet(cache) \subseteq Buffers BY Heads
<1>7. \A x : Writes(x)' = Writes(x) /\ InCache(x)' = InCache(x) BY <1>2, <1>5, <1>6 DEF Writes, InCache
<1>8. /\ \A q \in Procs \ {p} : pc'[q] = pc[q] /\ mail'[q] = mail[q]
      /\ pc'[p].at = "user" /\ pc'[p].call = "none" /\ mail' = [q \in Procs |-> mail'[q]]
  <2>1. mail = [q \in Procs |-> mail[q]] BY DEF CacheInv, Delivered
  <2>2. pc \in [Procs -> CallsInProgress] BY DEF RdsInv, RdsTypes, CallTypes
  <2> QED BY <2>1, <2>2, <1>2 DEF Idle
<1>9. CacheCurrent'
  <2>1. KeepsOrder(cache') /\ CacheCurrent BY <1>2, SameOrder DEF CacheInv
  <2>2. ASSUME NEW i \in 1 .. Len(cache')
        PROVE  /\ buf'[cache'[i]].blk = buf[cache'[i]].blk
               /\ buf'[cache'[i]].valid =>
                     /\ buf[cache'[i]].valid /\ buf'[cache'[i]] = buf[cache'[i]]
                     /\ \A x : x = buf[cache'[i]].blk => Writes(x)' = {}
    <3>1. PICK c, x : c = cache'[i] /\ x = buf[c].blk OBVIOUS
    <3>2. c = cache[i] /\ i \in 1 .. Len(cache) /\ c \in Buffers BY <3>1, <1>2, Cached
    <3>3. ASSUME buf'[c].valid PROVE buf[c].valid /\ buf'[c] = buf[c] /\ Writes(x)' = {}
      <4>1. buf[c].valid BY <3>2, <3>3, <1>5
      <4>2. Writes(x) = {} BY <3>1, <3>2, <4>1 DEF CacheInv, CacheCurrent
      <4>3. pc[p].call = "sync" \/ c # b BY <4>1, <1>3, <1>4
      <4> QED BY <3>2, <4>1, <4>2, <4>3, <1>5, <1>7
    <3> QED BY <3>1, <3>2, <3>3, <1>5
  <2> QED BY <2>1, <2>2, <1>2, CurrentStays
<1>10. CallsPending'
  <2>1. ASSUME NEW q \in Procs, Wants(q)' PROVE (pc[q].blk \in Uses[q] /\ Uncopied(pc[q].blk))'
    <3>1. q # p /\ Wants(q) /\ pc'[q] = pc[q] BY <2>1, <1>8 DEF Wants
    <3>2. PICK x : x = pc[q].blk OBVIOUS
    <3>3. x \in Uses[q] /\ Writes(x)' = {} /\ InCache(x)' = {}
      BY <3>1, <3>2, <1>7 DEF CacheInv, CallsPending, Uncopied
    <3>4. (Uncopied(pc[q].blk))' BY <3>1, <3>2, <3>3 DEF Uncopied, Writes, InCache
    <3> QED BY <3>1, <3>2, <3>3, <3>4
  <2>2. \A q \in Procs : WaitsToWrite(q)' => pc'[q].data \in Data BY <1>8 DEF CacheInv, CallsPending, WaitsToWrite
  <2>3. \A q \in Procs : /\ pc'[q].at = "receive" => pc'[q].call # "write"
                         /\ pc'[q].call = "sync" => pc'[q].blk = Unused
    BY <1>8 DEF CacheInv, CallsPending
  <2>4. ASSUME NEW r \in Procs, NEW q \in Procs \ {r}, WaitsToWrite(r)', Wants(q)' PROVE pc'[q].blk # pc'[r].blk
    <3>1. r # p /\ pc'[r] = pc[r] /\ WaitsToWrite(r) /\ q # p /\ pc'[q] = pc[q] /\ Wants(q)
      BY <2>4, <1>8 DEF WaitsToWrite, Wants
    <3> QED BY <3>1 DEF CacheInv, CallsPending
  <2> QED BY <2>1, <2>2, <2>3, <2>4 DEF CallsPending
<1>11. RequestsPending'
  <2>1. ASSUME NEW c \in ToSet(reqq), buf[c].op # "write" PROVE Asked(c)'
    <3>1. Asked(c) /\ c \in Buffers BY <2>1, <1>6 DEF CacheInv, RequestsPending
    <3>2. buf[c].pid \in Procs \ {p} BY <3>1, <1>2 DEF Asked
    <3> QED BY <3>1, <3>2, <1>5, <1>8 DEF Asked
  <2> QED BY <2>1, <1>2, <1>5, <1>6 DEF CacheInv, RequestsPending
<1>12. Delivered'
  <2> SUFFICES ASSUME NEW q \in Procs, pc'[q].at = "receive", pc'[q].call = "read", mail'[q] # None
               PROVE  Answered(q)'
    BY <1>8 DEF Delivered
  <2>1. q # p /\ pc'[q] = pc[q] /\ mail'[q] = mail[q] BY <1>8
  <2>2. Answered(q) /\ Wants(q) BY <2>1 DEF CacheInv, Delivered, Wants
  <2>3. PICK c : c = mail[q] OBVIOUS
  <2>4. c \in ToSet(cache) /\ c \in Buffers /\ buf[c].pid = q
    BY <2>2, <2>3, <1>6 DEF Answered
  <2>5. pc[p].call = "read" => c # b BY <2>1, <2>4, <1>4
  <2>6. buf'[c] = buf[c] BY <2>4, <2>5, <1>3, <1>5
  <2> QED BY <2>1, <2>2, <2>3, <2>6, <1>2 DEF Answered
<1>13. ReadsInFlight' BY <1>2, <1>5, Heads, ReadsQuiet
<1>14. CacheInv' BY <1>9, <1>10, <1>11, <1>12, <1>13 DEF CacheInv
<1> QED BY <1>2, <1>3, <1>4, <1>14

LEMMA CloseCache ==
    ASSUME RdsInv, CacheInv, NEW p \in Procs, Close(p)
    PROVE  CacheInv'
<1>1. /\ \A q \in Procs : pc[q] = Idle
      /\ reqq = <<>> /\ cache' = <<>> /\ UNCHANGED <<reqq, mail, pc, responses, disk>>
      /\ \E c : comm' = [comm EXCEPT ![p] = c]
  BY DEF Close, Exchange, net, server
<1>2. CacheCurrent' BY <1>1 DEF CacheCurrent
<1>3. CallsPending' BY <1>1 DEF CallsPending, Wants, WaitsToWrite, Idle
<1>4. ToSet(reqq') = {} BY <1>1 DEF ToSet
<1>5. RequestsPending' BY <1>4 DEF RequestsPending
<1>6. Delivered' BY <1>1 DEF CacheInv, Delivered, Idle
<1>7. comm'[RDSPROC] = comm[RDSPROC] BY <1>1, NoCommIs DEF RdsInv, RdsTypes, CommTypes
<1>8. ReadsInFlight' BY <1>1, <1>7, Heads, ReadsQuiet
<1> QED BY <1>2, <1>3, <1>5, <1>6, <1>8 DEF CacheInv

(* The server answers a read with what is on the disk, which is open. *)
LEMMA HandleCache ==
    ASSUME RdsInv, ExchangeInv, CacheInv, NEW m \in requests, Handle(m)
    PROVE  CacheInv'
<1>1. UNCHANGED <<buf, reqq, cache, mail, pc, comm, wrote>> BY DEF Handle, lists, aux
<1>2. CASE Ignored(m)
  <2>1. UNCHANGED <<responses, disk>> BY <1>2 DEF Handle, server
  <2>2. ReadsInFlight' BY <1>1, <2>1, ReadsQuiet
  <2> QED BY <1>1, <2>2, CacheQuiet
<1>3. CASE ~Ignored(m) /\ m.type = "write"
  <2>1. comm[RDSPROC].type = "write" BY <1>3, AnsweredIs DEF ToDriver, OfDriver
  <2>2. \A n \in responses : n.type # "read"
    BY <2>1 DEF ExchangeInv, InFlightInv, ResponsesInFlight, ToDriver
  <2>3. responses' = responses \cup {Status(m)} BY <1>3 DEF Handle, Response
  <2>4. ReadsInFlight' BY <1>1, <1>3, <2>1, <2>2, <2>3 DEF ReadsInFlight, Reading, Status
  <2> QED BY <1>1, <2>4, CacheQuiet
<1>4. CASE ~Ignored(m) /\ m.type # "write"
  <2>1. disk' = disk /\ responses' = responses \cup {Response(m)}
    BY <1>4 DEF Handle, Serve, Rdopen, Rdclose, Rdwrite
  <2>2. Response(m).type = "read" => Response(m).data = disk[comm[RDSPROC].blk]
    <3>1. CASE m.type = "read"
      <4>1. sopen /\ m.blk = comm[RDSPROC].blk BY <3>1, <1>4, AnsweredIs DEF ToDriver, OfDriver
      <4>2. Response(m) = [Status(m) EXCEPT !.data = disk[m.blk]] BY <3>1, <4>1 DEF Response, Rdread
      <4> QED BY <4>1, <4>2 DEF Status
    <3>2. CASE m.type # "read" BY <3>2 DEF Response, Status
    <3> QED BY <3>1, <3>2
  <2>3. ReadsInFlight' BY <1>1, <2>1, <2>2 DEF CacheInv, ReadsInFlight, Reading
  <2> QED BY <1>1, <2>3, CacheQuiet
<1> QED BY <1>2, <1>3, <1>4

(* The processes use other blocks than that of the sync requests. *)
SyncBlockUnused == \A p \in Procs : Unused \notin Uses[p]

LEMMA CopyForWriting ==
    ASSUME RdsInv, CacheInv, NEW blk, ~Reusable(blk)
    PROVE  InCache(blk) = {}
<1> SUFFICES ASSUME NEW c \in InCache(blk) PROVE FALSE OBVIOUS
<1>1. PICK i : i = FirstFor(cache, blk) OBVIOUS
<1>2. i # 0 /\ buf[cache[i]].refcnt = 0 BY <1>1, OneCopy DEF CacheInv
<1> QED BY <1>1, <1>2 DEF Reusable

LEMMA CacheInitially == RdsInit => CacheInv
<1> SUFFICES ASSUME RdsInit PROVE CacheInv OBVIOUS
<1>1. /\ reqq = <<>> /\ cache = <<>> /\ comm[RDSPROC].type = "none" /\ responses = {}
      /\ \A p \in Procs : pc[p] = Idle
      /\ mail = [p \in Procs |-> mail[p]]
  BY NoCommIs DEF RdsInit
<1>2. CacheCurrent BY <1>1 DEF CacheCurrent
<1>3. CallsPending BY <1>1 DEF CallsPending, Wants, WaitsToWrite, Idle
<1>4. RequestsPending BY <1>1 DEF RequestsPending, ToSet
<1>5. Delivered BY <1>1 DEF Delivered, Idle
<1>6. ReadsInFlight BY <1>1 DEF ReadsInFlight, Reading
<1> QED BY <1>2, <1>3, <1>4, <1>5, <1>6 DEF CacheInv

LEMMA CacheInductive ==
    ASSUME SyncBlockUnused, RdsInv, Sane => ExchangeInv, Sane /\ "write" \notin crossed => DataInv,
           Sane /\ crossed = {} => CacheInv, [RdsNext]_vars
    PROVE  Sane' /\ crossed' = {} => CacheInv'
<1> SUFFICES ASSUME Sane', crossed' = {} PROVE CacheInv' OBVIOUS
<1>a. Sane => ExchangeInv /\ DataInv /\ CacheInv BY CrossedGrows
<1> USE <1>a
<1>1. CASE UNCHANGED vars
  <2>1. Sane BY <1>1 DEF vars, aux, Sane
  <2>2. UNCHANGED <<buf, reqq, cache, mail, pc, wrote, comm, responses, disk>>
    BY <1>1 DEF vars, lists, aux, net, server
  <2>3. ReadsInFlight' BY <2>1, <2>2, ReadsQuiet
  <2> QED BY <2>1, <2>2, <2>3, CacheQuiet
<1>2. ASSUME NEW p \in Procs, NEW blk \in Uses[p], Read(p, blk) PROVE CacheInv'
  <2>1. Sane /\ pc[p] = Idle /\ UNCHANGED <<comm, responses, disk>> BY <1>2 DEF Read, Calls, net, server
  <2>2. CASE Copy(blk) # 0
    <3>1. UNCHANGED <<buf, reqq, cache, mail, pc, wrote>> BY <1>2, <2>2 DEF Read, lists
    <3>2. ReadsInFlight' BY <2>1, <3>1, ReadsQuiet
    <3> QED BY <2>1, <3>1, <3>2, CacheQuiet
  <2>3. CASE Copy(blk) = 0
    <3>1. Uncopied(blk) BY <2>1, <2>3, MissIs DEF SyncBlockUnused
    <3>2. \A q \in Procs : WaitsToWrite(q) => pc[q].blk # blk BY <1>2, <2>3, MeetsNoWriter DEF Read
    <3>3. PICK call : call = "read" OBVIOUS
    <3>4. Alloc(p, call, blk, None) /\ call \in {"read", "write", "sync"} BY <1>2, <2>3, <3>3 DEF Read
    <3>5. call # "write" /\ call # "sync" BY <3>3
    <3> QED BY <2>1, <3>1, <3>2, <3>4, <3>5, AllocCache
  <2> QED BY <2>2, <2>3
<1>3. ASSUME NEW p \in Procs, NEW blk \in Uses[p], NEW data \in Data, WriteNew(p, blk, data) PROVE CacheInv'
  <2>1. /\ Sane /\ pc[p] = Idle /\ UNCHANGED <<comm, responses, disk>>
        /\ QueuedWrite(blk) = 0 /\ ~Reusable(blk)
    BY <1>3 DEF WriteNew, Calls, net, server
  <2>2. Uncopied(blk) BY <2>1, WritesAre, CopyForWriting DEF Uncopied
  <2>3. \A q \in Procs : Wants(q) => pc[q].blk # blk BY <1>3, MeetsNobody DEF WriteNew
  <2>4. PICK call : call = "write" OBVIOUS
  <2>5. Alloc(p, call, blk, data) /\ call \in {"read", "write", "sync"} BY <1>3, <2>4 DEF WriteNew
  <2>6. call # "read" /\ call # "sync" BY <2>4
  <2> QED BY <2>1, <2>2, <2>3, <2>5, <2>6, AllocCache
<1>4. ASSUME NEW p \in Procs, Sync(p) PROVE CacheInv'
  <2>1. Sane /\ pc[p] = Idle /\ UNCHANGED <<comm, responses, disk>> BY <1>4 DEF Sync, Calls, net, server
  <2>2. PICK call : call = "sync" OBVIOUS
  <2>3. Alloc(p, call, Unused, None) /\ call \in {"read", "write", "sync"} BY <1>4, <2>2 DEF Sync
  <2>4. call # "read" /\ call # "write" BY <2>2
  <2> QED BY <2>1, <2>2, <2>3, <2>4, AllocCache
<1>5. ASSUME NEW p \in Procs, NEW blk \in Uses[p], NEW data \in Data,
             Rewrite(p, blk, data) \/ WriteCached(p, blk, data)
      PROVE  CacheInv'
  <2>1. Sane BY <1>5 DEF Rewrite, WriteCached, Calls
  <2> QED BY <1>5, <2>1, RewriteCache, WriteCachedCache
<1>6. ASSUME NEW p \in Procs, Got(p) \/ Received(p) PROVE CacheInv'
  <2>1. Sane BY <1>6 DEF Got, Received
  <2> QED BY <1>6, <2>1, GotCache, ReceivedCache
<1>7. ASSUME NEW p \in Procs, Close(p) PROVE CacheInv'
  <2>1. Sane BY <1>7 DEF Close, Calls
  <2> QED BY <1>7, <2>1, CloseCache
<1>8. ASSUME Driver PROVE CacheInv'
  <2>1. Sane BY <1>8 DEF Driver, StartRead, StartWrite, DoSync, TakesRequest
  <2> QED BY <1>8, <2>1, StartReadCache, StartWriteCache, DoSyncCache DEF Driver
<1>9. ASSUME UNCHANGED <<buf, reqq, cache, mail, pc, wrote, disk>>, responses' \subseteq responses, Sane, DriverKept
      PROVE  CacheInv'
  <2>1. ReadsInFlight' BY <1>9, ReadsQuiet DEF DriverKept
  <2> QED BY <1>9, <2>1, CacheQuiet
<1>10. ASSUME NEW p \in Procs, Open(p) PROVE CacheInv'
  <2>1. /\ Sane /\ UNCHANGED <<buf, reqq, cache, mail, pc, wrote, disk, responses>>
        /\ \E c : comm' = [comm EXCEPT ![p] = c]
    BY <1>10 DEF Open, Calls, Exchange, lists, net, server
  <2>2. DriverKept BY <2>1, NoCommIs DEF DriverKept, RdsInv, RdsTypes, CommTypes
  <2> QED BY <2>1, <2>2, <1>9
<1>11. ASSUME NEW a \in Actors, CommSend(a) PROVE CacheInv'
  <2>1. Sane /\ UNCHANGED <<buf, reqq, cache, mail, pc, wrote, disk, responses>>
    BY <1>11 DEF CommSend, lists, aux, server
  <2>2. DriverKept BY <1>11, CommSendStep, NoCommIs DEF DriverKept, RdsInv, RdsTypes, CommTypes
  <2> QED BY <2>1, <2>2, <1>9
<1>12. ASSUME NEW a \in Actors, CommTimeout(a) PROVE CacheInv'
  <2>1. Sane /\ UNCHANGED <<buf, reqq, cache, mail, pc, wrote, disk, responses>>
    BY <1>12 DEF CommTimeout, lists, net, server
  <2>2. PICK xmit \in BOOLEAN : xmit = TRUE OBVIOUS
  <2>3. Retry(a, xmit) /\ comm[a].at = "recv" BY <1>12, <2>2 DEF CommTimeout
  <2> QED BY <2>1, <2>3, <1>9, RetryKeepsDriver
<1>13. ASSUME NEW a \in Actors, NEW r \in responses, Refused(a, r) PROVE CacheInv'
  <2>1. Sane /\ UNCHANGED <<buf, reqq, cache, mail, pc, wrote, disk>> /\ responses' \subseteq responses
    BY <1>13 DEF Refused, lists, server
  <2>2. PICK xmit \in BOOLEAN : xmit = ~(r.seq < comm[a].seq) OBVIOUS
  <2>3. Retry(a, xmit) /\ comm[a].at = "recv" BY <1>13, <2>2 DEF Refused
  <2> QED BY <2>1, <2>3, <1>9, RetryKeepsDriver
<1>14. ASSUME NEW p \in Procs, NEW r \in responses, DoneByCaller(p, r) PROVE CacheInv'
  <2>1. /\ Sane /\ UNCHANGED <<buf, reqq, cache, mail, pc, wrote, disk>> /\ responses' \subseteq responses
        /\ comm' = [comm EXCEPT ![p] = NoComm]
    BY <1>14 DEF DoneByCaller, lists, aux, server
  <2>2. DriverKept BY <2>1, NoCommIs DEF DriverKept, RdsInv, RdsTypes, CommTypes
  <2> QED BY <2>1, <2>2, <1>9
<1>15. ASSUME NEW r \in responses, EndRead(r) \/ EndWrite(r) PROVE CacheInv'
  <2>1. Sane BY <1>15 DEF EndRead, EndWrite
  <2> QED BY <1>15, <2>1, EndReadCache, EndWriteCache
<1>16. ASSUME NEW m \in requests, Handle(m) PROVE CacheInv'
  <2>1. Sane BY <1>16 DEF Handle
  <2> QED BY <1>16, <2>1, HandleCache
<1>17. ASSUME NEW m, Lose(m) PROVE CacheInv'
  <2>1. /\ Sane /\ UNCHANGED <<buf, reqq, cache, mail, pc, wrote, disk, comm>> /\ responses' \subseteq responses
    BY <1>17 DEF Lose, lists, server
  <2> QED BY <2>1, <1>9 DEF DriverKept
<1> QED BY <1>1, <1>2, <1>3, <1>4, <1>5, <1>6, <1>7, <1>8, <1>10, <1>11, <1>12, <1>13, <1>14, <1>15, <1>16, <1>17
    DEF RdsNext, Reply

(* Each step of the driver is a read, a write, or nothing, of the disk, as *)
(* long as nothing has been crossed.                                       *)
LEMMA StepOfDisk ==
    ASSUME SyncBlockUnused, RdsInv, Sane => ExchangeInv, Sane /\ "write" \notin crossed => DataInv,
           Sane /\ crossed = {} => CacheInv, [RdsNext]_vars
    PROVE  [Disk!Next \/ crossed # {}]_<<wrote, returned>>
<1> SUFFICES ASSUME crossed = {} PROVE [Disk!Next]_<<wrote, returned>> OBVIOUS
<1>a. Sane => ExchangeInv /\ DataInv /\ CacheInv OBVIOUS
<1> USE <1>a
<1>1. ASSUME NEW p \in Procs, NEW blk \in Blocks, UNCHANGED wrote,
             returned' = [returned EXCEPT ![p] = [blk |-> blk, data |-> wrote[blk]]]
      PROVE  Disk!Next
  BY <1>1 DEF Disk!Next, Disk!Read
<1>2. ASSUME NEW blk \in Blocks, NEW data \in Data, wrote' = [wrote EXCEPT ![blk] = data], returned' = Forgotten(blk)
      PROVE  Disk!Next
  BY <1>2 DEF Disk!Next, Disk!Write, Forgotten
<1>b. ASSUME NEW p, NEW call, NEW blk \in Blocks, NEW data \in Data,
             Request(p, call, blk, data) \/ Alloc(p, call, blk, data)
      PROVE  [Disk!Next]_<<wrote, returned>>
  <2>1. \/ UNCHANGED <<wrote, returned>>
        \/ wrote' = [wrote EXCEPT ![blk] = data] /\ returned' = Forgotten(blk)
    BY <1>b DEF Request, Alloc, Queue
  <2> QED BY <2>1, <1>2
<1>c. ASSUME NEW p, NEW call, NEW blk, NEW data, call # "write", Request(p, call, blk, data) \/ Alloc(p, call, blk, data)
      PROVE  UNCHANGED <<wrote, returned>>
  BY <1>c DEF Request, Alloc, Queue
<1>3. ASSUME NEW p \in Procs, NEW blk \in Uses[p], Read(p, blk) PROVE [Disk!Next]_<<wrote, returned>>
  <2>1. Sane /\ blk \in Blocks BY <1>3, BlockNumbers DEF Read, Calls
  <2>2. CASE Copy(blk) # 0
    <3>1. buf[Copy(blk)].data = wrote[blk] BY <2>1, <2>2, HitIs
    <3>2. returned' = [returned EXCEPT ![p] = [blk |-> blk, data |-> wrote[blk]]] /\ UNCHANGED wrote
      BY <1>3, <2>2, <3>1 DEF Read
    <3> QED BY <2>1, <3>2, <1>1
  <2>3. CASE Copy(blk) = 0
    <3>1. PICK call : call = "read" OBVIOUS
    <3>2. Alloc(p, call, blk, None) /\ call # "write" BY <1>3, <2>3, <3>1 DEF Read
    <3> QED BY <3>2, <1>c
  <2> QED BY <2>2, <2>3
<1>4. ASSUME NEW p \in Procs, NEW blk \in Uses[p], NEW data \in Data,
             Rewrite(p, blk, data) \/ WriteCached(p, blk, data) \/ WriteNew(p, blk, data)
      PROVE  [Disk!Next]_<<wrote, returned>>
  <2>1. blk \in Blocks BY BlockNumbers
  <2>2. CASE Rewrite(p, blk, data) \/ WriteCached(p, blk, data)
    <3>1. wrote' = [wrote EXCEPT ![blk] = data] /\ returned' = Forgotten(blk)
      BY <2>2 DEF Rewrite, WriteCached, Queue
    <3> QED BY <2>1, <3>1, <1>2
  <2>3. CASE WriteNew(p, blk, data)
    <3>1. PICK call : call = "write" OBVIOUS
    <3>2. Alloc(p, call, blk, data) BY <2>3, <3>1 DEF WriteNew
    <3> QED BY <2>1, <3>2, <1>b
  <2> QED BY <1>4, <2>2, <2>3
<1>5. ASSUME NEW p \in Procs, Got(p) PROVE [Disk!Next]_<<wrote, returned>>
  <2>1. PICK call, blk, data : call = pc[p].call /\ blk = pc[p].blk /\ data = pc[p].data OBVIOUS
  <2>2. Request(p, call, blk, data) BY <1>5, <2>1 DEF Got
  <2>3. CASE call = "write"
    <3>1. blk \in Uses[p] /\ data \in Data
      BY <1>5, <2>1, <2>3 DEF Got, CacheInv, CallsPending, Wants, WaitsToWrite
    <3>2. blk \in Blocks BY <3>1, BlockNumbers
    <3> QED BY <2>2, <3>1, <3>2, <1>b
  <2>4. CASE call # "write" BY <2>2, <2>4, <1>c
  <2> QED BY <2>3, <2>4
<1>6. ASSUME NEW p \in Procs, Received(p) PROVE [Disk!Next]_<<wrote, returned>>
  <2>1. Sane /\ UNCHANGED wrote BY <1>6 DEF Received
  <2>2. CASE UNCHANGED returned BY <2>1, <2>2
  <2>3. CASE UNCHANGED fault
    <3>1. CacheInv /\ Sane' BY <2>1, <2>3 DEF Sane
    <3>2. PICK blk : blk = pc[p].blk OBVIOUS
    <3>3. CASE blk \in Uses[p] /\ returned' = [returned EXCEPT ![p] = [blk |-> blk, data |-> wrote[blk]]]
      <4>1. blk \in Blocks BY <3>3, BlockNumbers
      <4> QED BY <4>1, <3>3, <2>1, <1>1
    <3> QED BY <1>6, <3>1, <3>2, <3>3, <2>2, ReceivedCache
  <2> QED BY <1>6, <2>2, <2>3 DEF Received
<1>7. ASSUME UNCHANGED <<wrote, returned>> PROVE [Disk!Next]_<<wrote, returned>> BY <1>7
<1>8. ASSUME UNCHANGED vars PROVE UNCHANGED <<wrote, returned>> BY <1>8 DEF vars, aux
<1>9. ASSUME NEW p \in Procs, Sync(p) \/ Open(p) \/ Close(p) PROVE UNCHANGED <<wrote, returned>>
  <2>1. CASE Sync(p)
    <3>1. PICK call : call = "sync" OBVIOUS
    <3>2. Alloc(p, call, Unused, None) /\ call # "write" BY <2>1, <3>1 DEF Sync
    <3> QED BY <3>2, <1>c
  <2> QED BY <1>9, <2>1 DEF Open, Close
<1>10. ASSUME Driver PROVE UNCHANGED <<wrote, returned>>
  BY <1>10 DEF Driver, StartRead, StartWrite, DoSync, aux
<1>11. ASSUME NEW a \in Actors, CommSend(a) \/ CommTimeout(a) PROVE UNCHANGED <<wrote, returned>>
  BY <1>11 DEF CommSend, CommTimeout, aux
<1>12. ASSUME NEW r \in responses, Reply(r) PROVE UNCHANGED <<wrote, returned>>
  BY <1>12 DEF Reply, EndRead, EndWrite, DoneByCaller, Refused, aux
<1>13. ASSUME NEW m, Handle(m) \/ Lose(m) PROVE UNCHANGED <<wrote, returned>>
  BY <1>13 DEF Handle, Lose, aux
<1> QED BY <1>3, <1>4, <1>5, <1>6, <1>7, <1>8, <1>9, <1>10, <1>11, <1>12, <1>13 DEF RdsNext

(* The remote disk driver, when no message outlives the time limit of its  *)
(* exchange and nobody uses the block number of the sync requests:         *)
(* ActsAsDisk holds for any processes, whatever blocks they share, and any *)
(* buffers, retries and losses.  What rdsRead() returns, from the cache,   *)
(* from a queued write or from the server, is what rdsWrite() was given    *)
(* last for the block, until a write and another request of its block have *)
(* waited at the same time.                                                *)
THEOREM DriverIsDisk ==
    ASSUME ~Late, SyncBlockUnused
    PROVE  RdsSpec => ActsAsDisk
<1> DEFINE Inv == /\ RdsInv /\ (Sane => ExchangeInv) /\ (Sane /\ "write" \notin crossed => DataInv)
                  /\ (Sane /\ crossed = {} => CacheInv)
<1>1. RdsInit => Inv BY RdsInitially, ExchangeInitially, DataInitially, CacheInitially
<1>2. Inv /\ [RdsNext]_vars => Inv' BY RdsInductive, ExchangeInductive, DataInductive, CacheInductive
<1>3. RdsInit => Disk!Init BY DEF RdsInit, ServerInit, Disk!Init
<1>4. Inv /\ [RdsNext]_vars => [Disk!Next \/ crossed # {}]_<<wrote, returned>> BY StepOfDisk
<1> QED BY <1>1, <1>2, <1>3, <1>4, PTL DEF RdsSpec, ActsAsDisk
=============================================================================
