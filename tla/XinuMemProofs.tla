--------------------------- MODULE XinuMemProofs ---------------------------
(***************************************************************************)
(* The heap, for every size of it and every sequence of calls: the free    *)
(* list stays in order, no memory is given out twice and none is lost; and *)
(* the buffer pools on it, for any number of pools, buffers and processes. *)
(*                                                                         *)
(* The two facts about the heap are proved together: freemem() keeps the   *)
(* list in order because what is returned is apart from what it lists, and *)
(* what is given out is apart from the rest because the listed blocks are  *)
(* apart from each other.  `Sound' says so of a list and of a set of       *)
(* blocks in use.  The count of free memory is compared with the number of *)
(* addresses that the listed blocks cover (`Accounted'), which every call  *)
(* changes by the addresses of one block.                                  *)
(***************************************************************************)
EXTENDS XinuPool, XinuQueueProofs

Blocks == [addr : Nat, len : Nat]

(* In the order of their addresses; only block `at' may touch the next. *)
Ordered(list, at) ==
    \A i, j \in 1 .. Len(list) :
        i < j => /\ End(list[i]) <= list[j].addr
                 /\ End(list[i]) = list[j].addr => i = at /\ j = at + 1

InHeap(b) == b.addr \in Nat /\ b.len \in Nat /\ b.len > 0 /\ End(b) <= HeapSize

Listed(list, at) ==
    /\ list \in Seq(Blocks)
    /\ \A i \in 1 .. Len(list) : InHeap(list[i])
    /\ Ordered(list, at)

InUse(list, given) ==
    /\ \A h \in given : InHeap(h)
    /\ \A h \in given : \A i \in 1 .. Len(list) : Apart(h, list[i])
    /\ \A g, h \in given : g # h => Apart(g, h)

Sound(list, given) == Listed(list, 0) /\ InUse(list, given)

MemInv == Sound(memlist, held)

Cells(b) == b.addr .. End(b) - 1

(* The memory on a list. *)
OnList(list) == UNION {Cells(list[i]) : i \in 1 .. Len(list)}

Accounted ==
    /\ mlength = Cardinality(OnList(memlist))
    /\ 0 .. HeapSize - 1 \subseteq OnList(memlist) \cup Covers(held)

LEMMA BlockFields ==
    ASSUME NEW addr \in Nat, NEW len \in Nat
    PROVE  /\ Block(addr, len) \in Blocks
           /\ Block(addr, len).addr = addr /\ Block(addr, len).len = len
           /\ End(Block(addr, len)) = addr + len
BY DEF Block, Blocks, End

(* What changing one block of a list does to it. *)
LEMMA ReplaceElements ==
    ASSUME NEW list \in Seq(Blocks), NEW k \in 1 .. Len(list), NEW b \in Blocks,
           NEW r, r = [list EXCEPT ![k] = b]
    PROVE  /\ r \in Seq(Blocks) /\ Len(r) = Len(list)
           /\ \A i \in 1 .. Len(list) : r[i] = IF i = k THEN b ELSE list[i]
<1>1. DOMAIN list = 1 .. Len(list) /\ Len(list) \in Nat
      /\ \A i \in 1 .. Len(list) : list[i] \in Blocks
  BY LenProperties
<1>2. r \in [1 .. Len(list) -> Blocks] BY <1>1
<1>3. r \in Seq(Blocks) BY <1>1, <1>2 DEF Seq
<1>4. Len(r) = Len(list) BY <1>1, <1>2, <1>3, LenProperties
<1> QED BY <1>1, <1>3, <1>4

LEMMA LengthFields ==
    ASSUME NEW b \in Blocks, NEW len \in Nat
    PROVE  [b EXCEPT !.len = len] = Block(b.addr, len)
BY DEF Blocks, Block

LEMMA BeyondOrdered ==
    ASSUME NEW a, NEW b, NEW c, InHeap(a), InHeap(b), InHeap(c),
           End(a) <= b.addr, End(b) <= c.addr
    PROVE  End(a) < c.addr /\ End(a) # c.addr
BY DEF InHeap, End

LEMMA InsideApart ==
    ASSUME NEW a, NEW b, NEW c, InHeap(a), InHeap(b), InHeap(c), Apart(a, b),
           b.addr <= c.addr, End(c) <= End(b)
    PROVE  Apart(a, c) /\ Apart(c, a)
BY DEF InHeap, End, Apart

LEMMA InsideOrdered ==
    ASSUME NEW a, NEW b, NEW c, NEW d, InHeap(a), InHeap(b), InHeap(c), InHeap(d),
           End(a) <= b.addr, End(a) # b.addr, End(c) <= End(a), b.addr <= d.addr
    PROVE  End(c) < d.addr
<1> DEFINE x == End(a)
           y == b.addr
           z == End(c)
           w == d.addr
<1>1. x \in Int /\ y \in Int /\ z \in Int /\ w \in Int BY DEF InHeap, End
<1>2. x <= y /\ x # y /\ z <= x /\ y <= w OBVIOUS
<1> HIDE DEF x, y, z, w
<1>3. z < w BY <1>1, <1>2
<1> QED BY <1>3 DEF z, w

(* Giving out a part of block i, and leaving a rest that is apart from it. *)
LEMMA GiveSound ==
    ASSUME MemInv, NEW i \in 1 .. Len(memlist), NEW h, NEW rest,
           InHeap(h), memlist[i].addr <= h.addr, End(h) <= End(memlist[i]),
           held' = held \cup {h},
           \/ memlist' = RemoveAt(memlist, i)
           \/ /\ rest \in Blocks /\ rest.len > 0 /\ Apart(h, rest)
              /\ memlist[i].addr <= rest.addr /\ End(rest) <= End(memlist[i])
              /\ memlist' = [memlist EXCEPT ![i] = rest]
    PROVE  MemInv'
<1>1. /\ memlist \in Seq(Blocks) /\ Len(memlist) \in Nat
      /\ \A j \in 1 .. Len(memlist) : memlist[j] \in Blocks /\ InHeap(memlist[j])
      /\ Ordered(memlist, 0)
  BY LenProperties DEF MemInv, Sound, Listed
<1>2. InUse(memlist, held) BY DEF MemInv, Sound
<1>3. \A j \in 1 .. Len(memlist) : j # i => Apart(h, memlist[j])
  <2> SUFFICES ASSUME NEW j \in 1 .. Len(memlist), j # i
               PROVE  Apart(h, memlist[j])
    OBVIOUS
  <2>1. InHeap(memlist[i]) /\ InHeap(memlist[j]) /\ InHeap(h)
        /\ memlist[i].addr <= h.addr /\ End(h) <= End(memlist[i]) BY <1>1
  <2>2. End(memlist[i]) <= memlist[j].addr \/ End(memlist[j]) <= memlist[i].addr
    <3>1. i < j \/ j < i BY <1>1
    <3> QED BY <3>1, <1>1 DEF Ordered
  <2> QED BY SMTT(30), <2>1, <2>2 DEF InHeap, End, Apart
<1>4. \A g \in held : Apart(g, h) /\ Apart(h, g)
  <2> SUFFICES ASSUME NEW g \in held PROVE Apart(g, h) /\ Apart(h, g)
    OBVIOUS
  <2>1. InHeap(g) /\ InHeap(memlist[i]) /\ Apart(g, memlist[i]) BY <1>1, <1>2 DEF InUse
  <2> QED BY <2>1, InsideApart
<1>5. CASE memlist' = RemoveAt(memlist, i)
  <2>1. /\ memlist' \in Seq(Blocks) /\ Len(memlist') = Len(memlist) - 1
        /\ \A j \in 1 .. Len(memlist) - 1 :
               memlist'[j] = IF j < i THEN memlist[j] ELSE memlist[j + 1]
    BY <1>1, <1>5, RemoveAtElements
  <2>2. Listed(memlist', 0)
    <3>1. \A j \in 1 .. Len(memlist') : InHeap(memlist'[j]) BY <1>1, <2>1
    <3>2. Ordered(memlist', 0)
      <4> SUFFICES ASSUME NEW j \in 1 .. Len(memlist'), NEW k \in 1 .. Len(memlist'), j < k
                   PROVE  End(memlist'[j]) <= memlist'[k].addr
                          /\ End(memlist'[j]) # memlist'[k].addr
        BY DEF Ordered
      <4>1. PICK a, c \in 1 .. Len(memlist) :
                a < c /\ memlist'[j] = memlist[a] /\ memlist'[k] = memlist[c]
        BY SMTT(30), <1>1, <2>1
      <4> QED BY <4>1, <1>1 DEF Ordered
    <3> QED BY <3>1, <3>2, <2>1 DEF Listed
  <2>3. \A g \in held' : \A j \in 1 .. Len(memlist') : Apart(g, memlist'[j])
    <3> SUFFICES ASSUME NEW g \in held', NEW j \in 1 .. Len(memlist')
                 PROVE  Apart(g, memlist'[j])
      OBVIOUS
    <3>1. PICK a \in 1 .. Len(memlist) : a # i /\ memlist'[j] = memlist[a] BY <1>1, <2>1
    <3> QED BY <3>1, <1>2, <1>3 DEF InUse
  <2>4. InUse(memlist', held') BY <2>3, <1>2, <1>4 DEF InUse
  <2> QED BY <2>2, <2>4 DEF MemInv, Sound
<1>6. CASE /\ rest \in Blocks /\ rest.len > 0 /\ Apart(h, rest)
           /\ memlist[i].addr <= rest.addr /\ End(rest) <= End(memlist[i])
           /\ memlist' = [memlist EXCEPT ![i] = rest]
  <2>1. /\ memlist' \in Seq(Blocks) /\ Len(memlist') = Len(memlist)
        /\ \A j \in 1 .. Len(memlist) : memlist'[j] = IF j = i THEN rest ELSE memlist[j]
    BY <1>1, <1>6, ReplaceElements
  <2>2. \A j \in 1 .. Len(memlist) :
            /\ InHeap(memlist'[j]) /\ InHeap(memlist[j])
            /\ memlist[j].addr <= memlist'[j].addr /\ End(memlist'[j]) <= End(memlist[j])
    <3>1. InHeap(memlist[i]) BY <1>1
    <3>2. InHeap(rest) BY <3>1, <1>6, MemAssumption DEF InHeap, End, Blocks
    <3>3. \A j \in 1 .. Len(memlist) :
              memlist[j].addr <= memlist[j].addr /\ End(memlist[j]) <= End(memlist[j])
      BY <1>1 DEF InHeap, End
    <3> QED BY <1>1, <1>6, <2>1, <3>2, <3>3
  <2>3. Listed(memlist', 0)
    <3>1. Ordered(memlist', 0)
      <4> SUFFICES ASSUME NEW j \in 1 .. Len(memlist), NEW k \in 1 .. Len(memlist), j < k
                   PROVE  End(memlist'[j]) < memlist'[k].addr
        BY SMTT(30), <2>1, <2>2 DEF Ordered, InHeap, End
      <4>1. End(memlist[j]) <= memlist[k].addr /\ End(memlist[j]) # memlist[k].addr
        BY <1>1 DEF Ordered
      <4>2. /\ InHeap(memlist'[j]) /\ InHeap(memlist[j]) /\ End(memlist'[j]) <= End(memlist[j])
            /\ InHeap(memlist'[k]) /\ InHeap(memlist[k]) /\ memlist[k].addr <= memlist'[k].addr
        BY <2>2
      <4> QED BY <4>1, <4>2, InsideOrdered
    <3> QED BY <3>1, <2>1, <2>2 DEF Listed
  <2>4. \A g \in held : \A j \in 1 .. Len(memlist') : Apart(g, memlist'[j])
    <3> SUFFICES ASSUME NEW g \in held, NEW j \in 1 .. Len(memlist)
                 PROVE  Apart(g, memlist'[j])
      BY <2>1
    <3>1. Apart(g, memlist[j]) /\ InHeap(g) BY <1>2 DEF InUse
    <3> QED BY <3>1, <2>2, InsideApart
  <2>5. \A j \in 1 .. Len(memlist') : Apart(h, memlist'[j])
    BY <1>3, <1>6, <2>1
  <2>6. InUse(memlist', held') BY <2>4, <2>5, <1>2, <1>4 DEF InUse
  <2> QED BY <2>3, <2>6 DEF MemInv, Sound
<1> QED BY <1>5, <1>6

(* The list and the addresses it covers. *)
LEMMA OnListIs ==
    ASSUME NEW list \in Seq(Blocks)
    PROVE  OnList(list) = Covers(ToSet(list))
<1>1. DOMAIN list = 1 .. Len(list) BY LenProperties
<1> QED BY <1>1 DEF OnList, Covers, ToSet, Cells

LEMMA CellsFacts ==
    ASSUME NEW b, InHeap(b)
    PROVE  /\ Cells(b) \subseteq 0 .. HeapSize - 1
           /\ IsFiniteSet(Cells(b)) /\ Cardinality(Cells(b)) = b.len
<1>1. /\ b.addr \in Nat /\ b.len \in Nat /\ b.len > 0 /\ b.addr + b.len <= HeapSize
      /\ End(b) = b.addr + b.len
  BY DEF InHeap, End
<1> DEFINE x == b.addr
           y == End(b) - 1
<1>2. x \in Int /\ y \in Int /\ y - x + 1 = b.len /\ x <= y BY <1>1
<1> HIDE DEF x, y
<1>3. IsFiniteSet(x .. y) /\ Cardinality(x .. y) = IF x > y THEN 0 ELSE y - x + 1
  BY <1>2, FS_Interval
<1>4. Cells(b) = x .. y BY DEF Cells, x, y
<1>5. Cells(b) \subseteq 0 .. HeapSize - 1 BY <1>1, MemAssumption DEF Cells
<1> QED BY <1>2, <1>3, <1>4, <1>5

LEMMA OnListFinite ==
    ASSUME NEW list, \A i \in 1 .. Len(list) : InHeap(list[i])
    PROVE  OnList(list) \subseteq 0 .. HeapSize - 1 /\ IsFiniteSet(OnList(list))
<1>1. OnList(list) \subseteq 0 .. HeapSize - 1 BY CellsFacts DEF OnList
<1>2. IsFiniteSet(0 .. HeapSize - 1) BY MemAssumption, FS_Interval
<1> QED BY <1>1, <1>2, FS_Subset

LEMMA ApartCells ==
    ASSUME NEW a, NEW b, InHeap(a), InHeap(b), Apart(a, b)
    PROVE  Cells(a) \cap Cells(b) = {}
BY DEF Apart, Cells, InHeap, End

(* A block that consists of two neighbours. *)
LEMMA CellsJoin ==
    ASSUME NEW a, NEW b, NEW c, InHeap(a), InHeap(b), InHeap(c),
           a.addr = c.addr, End(a) = b.addr, End(b) = End(c)
    PROVE  Cells(c) = Cells(a) \cup Cells(b) /\ Cells(a) \cap Cells(b) = {}
BY DEF Cells, InHeap, End

(* What is given out leaves the list, and nothing else does. *)
LEMMA GiveAccounted ==
    ASSUME MemInv, Accounted, NEW i \in 1 .. Len(memlist), NEW h, NEW rest, InHeap(h),
           held' = held \cup {h}, mlength' = mlength - h.len,
           \/ memlist' = RemoveAt(memlist, i) /\ Cells(h) = Cells(memlist[i])
           \/ /\ rest \in Blocks /\ memlist' = [memlist EXCEPT ![i] = rest]
              /\ Cells(memlist[i]) = Cells(h) \cup Cells(rest) /\ Cells(h) \cap Cells(rest) = {}
    PROVE  Accounted'
<1>1. /\ memlist \in Seq(Blocks) /\ Len(memlist) \in Nat
      /\ \A j \in 1 .. Len(memlist) : memlist[j] \in Blocks /\ InHeap(memlist[j])
      /\ Ordered(memlist, 0)
  BY LenProperties DEF MemInv, Sound, Listed
<1>2. Cells(h) \subseteq Cells(memlist[i]) OBVIOUS
<1>3. \A j \in 1 .. Len(memlist) : j # i => Cells(memlist[i]) \cap Cells(memlist[j]) = {}
  <2> SUFFICES ASSUME NEW j \in 1 .. Len(memlist), j # i
               PROVE  Cells(memlist[i]) \cap Cells(memlist[j]) = {}
    OBVIOUS
  <2>1. i < j \/ j < i BY <1>1
  <2>2. Apart(memlist[i], memlist[j]) BY <2>1, <1>1 DEF Ordered, Apart
  <2> QED BY <2>2, <1>1, ApartCells
<1>4. OnList(memlist') = OnList(memlist) \ Cells(h)
  <2>1. CASE memlist' = RemoveAt(memlist, i) /\ Cells(h) = Cells(memlist[i])
    <3>1. /\ memlist' \in Seq(Blocks) /\ Len(memlist') = Len(memlist) - 1
          /\ \A j \in 1 .. Len(memlist) - 1 :
                 memlist'[j] = IF j < i THEN memlist[j] ELSE memlist[j + 1]
      BY <1>1, <2>1, RemoveAtElements
    <3>2. \A j \in 1 .. Len(memlist') :
              \E k \in 1 .. Len(memlist) : k # i /\ memlist'[j] = memlist[k]
      BY <1>1, <3>1
    <3>3. \A k \in 1 .. Len(memlist) :
              k # i => \E j \in 1 .. Len(memlist') : memlist'[j] = memlist[k]
      <4> SUFFICES ASSUME NEW k \in 1 .. Len(memlist), k # i
                   PROVE  \E j \in 1 .. Len(memlist') : memlist'[j] = memlist[k]
        OBVIOUS
      <4>1. CASE k < i BY <4>1, <1>1, <3>1
      <4>2. CASE k > i
        <5>1. k - 1 \in 1 .. Len(memlist') /\ ~(k - 1 < i) /\ (k - 1) + 1 = k BY <4>2, <1>1, <3>1
        <5> QED BY <5>1, <3>1
      <4> QED BY <4>1, <4>2, <1>1
    <3>4. OnList(memlist') \subseteq OnList(memlist) \ Cells(h)
      BY <3>2, <2>1, <1>3 DEF OnList
    <3>5. OnList(memlist) \ Cells(h) \subseteq OnList(memlist')
      <4> SUFFICES ASSUME NEW k \in 1 .. Len(memlist), k # i
                   PROVE  Cells(memlist[k]) \subseteq OnList(memlist')
        BY <2>1 DEF OnList
      <4> QED BY <3>3 DEF OnList
    <3> QED BY <3>4, <3>5
  <2>2. CASE /\ rest \in Blocks /\ memlist' = [memlist EXCEPT ![i] = rest]
             /\ Cells(memlist[i]) = Cells(h) \cup Cells(rest) /\ Cells(h) \cap Cells(rest) = {}
    <3>1. /\ memlist' \in Seq(Blocks) /\ Len(memlist') = Len(memlist)
          /\ \A j \in 1 .. Len(memlist) : memlist'[j] = IF j = i THEN rest ELSE memlist[j]
      BY <1>1, <2>2, ReplaceElements
    <3> QED BY <3>1, <2>2, <1>3 DEF OnList
  <2> QED BY <2>1, <2>2
<1>5. Cells(h) \subseteq OnList(memlist) BY <1>2 DEF OnList
<1>6. /\ Cardinality(OnList(memlist) \ Cells(h))
             = Cardinality(OnList(memlist)) - Cardinality(OnList(memlist) \cap Cells(h))
      /\ Cardinality(Cells(h)) = h.len
  BY <1>1, OnListFinite, CellsFacts, FS_Difference
<1>7. OnList(memlist) \cap Cells(h) = Cells(h) BY <1>5
<1>8. mlength' = Cardinality(OnList(memlist')) BY <1>4, <1>6, <1>7 DEF Accounted
<1>9. Covers(held') = Covers(held) \cup Cells(h) BY DEF Covers, Cells
<1> QED BY <1>4, <1>8, <1>9 DEF Accounted

LEMMA RoundmbPositive ==
    ASSUME NEW n \in Nat \ {0}
    PROVE  Roundmb(n) \in Nat \ {0}
BY DEF Roundmb

LEMMA GetmemStep ==
    ASSUME MemInv, NEW nbytes, Roundmb(nbytes) \in Nat \ {0}, NEW user, Getmem(nbytes, user)
    PROVE  MemInv' /\ (Accounted => Accounted')
<1> DEFINE n == Roundmb(nbytes)
<1>1. /\ memlist \in Seq(Blocks) /\ DOMAIN memlist = 1 .. Len(memlist)
      /\ \A j \in 1 .. Len(memlist) : memlist[j] \in Blocks /\ InHeap(memlist[j])
  BY LenProperties DEF MemInv, Sound, Listed
<1>2. PICK i \in 1 .. Len(memlist) : Fits(i, n) /\ GetmemAt(i, n, user)
  BY <1>1 DEF Getmem
<1> DEFINE b == memlist[i]
           h == [addr |-> b.addr, len |-> n, by |-> user]
           rest == Block(b.addr + n, b.len - n)
<1>3. n \in Nat /\ n > 0 /\ b.addr \in Nat /\ b.len \in Nat /\ n <= b.len /\ InHeap(b)
  BY <1>1, <1>2 DEF InHeap, Fits
<1>4. Block(b.addr, n).addr = b.addr /\ Block(b.addr, n).len = n
  BY <1>3, BlockFields
<1>5. held' = held \cup {h} /\ mlength' = mlength - n BY <1>2, <1>4 DEF GetmemAt, GiveTo
<1>6. h.addr = b.addr /\ h.len = n OBVIOUS
<1> HIDE DEF n
<1>7. InHeap(h) /\ b.addr <= h.addr /\ End(h) <= End(b)
  BY <1>3, <1>6, MemAssumption DEF InHeap, End
<1>8. CASE b.len = n
  <2>1. memlist' = RemoveAt(memlist, i) BY <1>2, <1>8 DEF GetmemAt
  <2> HIDE DEF h
  <2>2. Cells(h) = Cells(b) BY <1>3, <1>6, <1>8 DEF Cells, End
  <2>3. MemInv' BY <2>1, <1>5, <1>7, GiveSound
  <2>4. Accounted => Accounted' BY <2>1, <2>2, <1>5, <1>6, <1>7, GiveAccounted
  <2> QED BY <2>3, <2>4
<1>9. CASE b.len # n
  <2>1. memlist' = [memlist EXCEPT ![i] = rest] BY <1>1, <1>2, <1>9 DEF GetmemAt
  <2>2. b.addr + n \in Nat /\ b.len - n \in Nat /\ b.len - n > 0 BY <1>3, <1>9
  <2>3. /\ rest \in Blocks /\ rest.len > 0 /\ rest.addr = b.addr + n
        /\ End(rest) = (b.addr + n) + (b.len - n)
    BY ZenonT(30), <2>2, BlockFields
  <2> HIDE DEF rest, h
  <2>4. /\ Apart(h, rest) /\ b.addr <= rest.addr /\ End(rest) <= End(b)
        /\ End(h) = rest.addr /\ End(rest) = End(b)
    BY <1>3, <1>6, <2>3 DEF Apart, End
  <2>5. InHeap(rest) BY <1>3, <2>2, <2>3, <2>4 DEF InHeap, Blocks
  <2>6. Cells(b) = Cells(h) \cup Cells(rest) /\ Cells(h) \cap Cells(rest) = {}
    BY <1>3, <1>6, <1>7, <2>4, <2>5, CellsJoin
  <2>7. MemInv' BY <2>1, <2>3, <2>4, <1>5, <1>7, GiveSound
  <2>8. Accounted => Accounted' BY <2>1, <2>3, <2>6, <1>5, <1>6, <1>7, GiveAccounted
  <2> QED BY <2>7, <2>8
<1> QED BY <1>8, <1>9

LEMMA GetstkStep ==
    ASSUME MemInv, NEW nbytes, Roundmb(nbytes) \in Nat \ {0}, Getstk(nbytes)
    PROVE  MemInv' /\ (Accounted => Accounted')
<1> DEFINE n == Roundmb(nbytes)
<1>1. /\ memlist \in Seq(Blocks) /\ DOMAIN memlist = 1 .. Len(memlist)
      /\ \A j \in 1 .. Len(memlist) : memlist[j] \in Blocks /\ InHeap(memlist[j])
  BY LenProperties DEF MemInv, Sound, Listed
<1>2. PICK i \in 1 .. Len(memlist) : Fits(i, n) /\ GetstkAt(i, n)
  BY <1>1 DEF Getstk
<1> DEFINE b == memlist[i]
           low == End(b) - n
           h == [addr |-> low, len |-> n, by |-> "stack"]
           rest == Block(b.addr, b.len - n)
<1>3. n \in Nat /\ n > 0 /\ b.addr \in Nat /\ b.len \in Nat /\ n <= b.len /\ InHeap(b)
  BY <1>1, <1>2 DEF InHeap, Fits
<1>4. low \in Nat /\ low >= b.addr /\ low + n = b.addr + b.len BY <1>3 DEF End
<1>5. held' = held \cup {h} /\ mlength' = mlength - n
  <2>1. Block(low, n).addr = low /\ Block(low, n).len = n BY <1>3, <1>4, BlockFields
  <2> QED BY <2>1, <1>2 DEF GetstkAt, GiveTo
<1>6. h.addr = low /\ h.len = n OBVIOUS
<1> HIDE DEF n, low
<1>7. InHeap(h) /\ b.addr <= h.addr /\ End(h) <= End(b)
  BY <1>3, <1>4, <1>6, MemAssumption DEF InHeap, End
<1>8. CASE b.len = n
  <2>1. memlist' = RemoveAt(memlist, i) BY <1>2, <1>8 DEF GetstkAt
  <2> HIDE DEF h
  <2>2. Cells(h) = Cells(b) BY <1>3, <1>4, <1>6, <1>8 DEF Cells, End
  <2>3. MemInv' BY <2>1, <1>5, <1>7, GiveSound
  <2>4. Accounted => Accounted' BY <2>1, <2>2, <1>5, <1>6, <1>7, GiveAccounted
  <2> QED BY <2>3, <2>4
<1>9. CASE b.len # n
  <2>1. b.len - n \in Nat /\ b.len - n > 0 BY <1>3, <1>9
  <2>2. memlist' = [memlist EXCEPT ![i] = rest]
    <3>1. memlist' = [memlist EXCEPT ![i] = [b EXCEPT !.len = b.len - n]]
      BY <1>2, <1>9, Zenon DEF GetstkAt
    <3>2. [b EXCEPT !.len = b.len - n] = rest BY <2>1, <1>1, LengthFields
    <3> QED BY <3>1, <3>2, Zenon
  <2>3. /\ rest \in Blocks /\ rest.len > 0 /\ rest.addr = b.addr
        /\ End(rest) = b.addr + (b.len - n)
    BY ZenonT(30), <1>3, <2>1, BlockFields
  <2> HIDE DEF rest, h
  <2>4. /\ Apart(h, rest) /\ b.addr <= rest.addr /\ End(rest) <= End(b)
        /\ End(rest) = h.addr /\ End(h) = End(b)
    BY <1>3, <1>4, <1>6, <2>3 DEF Apart, End
  <2>5. InHeap(rest) BY SMTT(40), <1>3, <2>1, <2>3, <2>4, MemAssumption DEF InHeap, Blocks, End
  <2>6. Cells(b) = Cells(rest) \cup Cells(h) /\ Cells(rest) \cap Cells(h) = {}
    BY <1>3, <1>7, <2>3, <2>4, <2>5, CellsJoin
  <2>7. MemInv' BY <2>2, <2>3, <2>4, <1>5, <1>7, GiveSound
  <2>8. Accounted => Accounted' BY <2>2, <2>3, <2>6, <1>5, <1>6, <1>7, GiveAccounted
  <2> QED BY <2>7, <2>8
<1> QED BY <1>8, <1>9

(* Putting a block into the list, behind all that is below it. *)
LEMMA WithPreviousListed ==
    ASSUME NEW given, Listed(memlist, 0), InUse(memlist, given), NEW b \in Blocks, InHeap(b),
           \A h \in given : Apart(b, h),
           NEW k \in 0 .. Len(memlist), WalkEnds(b, k), ~Overlaps(b, k),
           NEW r, r = WithPrevious(b, k)
    PROVE  /\ r.at \in 1 .. Len(r.list)
           /\ Listed(r.list, r.at)
           /\ InUse(r.list, given)
<1>1. /\ memlist \in Seq(Blocks) /\ Len(memlist) \in Nat
      /\ \A j \in 1 .. Len(memlist) : memlist[j] \in Blocks /\ InHeap(memlist[j])
      /\ Ordered(memlist, 0)
  BY LenProperties DEF Listed
<1>2. \A i, j \in 1 .. Len(memlist) :
          i < j => End(memlist[i]) <= memlist[j].addr /\ End(memlist[i]) # memlist[j].addr
  BY <1>1 DEF Ordered
<1>3. \A i \in 1 .. k : End(memlist[i]) <= b.addr
  <2> SUFFICES ASSUME NEW i \in 1 .. k PROVE End(memlist[i]) <= b.addr
    OBVIOUS
  <2>1. i \in 1 .. Len(memlist) /\ k \in 1 .. Len(memlist) BY <1>1
  <2>2. InHeap(memlist[i]) /\ InHeap(memlist[k]) BY <1>1, <2>1
  <2>3. End(memlist[k]) <= b.addr BY <2>1, <2>2 DEF Overlaps, InHeap, End
  <2>4. CASE i = k BY <2>3, <2>4
  <2>5. CASE i < k
    <3>1. End(memlist[i]) <= memlist[k].addr BY <1>2, <2>1, <2>5
    <3> QED BY SMTT(30), <3>1, <2>2, <2>3 DEF InHeap, End
  <2> QED BY <2>4, <2>5, <2>1
<1>4. \A i \in k + 1 .. Len(memlist) : End(b) <= memlist[i].addr
  <2> SUFFICES ASSUME NEW i \in k + 1 .. Len(memlist) PROVE End(b) <= memlist[i].addr
    OBVIOUS
  <2>1. i \in 1 .. Len(memlist) /\ k + 1 \in 1 .. Len(memlist) /\ k < Len(memlist) BY <1>1
  <2>2. InHeap(memlist[i]) /\ InHeap(memlist[k + 1]) BY <1>1, <2>1
  <2>3. End(b) <= memlist[k + 1].addr BY <2>1, <2>2 DEF Overlaps, InHeap, End
  <2>4. CASE i = k + 1 BY <2>3, <2>4
  <2>5. CASE k + 1 < i
    <3>1. End(memlist[k + 1]) <= memlist[i].addr BY <1>2, <2>1, <2>5
    <3> QED BY SMTT(40), <3>1, <2>2, <2>3 DEF InHeap, End
  <2> QED BY <2>4, <2>5, <2>1
<1>5. \A h \in given : InHeap(h) /\ \A i \in 1 .. Len(memlist) : Apart(h, memlist[i])
  BY DEF InUse
<1>6. CASE k > 0 /\ End(memlist[k]) = b.addr
  <2> DEFINE p == memlist[k]
             m == Block(p.addr, p.len + b.len)
  <2>1. k \in 1 .. Len(memlist) /\ InHeap(p) /\ p \in Blocks BY <1>1, <1>6
  <2>2. p.addr \in Nat /\ p.len + b.len \in Nat BY <2>1 DEF InHeap
  <2>3. /\ m \in Blocks /\ m.addr = p.addr /\ m.len = p.len + b.len
        /\ End(m) = p.addr + (p.len + b.len)
    BY <2>2, BlockFields
  <2> HIDE DEF m
  <2>4. End(m) = End(b) BY <2>1, <2>3, <1>6 DEF InHeap, End
  <2>5. InHeap(m) BY <2>1, <2>3, <2>4 DEF InHeap
  <2>6. r.at = k /\ r.list = [memlist EXCEPT ![k] = m]
    <3>1. r = [list |-> [memlist EXCEPT ![k] = [p EXCEPT !.len = p.len + b.len]], at |-> k]
      BY <1>6, Zenon DEF WithPrevious
    <3>2. [p EXCEPT !.len = p.len + b.len] = m BY <2>1, <2>2, LengthFields DEF m
    <3>3. r = [list |-> [memlist EXCEPT ![k] = m], at |-> k] BY <3>1, <3>2, Zenon
    <3> QED BY <3>3
  <2>7. /\ r.list \in Seq(Blocks) /\ Len(r.list) = Len(memlist)
        /\ \A j \in 1 .. Len(memlist) : r.list[j] = IF j = k THEN m ELSE memlist[j]
    BY <1>1, <2>1, <2>3, <2>6, ReplaceElements
  <2>8. \A j \in 1 .. Len(r.list) : InHeap(r.list[j]) BY <1>1, <2>5, <2>7
  <2>9. Ordered(r.list, k)
    <3> SUFFICES ASSUME NEW i \in 1 .. Len(memlist), NEW j \in 1 .. Len(memlist), i < j
                 PROVE  /\ End(r.list[i]) <= r.list[j].addr
                        /\ End(r.list[i]) = r.list[j].addr => i = k /\ j = k + 1
      BY <2>7 DEF Ordered
    <3>1. /\ InHeap(memlist[i]) /\ InHeap(memlist[j])
          /\ End(memlist[i]) <= memlist[j].addr /\ End(memlist[i]) # memlist[j].addr
      BY <1>1, <1>2
    <3>2. CASE i # k /\ j # k BY <3>1, <3>2, <2>7
    <3>3. CASE j = k
      <4>1. r.list[i] = memlist[i] /\ r.list[j] = m BY <3>3, <2>7
      <4> QED BY <4>1, <3>1, <3>3, <2>3
    <3>4. CASE i = k
      <4>1. r.list[i] = m /\ r.list[j] = memlist[j] BY <3>4, <2>7
      <4>2. End(m) <= memlist[j].addr BY <1>1, <1>4, <2>4, <3>4
      <4>3. CASE j = k + 1 BY <4>1, <4>2, <4>3, <3>4
      <4>4. CASE j # k + 1
        <5>1. k + 1 \in 1 .. Len(memlist) /\ k + 1 < j /\ k + 1 \in k + 1 .. Len(memlist)
          BY <1>1, <3>4, <4>4
        <5>2. InHeap(memlist[k + 1]) /\ End(memlist[k + 1]) <= memlist[j].addr
              /\ End(b) <= memlist[k + 1].addr
          BY <5>1, <1>1, <1>2, <1>4
        <5>3. End(b) # memlist[j].addr BY <5>2, <3>1, BeyondOrdered
        <5> QED BY <5>3, <2>4, <4>1, <4>2
      <4> QED BY <4>3, <4>4
    <3> QED BY <3>2, <3>3, <3>4
  <2>10. \A h \in given : \A i \in 1 .. Len(r.list) : Apart(h, r.list[i])
    <3> SUFFICES ASSUME NEW h \in given PROVE Apart(h, m)
      BY <1>5, <2>7
    <3>1. InHeap(h) /\ Apart(h, p) /\ Apart(b, h) BY <1>5, <2>1
    <3> QED BY <3>1, <2>1, <2>3, <2>4, <1>6 DEF InHeap, End, Apart
  <2> QED BY <2>1, <2>6, <2>7, <2>8, <2>9, <2>10 DEF Listed, InUse
<1>7. CASE ~(k > 0 /\ End(memlist[k]) = b.addr)
  <2>1. k + 1 \in 1 .. Len(memlist) + 1 BY <1>1
  <2>2. r.at = k + 1 /\ r.list = InsertAt(memlist, k + 1, b)
    BY <1>7 DEF WithPrevious
  <2>3. /\ r.list \in Seq(Blocks) /\ Len(r.list) = Len(memlist) + 1
        /\ \A i \in 1 .. Len(memlist) + 1 :
               r.list[i] = IF i < k + 1 THEN memlist[i]
                           ELSE IF i = k + 1 THEN b ELSE memlist[i - 1]
    BY <1>1, <2>1, <2>2, InsertAtElements
  <2>4. \A i \in 1 .. Len(memlist) + 1 :
            \/ i = k + 1 /\ r.list[i] = b
            \/ i <= k /\ i \in 1 .. Len(memlist) /\ r.list[i] = memlist[i]
            \/ i > k + 1 /\ i - 1 \in k + 1 .. Len(memlist) /\ i - 1 \in 1 .. Len(memlist)
               /\ r.list[i] = memlist[i - 1]
    BY <1>1, <2>3
  <2>5. \A j \in 1 .. Len(r.list) : InHeap(r.list[j]) BY <1>1, <2>3, <2>4
  <2>6. \A i \in 1 .. k : End(memlist[i]) # b.addr
    <3> SUFFICES ASSUME NEW i \in 1 .. k PROVE End(memlist[i]) # b.addr
      OBVIOUS
    <3>1. i \in 1 .. Len(memlist) /\ k \in 1 .. Len(memlist) BY <1>1
    <3>2. CASE i = k BY <3>1, <3>2, <1>7
    <3>3. CASE i < k
      <4>1. /\ InHeap(memlist[i]) /\ InHeap(memlist[k])
            /\ End(memlist[i]) <= memlist[k].addr /\ End(memlist[k]) <= b.addr
        BY <1>1, <1>2, <1>3, <3>1, <3>3
      <4>2. End(memlist[i]) < b.addr BY SMTT(30), <4>1 DEF InHeap, End
      <4> QED BY <4>1, <4>2 DEF InHeap, End
    <3> QED BY <3>1, <3>2, <3>3
  <2>7. Ordered(r.list, k + 1)
    <3> SUFFICES ASSUME NEW i \in 1 .. Len(memlist) + 1, NEW j \in 1 .. Len(memlist) + 1, i < j
                 PROVE  /\ End(r.list[i]) <= r.list[j].addr
                        /\ End(r.list[i]) = r.list[j].addr => i = k + 1 /\ j = (k + 1) + 1
      BY ZenonT(30), <2>3 DEF Ordered
    <3>1. CASE i = k + 1
      <4>1. r.list[i] = b /\ j > k + 1 /\ j - 1 \in k + 1 .. Len(memlist)
            /\ j - 1 \in 1 .. Len(memlist) /\ r.list[j] = memlist[j - 1]
        BY <1>1, <2>4, <3>1
      <4>2. End(b) <= memlist[j - 1].addr BY <1>4, <4>1
      <4>3. CASE j = (k + 1) + 1 BY <4>1, <4>2, <4>3, <3>1
      <4>4. CASE j # (k + 1) + 1
        <5>1. k + 1 \in 1 .. Len(memlist) /\ k + 1 < j - 1 /\ k + 1 \in k + 1 .. Len(memlist)
          BY <1>1, <4>1, <4>4
        <5>2. /\ InHeap(memlist[k + 1]) /\ InHeap(memlist[j - 1])
              /\ End(memlist[k + 1]) <= memlist[j - 1].addr /\ End(b) <= memlist[k + 1].addr
          BY <5>1, <4>1, <1>1, <1>2, <1>4
        <5>3. End(b) # memlist[j - 1].addr BY <5>2, BeyondOrdered
        <5> QED BY <5>3, <4>1, <4>2
      <4> QED BY <4>3, <4>4
    <3>2. CASE j = k + 1
      <4>1. i \in 1 .. k /\ r.list[i] = memlist[i] /\ r.list[j] = b BY <1>1, <2>4, <3>2
      <4> QED BY <4>1, <1>3, <2>6
    <3>3. CASE i # k + 1 /\ j # k + 1
      <4>1. PICK a, c \in 1 .. Len(memlist) :
                a < c /\ r.list[i] = memlist[a] /\ r.list[j] = memlist[c]
        <5>1. k \in Nat BY <1>1
        <5>2. PICK a \in 1 .. Len(memlist) :
                  r.list[i] = memlist[a] /\ ((a = i /\ i <= k) \/ (a = i - 1 /\ i > k + 1))
          BY <2>4, <3>3
        <5>3. PICK c \in 1 .. Len(memlist) :
                  r.list[j] = memlist[c] /\ ((c = j /\ j <= k) \/ (c = j - 1 /\ j > k + 1))
          BY <2>4, <3>3
        <5>4. a < c BY <5>1, <5>2, <5>3
        <5> QED BY <5>2, <5>3, <5>4
      <4> QED BY <4>1, <1>2
    <3> QED BY <3>1, <3>2, <3>3
  <2>8. \A h \in given : \A i \in 1 .. Len(r.list) : Apart(h, r.list[i])
    <3>1. \A h \in given : Apart(h, b) BY DEF Apart
    <3> QED BY <3>1, <1>5, <2>3, <2>4
  <2>9. r.at \in 1 .. Len(r.list) BY <1>1, <2>1, <2>2, <2>3
  <2> QED BY <2>2, <2>3, <2>5, <2>7, <2>8, <2>9 DEF Listed, InUse
<1> QED BY <1>6, <1>7

(* What freemem() puts on the list, in one way or the other, is what it    *)
(* was given, and that was not on it.                                      *)
LEMMA WithPreviousCells ==
    ASSUME Listed(memlist, 0), NEW b \in Blocks, InHeap(b),
           NEW k \in 0 .. Len(memlist), WalkEnds(b, k), ~Overlaps(b, k),
           NEW r, r = WithPrevious(b, k)
    PROVE  /\ OnList(r.list) = OnList(memlist) \cup Cells(b)
           /\ OnList(memlist) \cap Cells(b) = {}
<1>1. /\ memlist \in Seq(Blocks) /\ Len(memlist) \in Nat
      /\ \A j \in 1 .. Len(memlist) : memlist[j] \in Blocks /\ InHeap(memlist[j])
      /\ Ordered(memlist, 0)
  BY LenProperties DEF Listed
<1>2. \A j \in 1 .. Len(memlist) : Apart(memlist[j], b)
  <2> SUFFICES ASSUME NEW j \in 1 .. Len(memlist) PROVE Apart(memlist[j], b)
    OBVIOUS
  <2>1. CASE j = k
    <3>1. End(memlist[k]) <= b.addr BY <2>1, <1>1 DEF Overlaps, InHeap, End
    <3> QED BY <3>1, <2>1 DEF Apart
  <2>2. CASE j < k
    <3>1. k \in 1 .. Len(memlist) /\ End(memlist[j]) <= memlist[k].addr
      BY <2>2, <1>1 DEF Ordered
    <3>2. memlist[k].addr < b.addr BY <3>1 DEF WalkEnds
    <3>3. InHeap(memlist[j]) /\ InHeap(memlist[k]) BY <3>1, <1>1
    <3> QED BY <3>1, <3>2, <3>3 DEF InHeap, End, Apart
  <2>3. CASE j = k + 1
    <3>1. k < Len(memlist) /\ InHeap(memlist[k + 1]) BY <2>3, <1>1
    <3>2. End(b) <= memlist[k + 1].addr BY <3>1 DEF Overlaps, InHeap, End
    <3> QED BY <3>2, <2>3 DEF Apart
  <2>4. CASE j > k + 1
    <3>1. k + 1 \in 1 .. Len(memlist) /\ k < Len(memlist) BY <2>4, <1>1
    <3>2. End(memlist[k + 1]) <= memlist[j].addr /\ InHeap(memlist[k + 1]) /\ InHeap(memlist[j])
      BY <3>1, <2>4, <1>1 DEF Ordered
    <3>3. End(b) <= memlist[k + 1].addr BY <3>1, <3>2 DEF Overlaps, InHeap, End
    <3> QED BY SMTT(40), <3>2, <3>3 DEF InHeap, End, Apart
  <2> QED BY <2>1, <2>2, <2>3, <2>4, <1>1
<1>3. OnList(memlist) \cap Cells(b) = {} BY <1>1, <1>2, ApartCells DEF OnList
<1>4. CASE k > 0 /\ End(memlist[k]) = b.addr
  <2> DEFINE p == memlist[k]
             m == Block(p.addr, p.len + b.len)
  <2>1. k \in 1 .. Len(memlist) /\ InHeap(p) /\ p \in Blocks BY <1>1, <1>4
  <2>2. p.addr \in Nat /\ p.len + b.len \in Nat BY <2>1 DEF InHeap
  <2>3. m \in Blocks /\ m.addr = p.addr /\ m.len = p.len + b.len BY <2>2, BlockFields
  <2>4. r.list = [memlist EXCEPT ![k] = m]
    <3>1. r = [list |-> [memlist EXCEPT ![k] = [p EXCEPT !.len = p.len + b.len]], at |-> k]
      BY <1>4, Zenon DEF WithPrevious
    <3>2. [p EXCEPT !.len = p.len + b.len] = m BY <2>1, <2>2, LengthFields
    <3>3. r = [list |-> [memlist EXCEPT ![k] = m], at |-> k] BY <3>1, <3>2, Zenon
    <3> QED BY <3>3
  <2> HIDE DEF m
  <2>5. End(m) = End(b) BY <2>1, <2>3, <1>4 DEF InHeap, End
  <2>6. InHeap(m) BY <2>1, <2>3, <2>5 DEF InHeap
  <2>7. Cells(m) = Cells(p) \cup Cells(b) BY <2>1, <2>3, <2>5, <2>6, <1>4, CellsJoin
  <2>8. /\ Len(r.list) = Len(memlist)
        /\ \A j \in 1 .. Len(memlist) : r.list[j] = IF j = k THEN m ELSE memlist[j]
    BY <1>1, <2>1, <2>3, <2>4, ReplaceElements
  <2>9. OnList(r.list) = OnList(memlist) \cup Cells(b) BY <2>1, <2>7, <2>8 DEF OnList
  <2> QED BY <2>9, <1>3
<1>5. CASE ~(k > 0 /\ End(memlist[k]) = b.addr)
  <2>1. k + 1 \in 1 .. Len(memlist) + 1 BY <1>1
  <2>2. r.list = InsertAt(memlist, k + 1, b) BY <1>5 DEF WithPrevious
  <2>3. /\ Len(r.list) = Len(memlist) + 1
        /\ \A i \in 1 .. Len(memlist) + 1 :
               r.list[i] = IF i < k + 1 THEN memlist[i]
                           ELSE IF i = k + 1 THEN b ELSE memlist[i - 1]
    BY SMTT(40), <1>1, <2>1, <2>2, InsertAtElements
  <2>4. \A i \in 1 .. Len(r.list) :
            r.list[i] = b \/ \E j \in 1 .. Len(memlist) : r.list[i] = memlist[j]
    BY <1>1, <2>3
  <2>5. \A j \in 1 .. Len(memlist) : \E i \in 1 .. Len(r.list) : r.list[i] = memlist[j]
    <3> SUFFICES ASSUME NEW j \in 1 .. Len(memlist)
                 PROVE  \E i \in 1 .. Len(r.list) : r.list[i] = memlist[j]
      OBVIOUS
    <3>1. CASE j < k + 1 BY <3>1, <1>1, <2>3
    <3>2. CASE j >= k + 1
      <4>1. /\ j + 1 \in 1 .. Len(memlist) + 1 /\ ~(j + 1 < k + 1) /\ j + 1 # k + 1
            /\ (j + 1) - 1 = j
        BY <3>2, <1>1
      <4> QED BY <4>1, <2>3
    <3> QED BY <3>1, <3>2, <1>1
  <2>6. \E i \in 1 .. Len(r.list) : r.list[i] = b BY <2>1, <2>3
  <2>7. OnList(r.list) = OnList(memlist) \cup Cells(b) BY <2>4, <2>5, <2>6 DEF OnList
  <2> QED BY <2>7, <1>3
<1> QED BY <1>4, <1>5

(* Joining a block with the next one, if they touch. *)
LEMMA WithNextSound ==
    ASSUME NEW given, NEW list, NEW at \in 1 .. Len(list), Listed(list, at), InUse(list, given),
           NEW r, r = WithNext(list, at)
    PROVE  Sound(r, given)
<1>1. /\ list \in Seq(Blocks) /\ Len(list) \in Nat
      /\ \A j \in 1 .. Len(list) : list[j] \in Blocks /\ InHeap(list[j])
      /\ Ordered(list, at)
  BY LenProperties DEF Listed
<1>2. \A i, j \in 1 .. Len(list) :
          i < j => /\ End(list[i]) <= list[j].addr
                   /\ End(list[i]) = list[j].addr => i = at /\ j = at + 1
  BY <1>1 DEF Ordered
<1>3. CASE ~(at < Len(list) /\ End(list[at]) = list[at + 1].addr)
  <2>1. r = list BY <1>3 DEF WithNext
  <2>2. Ordered(list, 0)
    <3> SUFFICES ASSUME NEW i \in 1 .. Len(list), NEW j \in 1 .. Len(list), i < j
                 PROVE  End(list[i]) <= list[j].addr /\ End(list[i]) # list[j].addr
      BY DEF Ordered
    <3>1. End(list[i]) = list[j].addr => i = at /\ j = at + 1 /\ at < Len(list)
      BY <1>1, <1>2
    <3> QED BY <3>1, <1>2, <1>3
  <2> QED BY <2>1, <2>2 DEF Sound, Listed
<1>4. CASE at < Len(list) /\ End(list[at]) = list[at + 1].addr
  <2> DEFINE b == list[at]
             c == list[at + 1]
             m == Block(b.addr, b.len + c.len)
             s == RemoveAt(list, at + 1)
  <2>1. /\ at + 1 \in 1 .. Len(list) /\ b \in Blocks /\ c \in Blocks
        /\ InHeap(b) /\ InHeap(c)
    BY <1>1, <1>4
  <2>2. b.addr \in Nat /\ b.len + c.len \in Nat BY <2>1 DEF InHeap
  <2>3. /\ m \in Blocks /\ m.addr = b.addr /\ m.len = b.len + c.len
        /\ End(m) = b.addr + (b.len + c.len)
    BY <2>2, BlockFields
  <2> HIDE DEF m
  <2>4. End(m) = End(c) /\ c.addr = End(b) BY <2>1, <2>3, <1>4 DEF InHeap, End
  <2>5. InHeap(m) BY <2>1, <2>3, <2>4 DEF InHeap
  <2>6. /\ s \in Seq(Blocks) /\ Len(s) = Len(list) - 1
        /\ \A j \in 1 .. Len(list) - 1 : s[j] = IF j < at + 1 THEN list[j] ELSE list[j + 1]
    BY <1>1, <2>1, RemoveAtElements
  <2> HIDE DEF s
  <2>7. at \in 1 .. Len(s) /\ s[at] = b BY <1>1, <1>4, <2>6
  <2>8. r = [s EXCEPT ![at] = m]
    <3>1. r = [RemoveAt(list, at + 1) EXCEPT ![at].len = @ + list[at + 1].len]
      BY <1>4 DEF WithNext
    <3>2. r = [s EXCEPT ![at] = [s[at] EXCEPT !.len = s[at].len + c.len]]
      BY <3>1, Zenon DEF s
    <3>3. [b EXCEPT !.len = b.len + c.len] = m BY <2>1, <2>2, LengthFields DEF m
    <3> QED BY <3>2, <3>3, <2>7, Zenon
  <2>9. /\ r \in Seq(Blocks) /\ Len(r) = Len(s)
        /\ \A j \in 1 .. Len(s) : r[j] = IF j = at THEN m ELSE s[j]
    BY <2>3, <2>6, <2>7, <2>8, ReplaceElements
  <2>10. \A j \in 1 .. Len(r) :
            \/ j = at /\ r[j] = m
            \/ j < at /\ j \in 1 .. Len(list) /\ r[j] = list[j]
            \/ j > at /\ j + 1 \in 1 .. Len(list) /\ j + 1 > at + 1 /\ r[j] = list[j + 1]
    BY <1>1, <2>6, <2>7, <2>9
  <2>11. \A j \in 1 .. Len(r) : InHeap(r[j]) BY <1>1, <2>5, <2>10
  <2>12. Ordered(r, 0)
    <3> SUFFICES ASSUME NEW i \in 1 .. Len(r), NEW j \in 1 .. Len(r), i < j
                 PROVE  End(r[i]) <= r[j].addr /\ End(r[i]) # r[j].addr
      BY DEF Ordered
    <3>1. CASE i = at
      <4>1. r[i] = m /\ j + 1 \in 1 .. Len(list) /\ j + 1 > at + 1 /\ r[j] = list[j + 1]
        BY SMTT(30), <2>10, <3>1
      <4> QED BY <4>1, <1>2, <2>1, <2>4
    <3>2. CASE j = at
      <4>1. r[j] = m /\ i < at /\ i # at /\ i \in 1 .. Len(list) /\ r[i] = list[i]
        BY <2>10, <3>2
      <4>2. End(list[i]) <= b.addr /\ End(list[i]) # b.addr BY <4>1, <1>2
      <4> QED BY <4>1, <4>2, <2>3
    <3>3. CASE i # at /\ j # at
      <4> DEFINE a == IF i < at THEN i ELSE i + 1
                 d == IF j < at THEN j ELSE j + 1
      <4>1. a \in 1 .. Len(list) /\ a # at /\ r[i] = list[a] BY <2>10, <3>3
      <4>2. d \in 1 .. Len(list) /\ r[j] = list[d] BY <2>10, <3>3
      <4>3. a < d BY <3>3
      <4> QED BY <4>1, <4>2, <4>3, <1>2
    <3> QED BY <3>1, <3>2, <3>3
  <2>13. \A h \in given : \A i \in 1 .. Len(r) : Apart(h, r[i])
    <3> SUFFICES ASSUME NEW h \in given PROVE Apart(h, m)
      BY <2>10 DEF InUse
    <3>1. InHeap(h) /\ Apart(h, b) /\ Apart(h, c) BY <2>1 DEF InUse
    <3> QED BY <3>1, <2>1, <2>3, <2>4 DEF InHeap, End, Apart
  <2> QED BY <2>9, <2>11, <2>12, <2>13 DEF Sound, Listed, InUse
<1> QED BY <1>3, <1>4

LEMMA WithNextCells ==
    ASSUME NEW list, NEW at \in 1 .. Len(list), Listed(list, at),
           NEW r, r = WithNext(list, at)
    PROVE  OnList(r) = OnList(list)
<1>1. /\ list \in Seq(Blocks) /\ Len(list) \in Nat
      /\ \A j \in 1 .. Len(list) : list[j] \in Blocks /\ InHeap(list[j])
  BY LenProperties DEF Listed
<1>2. CASE ~(at < Len(list) /\ End(list[at]) = list[at + 1].addr)
  BY <1>2 DEF WithNext
<1>3. CASE at < Len(list) /\ End(list[at]) = list[at + 1].addr
  <2> DEFINE b == list[at]
             c == list[at + 1]
             m == Block(b.addr, b.len + c.len)
             s == RemoveAt(list, at + 1)
  <2>1. /\ at + 1 \in 1 .. Len(list) /\ b \in Blocks /\ c \in Blocks
        /\ InHeap(b) /\ InHeap(c)
    BY <1>1, <1>3
  <2>2. b.addr \in Nat /\ b.len + c.len \in Nat BY <2>1 DEF InHeap
  <2>3. m \in Blocks /\ m.addr = b.addr /\ m.len = b.len + c.len BY <2>2, BlockFields
  <2>4. [b EXCEPT !.len = b.len + c.len] = m BY <2>1, <2>2, LengthFields
  <2> HIDE DEF m
  <2>5. End(m) = End(c) /\ c.addr = End(b) BY <2>1, <2>3, <1>3 DEF InHeap, End
  <2>6. InHeap(m) BY <2>1, <2>3, <2>5 DEF InHeap
  <2>7. Cells(m) = Cells(b) \cup Cells(c) BY <2>1, <2>3, <2>5, <2>6, CellsJoin
  <2>8. /\ s \in Seq(Blocks) /\ Len(s) = Len(list) - 1
        /\ \A j \in 1 .. Len(list) - 1 : s[j] = IF j < at + 1 THEN list[j] ELSE list[j + 1]
    BY <1>1, <2>1, RemoveAtElements
  <2>9. r = [s EXCEPT ![at] = [s[at] EXCEPT !.len = s[at].len + c.len]]
    <3>1. r = [RemoveAt(list, at + 1) EXCEPT ![at].len = @ + list[at + 1].len]
      BY <1>3 DEF WithNext
    <3> QED BY <3>1, Zenon
  <2> HIDE DEF s
  <2>10. at \in 1 .. Len(s) /\ s[at] = b BY <1>1, <1>3, <2>8
  <2>11. r = [s EXCEPT ![at] = m] BY <2>4, <2>9, <2>10, Zenon
  <2>12. /\ Len(r) = Len(list) - 1
         /\ \A j \in 1 .. Len(s) : r[j] = IF j = at THEN m ELSE s[j]
    BY <2>3, <2>8, <2>10, <2>11, ReplaceElements
  <2>13. \A j \in 1 .. Len(r) :
             r[j] = m \/ \E i \in 1 .. Len(list) : r[j] = list[i]
    BY SMTT(40), <1>1, <2>8, <2>12
  <2>14. \A i \in 1 .. Len(list) :
             i \in {at, at + 1} \/ \E j \in 1 .. Len(r) : r[j] = list[i]
    <3> SUFFICES ASSUME NEW i \in 1 .. Len(list), i # at, i # at + 1
                 PROVE  \E j \in 1 .. Len(r) : r[j] = list[i]
      OBVIOUS
    <3>1. CASE i < at
      <4>1. i \in 1 .. Len(r) /\ i # at /\ i < at + 1 /\ i \in 1 .. Len(s)
        BY <3>1, <1>1, <1>3, <2>8, <2>12
      <4> QED BY <4>1, <2>8, <2>12
    <3>2. CASE i > at + 1
      <4>1. /\ i - 1 \in 1 .. Len(r) /\ i - 1 # at /\ ~(i - 1 < at + 1) /\ (i - 1) + 1 = i
            /\ i - 1 \in 1 .. Len(s) /\ i - 1 \in 1 .. Len(list) - 1
        BY <3>2, <1>1, <1>3, <2>8, <2>12
      <4> QED BY <4>1, <2>8, <2>12
    <3> QED BY <3>1, <3>2, <1>1
  <2>15. \E j \in 1 .. Len(r) : r[j] = m BY <2>8, <2>10, <2>12
  <2>16. OnList(r) \subseteq OnList(list) BY <2>1, <2>7, <2>13 DEF OnList
  <2>17. OnList(list) \subseteq OnList(r)
    <3> SUFFICES ASSUME NEW i \in 1 .. Len(list) PROVE Cells(list[i]) \subseteq OnList(r)
      BY DEF OnList
    <3>1. CASE i \in {at, at + 1}
      <4>1. Cells(list[i]) \subseteq Cells(m) BY <3>1, <2>7
      <4> QED BY <4>1, <2>15 DEF OnList
    <3>2. CASE i \notin {at, at + 1} BY <3>2, <2>14 DEF OnList
    <3> QED BY <3>1, <3>2
  <2> QED BY <2>16, <2>17
<1> QED BY <1>2, <1>3

(* freemem() of a block that is apart from all those in use. *)
LEMMA FreememStep ==
    ASSUME NEW given, Sound(memlist, given), NEW b \in Blocks, InHeap(b),
           \A h \in given : Apart(b, h), Freemem(b)
    PROVE  Sound(memlist', given)
<1>1. PICK k \in 0 .. Len(memlist) :
          /\ WalkEnds(b, k)
          /\ ~Overlaps(b, k)
          /\ memlist' = LET r == WithPrevious(b, k) IN WithNext(r.list, r.at)
  BY DEF Freemem
<1> DEFINE r == WithPrevious(b, k)
<1>2. memlist' = WithNext(r.list, r.at) BY <1>1
<1> HIDE DEF r
<1>3. r.at \in 1 .. Len(r.list) /\ Listed(r.list, r.at) /\ InUse(r.list, given)
  BY <1>1, WithPreviousListed DEF Sound, r
<1> QED BY <1>2, <1>3, WithNextSound

LEMMA FreememAccounted ==
    ASSUME NEW given, Sound(memlist, given), NEW b \in Blocks, InHeap(b),
           \A h \in given : Apart(b, h), Freemem(b), Accounted,
           Covers(held) \subseteq Covers(held') \cup Cells(b)
    PROVE  Accounted'
<1>1. PICK k \in 0 .. Len(memlist) :
          /\ WalkEnds(b, k)
          /\ ~Overlaps(b, k)
          /\ memlist' = LET r == WithPrevious(b, k) IN WithNext(r.list, r.at)
  BY DEF Freemem
<1> DEFINE r == WithPrevious(b, k)
<1>2. memlist' = WithNext(r.list, r.at) BY <1>1
<1>3. mlength' = mlength + b.len BY DEF Freemem
<1> HIDE DEF r
<1>4. r.at \in 1 .. Len(r.list) /\ Listed(r.list, r.at)
  BY <1>1, WithPreviousListed DEF Sound, r
<1>5. Listed(memlist, 0) /\ \A i \in 1 .. Len(memlist) : InHeap(memlist[i]) BY DEF Sound, Listed
<1>6. OnList(r.list) = OnList(memlist) \cup Cells(b) /\ OnList(memlist) \cap Cells(b) = {}
  BY <1>1, <1>5, WithPreviousCells DEF r
<1>7. OnList(memlist') = OnList(memlist) \cup Cells(b) BY <1>2, <1>4, <1>6, WithNextCells
<1>8. Cardinality(OnList(memlist) \cup Cells(b)) = Cardinality(OnList(memlist)) + b.len
  <2>1. IsFiniteSet(OnList(memlist)) /\ IsFiniteSet(Cells(b)) /\ Cardinality(Cells(b)) = b.len
    BY <1>5, OnListFinite, CellsFacts
  <2> QED BY <2>1, <1>6, CardinalityOfBoth
<1> QED BY <1>3, <1>7, <1>8 DEF Accounted

(* A part of what is held is a block of the heap, apart from what the rest *)
(* of the holders have and from what the holder keeps.                     *)
LEMMA FreeHeldStep ==
    ASSUME MemInv, FreeHeld
    PROVE  MemInv' /\ (Accounted => Accounted')
<1>1. PICK h \in held : \E b \in Parts(h) :
          /\ Freemem(b)
          /\ held' = (held \ {h}) \cup {r \in Kept(h, b) : r.len > 0}
  BY DEF FreeHeld
<1>2. PICK b \in Parts(h) :
          /\ Freemem(b)
          /\ held' = (held \ {h}) \cup {r \in Kept(h, b) : r.len > 0}
  BY <1>1
<1>3. InHeap(h) /\ Listed(memlist, 0) /\ InUse(memlist, held) BY DEF MemInv, Sound, InUse
<1>4. /\ b.addr \in Nat /\ b.len \in Nat /\ b.len > 0 /\ b \in Blocks
      /\ h.addr <= b.addr /\ End(b) <= End(h)
  BY <1>3 DEF Parts, InHeap, End, Blocks
<1>5. InHeap(b) BY <1>3, <1>4, MemAssumption DEF InHeap, End
<1>6. \A g \in held' \ held : InHeap(g) /\ Apart(b, g) /\ h.addr <= g.addr /\ End(g) <= End(h)
  <2> SUFFICES ASSUME NEW g \in Kept(h, b), g.len > 0
               PROVE  InHeap(g) /\ Apart(b, g) /\ h.addr <= g.addr /\ End(g) <= End(h)
    BY <1>2
  <2>1. CASE g = [addr |-> h.addr, len |-> b.addr - h.addr, by |-> h.by]
    <3>1. g.addr = h.addr /\ g.len = b.addr - h.addr BY <2>1
    <3> QED BY <3>1, <1>3, <1>4, <1>5, MemAssumption DEF InHeap, End, Apart
  <2>2. CASE g = [addr |-> End(b), len |-> End(h) - End(b), by |-> h.by]
    <3>1. g.addr = End(b) /\ g.len = End(h) - End(b) BY <2>2
    <3> QED BY <3>1, <1>3, <1>4, <1>5, MemAssumption DEF InHeap, End, Apart
  <2> QED BY <2>1, <2>2 DEF Kept
<1>7. \A g \in held : g # h => InHeap(g) /\ Apart(g, h) BY DEF MemInv, Sound, InUse
<1>8. \A g \in held' : (g \in held /\ g # h) \/ g \in held' \ held \/ g = h
  OBVIOUS
<1>9. ASSUME h \in held' PROVE FALSE
  <2>1. h \in Kept(h, b) BY <1>2, <1>9
  <2>2. CASE h = [addr |-> h.addr, len |-> b.addr - h.addr, by |-> h.by]
    <3>1. h.len = b.addr - h.addr BY <2>2
    <3> QED BY <3>1, <1>3, <1>4 DEF InHeap, End
  <2>3. CASE h = [addr |-> End(b), len |-> End(h) - End(b), by |-> h.by]
    <3>1. h.addr = End(b) BY <2>3
    <3> QED BY <3>1, <1>3, <1>4 DEF InHeap, End
  <2> QED BY <2>1, <2>2, <2>3 DEF Kept
<1>10. \A g \in held' : InHeap(g) /\ Apart(b, g)
  <2> SUFFICES ASSUME NEW g \in held, g # h PROVE Apart(b, g)
    BY <1>6, <1>7, <1>8, <1>9
  <2>1. InHeap(g) /\ Apart(g, h) BY <1>7
  <2> QED BY <2>1, <1>3, <1>4, <1>5, InsideApart
<1>11. \A g \in held' : \A i \in 1 .. Len(memlist) : Apart(g, memlist[i])
  <2> SUFFICES ASSUME NEW g \in held' \ held, NEW i \in 1 .. Len(memlist)
               PROVE  Apart(g, memlist[i])
    BY <1>3, <1>8, <1>9 DEF InUse
  <2>1. InHeap(memlist[i]) /\ Apart(h, memlist[i]) BY <1>3 DEF Listed, InUse
  <2>2. Apart(memlist[i], h) BY <2>1 DEF Apart
  <2> QED BY <2>1, <2>2, <1>3, <1>6, InsideApart
<1>12. \A g, f \in held' : g # f => Apart(g, f)
  <2> SUFFICES ASSUME NEW g \in held', NEW f \in held', g # f PROVE Apart(g, f)
    OBVIOUS
  <2>1. CASE g \in held /\ f \in held BY <2>1, <1>3 DEF InUse
  <2>2. CASE g \in held /\ f \notin held
    <3>1. InHeap(g) /\ Apart(g, h) BY <2>2, <1>7, <1>9
    <3> QED BY <3>1, <2>2, <1>3, <1>6, InsideApart
  <2>3. CASE g \notin held /\ f \in held
    <3>1. InHeap(f) /\ Apart(f, h) BY <2>3, <1>7, <1>9
    <3> QED BY <3>1, <2>3, <1>3, <1>6, InsideApart
  <2>4. CASE g \notin held /\ f \notin held
    <3>1. g \in Kept(h, b) /\ f \in Kept(h, b) BY <2>4, <1>2
    <3> DEFINE low == [addr |-> h.addr, len |-> b.addr - h.addr, by |-> h.by]
               high == [addr |-> End(b), len |-> End(h) - End(b), by |-> h.by]
    <3>2. /\ low.addr = h.addr /\ low.len = b.addr - h.addr
          /\ high.addr = End(b) /\ high.len = End(h) - End(b)
      OBVIOUS
    <3>3. {g, f} = {low, high} BY <3>1 DEF Kept
    <3> HIDE DEF low, high
    <3>4. End(low) <= high.addr BY <3>2, <1>3, <1>4, <1>5 DEF InHeap, End
    <3> QED BY <3>3, <3>4 DEF Apart
  <2> QED BY <2>1, <2>2, <2>3, <2>4
<1>13. Sound(memlist, held')
  BY <1>3, <1>10, <1>11, <1>12 DEF Sound, InUse
<1>14. Sound(memlist', held') BY <1>2, <1>4, <1>5, <1>10, <1>13, FreememStep
<1>15. Covers(held) \subseteq Covers(held') \cup Cells(b)
  <2> SUFFICES ASSUME NEW c \in Cells(h), c \notin Cells(b) PROVE c \in Covers(held')
    BY <1>2 DEF Covers, Cells
  <2>1. c \in Int /\ h.addr <= c /\ c < End(h) /\ (c < b.addr \/ End(b) <= c)
    BY <1>3, <1>4 DEF Cells, InHeap, End
  <2>2. ASSUME NEW g \in Kept(h, b), g.len > 0, c \in g.addr .. End(g) - 1
        PROVE  c \in Covers(held')
    BY <1>2, <2>2 DEF Covers
  <2>3. CASE c < b.addr
    <3> DEFINE g == [addr |-> h.addr, len |-> b.addr - h.addr, by |-> h.by]
    <3>1. g.addr = h.addr /\ g.len = b.addr - h.addr /\ g \in Kept(h, b) BY DEF Kept
    <3> HIDE DEF g
    <3>2. g.len > 0 /\ c \in g.addr .. End(g) - 1
      BY <3>1, <2>1, <2>3, <1>3, <1>4 DEF End, InHeap
    <3> QED BY <3>1, <3>2, <2>2
  <2>4. CASE End(b) <= c
    <3> DEFINE g == [addr |-> End(b), len |-> End(h) - End(b), by |-> h.by]
    <3>1. g.addr = End(b) /\ g.len = End(h) - End(b) /\ g \in Kept(h, b) BY DEF Kept
    <3> HIDE DEF g
    <3>2. g.len > 0 /\ c \in g.addr .. End(g) - 1
      BY <3>1, <2>1, <2>4, <1>3, <1>4 DEF End, InHeap
    <3> QED BY <3>1, <3>2, <2>2
  <2> QED BY <2>1, <2>3, <2>4
<1>16. Accounted => Accounted'
  BY <1>2, <1>4, <1>5, <1>10, <1>13, <1>15, FreememAccounted
<1> QED BY <1>14, <1>16 DEF MemInv

LEMMA FreeAgainStep ==
    ASSUME MemInv, FreeAgain
    PROVE  MemInv' /\ (Accounted => Accounted')
<1>1. PICK b \in Parts(Block(0, HeapSize)) :
          (\A h \in held : Apart(b, h)) /\ Freemem(b) /\ UNCHANGED held
  BY DEF FreeAgain
<1>2. b \in Blocks /\ InHeap(b)
  <2>1. /\ Block(0, HeapSize).addr = 0 /\ Block(0, HeapSize).len = HeapSize
        /\ End(Block(0, HeapSize)) = 0 + HeapSize
    BY MemAssumption, BlockFields
  <2> QED BY <2>1, MemAssumption DEF Parts, InHeap, End, Blocks
<1>3. Sound(memlist', held) BY <1>1, <1>2, FreememStep DEF MemInv
<1>4. Covers(held) \subseteq Covers(held') \cup Cells(b) BY <1>1
<1>5. Accounted => Accounted' BY <1>1, <1>2, <1>4, FreememAccounted DEF MemInv
<1> QED BY <1>1, <1>3, <1>5 DEF MemInv

LEMMA PoolBytesPositive ==
    ASSUME NEW bufsiz \in BufSizes, NEW numbufs \in NumBufs
    PROVE  PoolBytes(bufsiz, numbufs) \in Nat \ {0}
<1> DEFINE size == ((bufsiz + 3) \div 4) * 4 + 4
<1>1. numbufs \in Nat \ {0} /\ bufsiz \in 8 .. 8192 BY SMTT(30), PoolAssumption
<1>2. size \in Nat \ {0} BY <1>1
<1> HIDE DEF size
<1>3. numbufs * size \in Nat \ {0} BY <1>1, <1>2
<1> QED BY <1>3 DEF PoolBytes, size

LEMMA MemInvInit ==
    ASSUME PoolInit
    PROVE  MemInv /\ Accounted
<1>1. memlist = <<Block(0, HeapSize)>> /\ held = {} BY DEF PoolInit, MemInit
<1>2. /\ Block(0, HeapSize) \in Blocks /\ Block(0, HeapSize).addr = 0
      /\ Block(0, HeapSize).len = HeapSize /\ End(Block(0, HeapSize)) = 0 + HeapSize
  BY MemAssumption, BlockFields
<1>3. memlist \in Seq(Blocks) /\ Len(memlist) = 1 /\ memlist[1] = Block(0, HeapSize)
  BY <1>1, <1>2
<1>4. InHeap(memlist[1]) BY <1>2, <1>3, MemAssumption DEF InHeap
<1>5. MemInv BY <1>1, <1>3, <1>4 DEF MemInv, Sound, Listed, InUse, Ordered
<1>6. OnList(memlist) = Cells(memlist[1]) BY <1>3 DEF OnList
<1>7. Cells(memlist[1]) = 0 .. HeapSize - 1 BY <1>2, <1>3, MemAssumption DEF Cells
<1>8. mlength = memlist[1].len BY <1>2, <1>3 DEF PoolInit, MemInit
<1>9. Accounted BY <1>4, <1>6, <1>7, <1>8, CellsFacts DEF Accounted
<1> QED BY <1>5, <1>9

LEMMA MemInvStep ==
    ASSUME MemInv, [PoolNext]_vars
    PROVE  MemInv' /\ (Accounted => Accounted')
<1>1. CASE UNCHANGED memVars BY <1>1 DEF memVars, MemInv, Accounted
<1>2. CASE MemNext
  <2>1. ASSUME NEW nbytes \in Requests, Getmem(nbytes, "heap") \/ Getstk(nbytes)
        PROVE  MemInv' /\ (Accounted => Accounted')
    <3>1. Roundmb(nbytes) \in Nat \ {0} BY MemAssumption, RoundmbPositive
    <3> QED BY <2>1, <3>1, GetmemStep, GetstkStep
  <2> QED BY <1>2, <2>1, FreeHeldStep, FreeAgainStep DEF MemNext
<1>3. ASSUME NEW bufsiz \in BufSizes, NEW numbufs \in NumBufs, Mkbufpool(bufsiz, numbufs)
      PROVE  MemInv' /\ (Accounted => Accounted')
  <2>1. Roundmb(PoolBytes(bufsiz, numbufs)) \in Nat \ {0} BY PoolBytesPositive, RoundmbPositive
  <2>2. Getmem(PoolBytes(bufsiz, numbufs), "pool") BY <1>3 DEF Mkbufpool
  <2> QED BY <2>1, <2>2, GetmemStep
<1>4. ASSUME NEW p \in Procs, GetbufWoken(p) PROVE UNCHANGED memVars
  BY <1>4 DEF GetbufWoken
<1>5. ASSUME NEW p \in Procs, NEW k, Getbuf(p, k) \/ GetbufWait(p, k) PROVE UNCHANGED memVars
  BY <1>5 DEF Getbuf, GetbufWait
<1>6. ASSUME NEW p \in Procs, NEW k, NEW b, Freebuf(p, k, b) PROVE UNCHANGED memVars
  BY <1>6 DEF Freebuf
<1> QED BY <1>1, <1>2, <1>3, <1>4, <1>5, <1>6 DEF PoolNext, vars

(* From any sequence of calls of the heap and of mkbufpool() the free list *)
(* stays in the order of the addresses, its blocks apart and within the    *)
(* heap.                                                                   *)
THEOREM FreeListSound == PoolSpec => []FreeListOK
<1>1. ASSUME MemInv PROVE FreeListOK
  <2>1. /\ memlist \in Seq(Blocks) /\ DOMAIN memlist = 1 .. Len(memlist)
        /\ \A i \in 1 .. Len(memlist) : memlist[i] \in Blocks /\ InHeap(memlist[i])
        /\ Ordered(memlist, 0)
    BY <1>1, LenProperties DEF MemInv, Sound, Listed
  <2>2. ASSUME NEW i \in DOMAIN memlist
        PROVE  memlist[i] \in [addr : Nat, len : Nat \ {0}] /\ End(memlist[i]) <= HeapSize
    BY <2>1 DEF InHeap, Blocks
  <2>3. ASSUME NEW i \in DOMAIN memlist, NEW j \in DOMAIN memlist, i < j
        PROVE  End(memlist[i]) < memlist[j].addr
    <3>1. /\ InHeap(memlist[i]) /\ InHeap(memlist[j])
          /\ End(memlist[i]) <= memlist[j].addr /\ End(memlist[i]) # memlist[j].addr
      BY <2>1, <2>3 DEF Ordered
    <3>2. End(memlist[i]) <= End(memlist[i]) /\ memlist[j].addr <= memlist[j].addr
      BY <3>1 DEF InHeap, End
    <3> QED BY <3>1, <3>2, InsideOrdered
  <2> QED BY <2>2, <2>3 DEF FreeListOK
<1> QED BY <1>1, MemInvInit, MemInvStep, PTL DEF PoolSpec

(* And getmem(), getstk() and mkbufpool() give no memory out twice.        *)
THEOREM NothingGivenTwice == PoolSpec => []NothingTwice
<1>1. MemInv => NothingTwice
  BY LenProperties DEF MemInv, Sound, Listed, InUse, NothingTwice
<1> QED BY <1>1, MemInvInit, MemInvStep, PTL DEF PoolSpec

(* No memory is lost, whatever is split, joined, given back in part or     *)
(* twice: what mlength says is on the free list is on it, and every block  *)
(* of the heap that is not there is in use.                                *)
THEOREM AllMemoryAccounted == PoolSpec => []MemoryAccounted
<1>1. ASSUME MemInv, Accounted PROVE MemoryAccounted
  <2>1. memlist \in Seq(Blocks) /\ \A i \in 1 .. Len(memlist) : InHeap(memlist[i])
    BY <1>1 DEF MemInv, Sound, Listed
  <2>2. OnList(memlist) = Covers(ToSet(memlist)) /\ OnList(memlist) \subseteq 0 .. HeapSize - 1
    BY <2>1, OnListIs, OnListFinite
  <2>3. Covers(held) \subseteq 0 .. HeapSize - 1
    <3>1. \A h \in held : Cells(h) \subseteq 0 .. HeapSize - 1
      BY <1>1, CellsFacts DEF MemInv, Sound, InUse
    <3> QED BY <3>1 DEF Covers, Cells
  <2> QED BY <1>1, <2>2, <2>3 DEF Accounted, MemoryAccounted
<1> QED BY <1>1, MemInvInit, MemInvStep, PTL DEF PoolSpec
----------------------------------------------------------------------------
(***************************************************************************)
(* The buffer pools.  The chain of a pool is as long as its semaphore and  *)
(* those on their way through getbuf() say, because a token is handed to a *)
(* process only with a buffer put into the chain; and a buffer is never    *)
(* twice in the chain or had twice, because a process gives back only what *)
(* it has.                                                                 *)
(***************************************************************************)
Bufs == Nat \X Nat
Calls == [at : {"user", "wait", "woken"}, pool : Nat]

WaitsFor(k) == {p \in Procs : pc[p] = [at |-> "wait", pool |-> k]}

(* A pool for which `waiting' wait and `way' are on their way. *)
Counted(pool, waiting, way) ==
    /\ pool = [chain |-> pool.chain, sem |-> pool.sem]
    /\ pool.chain \in Seq(Nat) /\ IsInjective(pool.chain)
    /\ Holds(pool.sem, waiting)
    /\ IsFiniteSet(way)
    /\ Len(pool.chain) = Tokens(pool.sem) + Cardinality(way)

PoolTypes ==
    /\ DOMAIN buftab = 1 .. Len(buftab) /\ Len(buftab) \in Nat
    /\ buftab = [k \in 1 .. Len(buftab) |-> buftab[k]]
    /\ pc \in [Procs -> Calls]
    /\ \A p \in Procs : IF pc[p].at = "user" THEN pc[p] = Idle ELSE pc[p].pool \in DOMAIN buftab
    /\ has \in [Procs -> SUBSET Bufs]
    /\ \A p \in Procs : \A b \in has[p] : b[1] \in DOMAIN buftab

HadOnce == \A p, q \in Procs : p # q => has[p] \cap has[q] = {}

InChain(k, pool) == \A p \in Procs : \A b \in ToSet(pool.chain) : <<k, b>> \notin has[p]

PoolInv ==
    /\ PoolTypes
    /\ \A k \in DOMAIN buftab : Counted(buftab[k], WaitsFor(k), OnTheirWay(k))
    /\ HadOnce
    /\ \A k \in DOMAIN buftab : InChain(k, buftab[k])

LEMMA TailOfChain ==
    ASSUME NEW c \in Seq(Nat), IsInjective(c), c # <<>>
    PROVE  /\ Tail(c) \in Seq(Nat) /\ IsInjective(Tail(c)) /\ Len(Tail(c)) = Len(c) - 1
           /\ Head(c) \in Nat /\ Head(c) \in ToSet(c)
           /\ \A b \in ToSet(Tail(c)) : b \in ToSet(c) /\ b # Head(c)
<1>1. Len(c) \in Nat \ {0} /\ DOMAIN c = 1 .. Len(c) BY LenProperties, EmptySeq
<1>2. /\ Head(c) = c[1] /\ Head(c) \in Nat /\ Tail(c) \in Seq(Nat)
      /\ Len(Tail(c)) = Len(c) - 1 /\ \A i \in 1 .. Len(c) - 1 : Tail(c)[i] = c[i + 1]
  BY HeadTailProperties
<1>3. DOMAIN Tail(c) = 1 .. Len(c) - 1 BY <1>2, LenProperties
<1>4. \A i \in 1 .. Len(c) - 1 : i + 1 \in 1 .. Len(c) /\ i + 1 # 1 BY <1>1
<1>5. 1 \in 1 .. Len(c) BY <1>1
<1>6. \A i, j \in 1 .. Len(c) : c[i] = c[j] => i = j BY <1>1 DEF IsInjective
<1>7. IsInjective(Tail(c))
  <2> SUFFICES ASSUME NEW i \in 1 .. Len(c) - 1, NEW j \in 1 .. Len(c) - 1, Tail(c)[i] = Tail(c)[j]
               PROVE  i = j
    BY <1>3 DEF IsInjective
  <2>1. i + 1 = j + 1 BY <1>2, <1>4, <1>6
  <2> QED BY <2>1
<1>8. Head(c) \in ToSet(c) BY <1>1, <1>2, <1>5 DEF ToSet
<1>9. \A b \in ToSet(Tail(c)) : b \in ToSet(c) /\ b # Head(c)
  <2> SUFFICES ASSUME NEW i \in 1 .. Len(c) - 1
               PROVE  Tail(c)[i] \in ToSet(c) /\ Tail(c)[i] # Head(c)
    BY <1>3 DEF ToSet
  <2>1. Tail(c)[i] = c[i + 1] /\ i + 1 \in 1 .. Len(c) /\ i + 1 # 1 BY <1>2, <1>4
  <2>2. c[i + 1] # c[1] BY <2>1, <1>5, <1>6
  <2> QED BY <2>1, <2>2, <1>1, <1>2 DEF ToSet
<1> QED BY <1>2, <1>7, <1>8, <1>9

LEMMA PutOnChain ==
    ASSUME NEW c \in Seq(Nat), IsInjective(c), NEW b \in Nat, b \notin ToSet(c)
    PROVE  /\ <<b>> \o c \in Seq(Nat) /\ IsInjective(<<b>> \o c)
           /\ Len(<<b>> \o c) = Len(c) + 1
           /\ \A a \in ToSet(<<b>> \o c) : a = b \/ a \in ToSet(c)
<1> DEFINE s == <<b>> \o c
           n == Len(c)
<1>1. n \in Nat /\ DOMAIN c = 1 .. n BY LenProperties
<1>2. <<b>> \in Seq(Nat) /\ Len(<<b>>) = 1 /\ <<b>>[1] = b OBVIOUS
<1>3. /\ s \in Seq(Nat) /\ Len(s) = 1 + n
      /\ \A i \in 1 .. 1 + n : s[i] = IF i <= 1 THEN <<b>>[i] ELSE c[i - 1]
  BY <1>2, ConcatProperties
<1>4. DOMAIN s = 1 .. 1 + n BY <1>3, LenProperties
<1>5. \A i \in 1 .. 1 + n : \/ i = 1 /\ s[i] = b
                            \/ i # 1 /\ i - 1 \in 1 .. n /\ s[i] = c[i - 1]
  BY <1>1, <1>2, <1>3
<1> HIDE DEF s
<1>6. \A i \in 1 .. n : c[i] # b BY <1>1 DEF ToSet
<1>7. \A i, j \in 1 .. n : c[i] = c[j] => i = j BY <1>1 DEF IsInjective
<1>8. IsInjective(s)
  <2> SUFFICES ASSUME NEW i \in 1 .. 1 + n, NEW j \in 1 .. 1 + n, s[i] = s[j] PROVE i = j
    BY <1>4 DEF IsInjective
  <2>1. CASE i = 1 \/ j = 1 BY <2>1, <1>5, <1>6
  <2>2. CASE i # 1 /\ j # 1
    <3>1. i - 1 \in 1 .. n /\ j - 1 \in 1 .. n /\ c[i - 1] = s[i] /\ c[j - 1] = s[j]
      BY <2>2, <1>5
    <3>2. i - 1 = j - 1 BY <3>1, <1>7
    <3> QED BY <3>2
  <2> QED BY <2>1, <2>2
<1>9. \A a \in ToSet(s) : a = b \/ a \in ToSet(c)
  <2> SUFFICES ASSUME NEW i \in 1 .. 1 + n PROVE s[i] = b \/ s[i] \in ToSet(c)
    BY <1>4 DEF ToSet
  <2> QED BY <1>1, <1>5 DEF ToSet
<1> QED BY <1>1, <1>3, <1>8, <1>9 DEF s

(* What is left to show of a step that changes one pool. *)
LEMMA OnePoolChanges ==
    ASSUME PoolInv, NEW k \in DOMAIN buftab, NEW pool,
           buftab' = [buftab EXCEPT ![k] = pool],
           pc' \in [Procs -> Calls], has' \in [Procs -> SUBSET Bufs],
           \A p \in Procs : IF pc'[p].at = "user" THEN pc'[p] = Idle ELSE pc'[p].pool \in DOMAIN buftab,
           \A p \in Procs : \A b \in has'[p] : b[1] \in DOMAIN buftab,
           Counted(pool, WaitsFor(k)', OnTheirWay(k)'),
           \A j \in DOMAIN buftab \ {k} :
               /\ WaitsFor(j)' = WaitsFor(j) /\ OnTheirWay(j)' = OnTheirWay(j)
               /\ \A p \in Procs, b \in Nat : <<j, b>> \in has'[p] => <<j, b>> \in has[p],
           HadOnce',
           \A p \in Procs : \A b \in ToSet(pool.chain) : <<k, b>> \notin has'[p]
    PROVE  PoolInv'
<1>1. /\ DOMAIN buftab = 1 .. Len(buftab) /\ Len(buftab) \in Nat
      /\ buftab = [j \in 1 .. Len(buftab) |-> buftab[j]]
  BY DEF PoolInv, PoolTypes
<1>2. /\ DOMAIN buftab' = DOMAIN buftab /\ buftab'[k] = pool
      /\ \A j \in DOMAIN buftab \ {k} : buftab'[j] = buftab[j]
      /\ buftab' = [j \in 1 .. Len(buftab) |-> buftab'[j]]
  BY <1>1
<1>3. Len(buftab') = Len(buftab)
  <2>1. buftab' = [j \in 1 .. Len(buftab) |-> IF j = k THEN pool ELSE buftab[j]] BY <1>1
  <2> QED BY <2>1, <1>1
<1>4. PoolTypes' BY <1>1, <1>2, <1>3 DEF PoolTypes
<1>5. \A j \in DOMAIN buftab' : Counted(buftab'[j], WaitsFor(j)', OnTheirWay(j)')
  <2> SUFFICES ASSUME NEW j \in DOMAIN buftab \ {k}
               PROVE  Counted(buftab'[j], WaitsFor(j)', OnTheirWay(j)')
    BY <1>2
  <2>1. Counted(buftab[j], WaitsFor(j), OnTheirWay(j)) BY DEF PoolInv
  <2> QED BY <2>1, <1>2
<1>6. \A j \in DOMAIN buftab' : InChain(j, buftab[j])'
  <2> SUFFICES ASSUME NEW j \in DOMAIN buftab', NEW p \in Procs, NEW b \in ToSet(buftab'[j].chain)
               PROVE  <<j, b>> \notin has'[p]
    BY DEF InChain
  <2>1. CASE j = k BY <2>1, <1>2
  <2>2. CASE j # k
    <3>1. <<j, b>> \notin has[p] /\ buftab'[j] = buftab[j] BY <2>2, <1>2 DEF PoolInv, InChain
    <3>2. b \in Nat
      <4>1. buftab[j].chain \in Seq(Nat) BY <2>2, <1>2 DEF PoolInv, Counted
      <4> QED BY <3>1, <4>1, LenProperties DEF ToSet
    <3> QED BY <3>1, <3>2, <2>2, <1>2
  <2> QED BY <2>1, <2>2
<1> QED BY <1>4, <1>5, <1>6 DEF PoolInv

LEMMA CallFields ==
    ASSUME NEW call \in Calls, NEW at, NEW k
    PROVE  /\ call = [at |-> at, pool |-> k] <=> call.at = at /\ call.pool = k
           /\ call = [at |-> call.at, pool |-> call.pool]
BY DEF Calls

LEMMA InitPoolInv ==
    ASSUME PoolInit
    PROVE  PoolInv
<1>1. buftab = <<>> /\ DOMAIN buftab = {} /\ Len(buftab) = 0 /\ DOMAIN buftab = 1 .. Len(buftab)
  BY DEF PoolInit
<1>2. Idle \in Calls /\ Idle.at = "user" BY DEF Idle, Calls
<1>3. buftab = [k \in 1 .. Len(buftab) |-> buftab[k]] BY <1>1
<1>4. pc = [p \in Procs |-> Idle] /\ has = [p \in Procs |-> {}] BY DEF PoolInit
<1> QED BY <1>1, <1>2, <1>3, <1>4 DEF PoolInv, PoolTypes, HadOnce

(* The new pool has all its buffers in its chain, and nobody knows of it. *)
LEMMA MkbufpoolPoolStep ==
    ASSUME PoolInv, NEW bufsiz, NEW numbufs \in NumBufs, Mkbufpool(bufsiz, numbufs)
    PROVE  PoolInv'
<1>0. PICK n \in Nat : n = Len(buftab) BY DEF PoolInv, PoolTypes
<1> DEFINE chain == [i \in 1 .. numbufs |-> i]
           pool == [chain |-> chain, sem |-> SemWith(numbufs)]
<1>1. /\ DOMAIN buftab = 1 .. n /\ n \in Nat /\ buftab = [k \in 1 .. n |-> buftab[k]]
      /\ pc \in [Procs -> Calls] /\ has \in [Procs -> SUBSET Bufs]
  BY <1>0 DEF PoolInv, PoolTypes
<1>2. UNCHANGED <<pc, has>> BY DEF Mkbufpool
<1>3. CASE buftab' = buftab BY <1>2, <1>3 DEF PoolInv, PoolTypes, Counted, WaitsFor, OnTheirWay, HadOnce, InChain
<1>4. CASE buftab' = Append(buftab, pool)
  <2>1. numbufs \in Nat BY SMTT(40), PoolAssumption
  <2>2. /\ chain \in Seq(Nat) /\ IsInjective(chain) /\ Len(chain) = numbufs
    <3>1. chain \in [1 .. numbufs -> Nat] BY <2>1
    <3>2. chain \in Seq(Nat) BY <2>1, <3>1 DEF Seq
    <3> QED BY <2>1, <3>1, <3>2, LenProperties DEF IsInjective
  <2>3. Holds(SemWith(numbufs), {}) /\ Tokens(SemWith(numbufs)) = numbufs BY <2>1, SemHolds
  <2>4. \A p \in Procs : pc[p].at # "user" => pc[p].pool # n + 1
    BY <1>1 DEF PoolInv, PoolTypes
  <2>5. \A p \in Procs, at \in {"wait", "woken"} : pc[p] # [at |-> at, pool |-> n + 1]
    BY <2>4
  <2>6. WaitsFor(n + 1)' = {} /\ OnTheirWay(n + 1)' = {}
    BY <1>2, <2>5 DEF WaitsFor, OnTheirWay
  <2>7. pool.chain = chain /\ pool.sem = SemWith(numbufs) /\ pool = [chain |-> pool.chain, sem |-> pool.sem]
    OBVIOUS
  <2> HIDE DEF pool, chain
  <2>8. Counted(pool, WaitsFor(n + 1)', OnTheirWay(n + 1)')
    <3>1. Cardinality({}) = 0 /\ IsFiniteSet({}) BY FS_EmptySet
    <3>2. Counted(pool, {}, {}) BY <3>1, <2>1, <2>2, <2>3, <2>7 DEF Counted
    <3> QED BY <3>2, <2>6
  <2>9. \A p \in Procs : \A b \in has[p] : b[1] \in 1 .. n BY <1>1 DEF PoolInv, PoolTypes
  <2>10. \A p \in Procs : \A b : <<n + 1, b>> \notin has[p]
    <3> SUFFICES ASSUME NEW p \in Procs, NEW b, <<n + 1, b>> \in has[p] PROVE FALSE
      OBVIOUS
    <3>1. n + 1 \in 1 .. n BY <2>9
    <3> QED BY <3>1, <1>1
  <2>11. \A p \in Procs : \A b \in ToSet(pool.chain) : <<n + 1, b>> \notin has'[p] BY <1>2, <2>10
  <2>12. /\ Len(buftab') = n + 1 /\ DOMAIN buftab' = 1 .. n + 1 /\ buftab'[n + 1] = pool
         /\ \A k \in 1 .. n : buftab'[k] = buftab[k]
         /\ buftab' = [k \in 1 .. Len(buftab') |-> buftab'[k]]
    <3> DEFINE T == {buftab[k] : k \in 1 .. n} \cup {pool}
    <3>1. buftab \in Seq(T) /\ pool \in T BY <1>1, IsASeq
    <3> HIDE DEF T
    <3>2. /\ buftab' \in Seq(T) /\ Len(buftab') = n + 1 /\ buftab'[n + 1] = pool
          /\ \A k \in 1 .. n : buftab'[k] = buftab[k]
      BY <3>1, <1>0, <1>4, AppendProperties
    <3> QED BY <3>2, LenProperties
  <2>13. \A k \in 1 .. n + 1 : k = n + 1 \/ k \in 1 .. n BY <1>1
  <2>14. PoolTypes' BY <1>1, <1>2, <2>9, <2>12, <2>13 DEF PoolInv, PoolTypes
  <2>15. \A k \in DOMAIN buftab' : Counted(buftab'[k], WaitsFor(k)', OnTheirWay(k)')
    <3> SUFFICES ASSUME NEW k \in 1 .. n PROVE Counted(buftab'[k], WaitsFor(k)', OnTheirWay(k)')
      BY <2>8, <2>12, <2>13
    <3>1. WaitsFor(k)' = WaitsFor(k) /\ OnTheirWay(k)' = OnTheirWay(k)
      BY <1>2 DEF WaitsFor, OnTheirWay
    <3> QED BY <3>1, <1>1, <2>12 DEF PoolInv
  <2>16. \A k \in DOMAIN buftab' : InChain(k, buftab[k])'
    <3> SUFFICES ASSUME NEW k \in 1 .. n PROVE InChain(k, buftab[k])'
      BY <2>11, <2>12, <2>13 DEF InChain
    <3> QED BY <1>1, <1>2, <2>12 DEF PoolInv, InChain
  <2> QED BY <1>2, <2>14, <2>15, <2>16 DEF PoolInv, HadOnce
<1> QED BY <1>3, <1>4 DEF Mkbufpool

(* Whoever takes the buffer at the front has it alone. *)
LEMMA TakeBufStep ==
    ASSUME PoolInv, NEW p \in Procs, NEW k \in DOMAIN buftab, NEW sem, TakeBuf(p, k, sem),
           buftab[k].chain # <<>>,
           \/ pc' = pc
           \/ pc' = [pc EXCEPT ![p] = Idle] /\ pc[p] = [at |-> "woken", pool |-> k],
           Holds(sem, WaitsFor(k)'), IsFiniteSet(OnTheirWay(k)'),
           Len(buftab[k].chain) - 1 = Tokens(sem) + Cardinality(OnTheirWay(k)')
    PROVE  PoolInv'
<1> DEFINE c == buftab[k].chain
           b == Head(c)
           pool == [chain |-> Tail(c), sem |-> sem]
<1>1. c \in Seq(Nat) /\ IsInjective(c) BY DEF PoolInv, Counted
<1>2. /\ Tail(c) \in Seq(Nat) /\ IsInjective(Tail(c)) /\ Len(Tail(c)) = Len(c) - 1
      /\ b \in Nat /\ b \in ToSet(c)
      /\ \A a \in ToSet(Tail(c)) : a \in ToSet(c) /\ a # b
  BY <1>1, TailOfChain
<1>3. /\ pc \in [Procs -> Calls] /\ has \in [Procs -> SUBSET Bufs] /\ DOMAIN buftab \subseteq Nat
      /\ \A q \in Procs : IF pc[q].at = "user" THEN pc[q] = Idle ELSE pc[q].pool \in DOMAIN buftab
      /\ \A q \in Procs : \A d \in has[q] : d[1] \in DOMAIN buftab
  BY DEF PoolInv, PoolTypes
<1>4. buftab' = [buftab EXCEPT ![k] = pool] BY DEF TakeBuf
<1>5. pool.chain = Tail(c) /\ pool.sem = sem /\ pool = [chain |-> pool.chain, sem |-> pool.sem]
  OBVIOUS
<1>6. has' = [has EXCEPT ![p] = has[p] \cup {<<k, b>>}] BY DEF TakeBuf
<1>7. \A q \in Procs : <<k, b>> \notin has[q] BY <1>2 DEF PoolInv, InChain
<1>8. \A q \in Procs : \A a \in ToSet(c) : <<k, a>> \notin has[q] BY DEF PoolInv, InChain
<1> HIDE DEF c, b, pool
<1>9. has' \in [Procs -> SUBSET Bufs]
  <2>1. <<k, b>> \in Bufs BY <1>2, <1>3 DEF Bufs
  <2> QED BY <2>1, <1>3, <1>6
<1>10. Idle \in Calls /\ Idle.at = "user" BY DEF Idle, Calls
<1>11. pc' \in [Procs -> Calls]
       /\ \A q \in Procs : IF pc'[q].at = "user" THEN pc'[q] = Idle ELSE pc'[q].pool \in DOMAIN buftab
  BY <1>3, <1>10
<1>12. \A q \in Procs : \A d \in has'[q] : d[1] \in DOMAIN buftab
  <2>1. <<k, b>>[1] = k OBVIOUS
  <2> QED BY <2>1, <1>3, <1>6
<1>13. Counted(pool, WaitsFor(k)', OnTheirWay(k)')
  BY <1>2, <1>5 DEF Counted, c
<1>14. \A j \in DOMAIN buftab \ {k} :
           /\ WaitsFor(j)' = WaitsFor(j) /\ OnTheirWay(j)' = OnTheirWay(j)
           /\ \A q \in Procs, d \in Nat : <<j, d>> \in has'[q] => <<j, d>> \in has[q]
  <2> SUFFICES ASSUME NEW j \in DOMAIN buftab \ {k}
               PROVE  /\ WaitsFor(j)' = WaitsFor(j) /\ OnTheirWay(j)' = OnTheirWay(j)
                      /\ \A q \in Procs, d \in Nat : <<j, d>> \in has'[q] => <<j, d>> \in has[q]
    OBVIOUS
  <2>1. \A q \in Procs, at \in {"wait", "woken"} :
            pc'[q] = [at |-> at, pool |-> j] <=> pc[q] = [at |-> at, pool |-> j]
    <3>1. \A at \in {"wait", "woken"} : /\ [at |-> at, pool |-> j].at # "user"
                                        /\ [at |-> at, pool |-> j].pool # k
      OBVIOUS
    <3>2. [at |-> "woken", pool |-> k].pool = k OBVIOUS
    <3> QED BY <3>1, <3>2, <1>3, <1>10
  <2>2. \A d : <<j, d>> # <<k, b>> OBVIOUS
  <2> QED BY <2>1, <2>2, <1>3, <1>6 DEF WaitsFor, OnTheirWay
<1>15. HadOnce'
  <2> SUFFICES ASSUME NEW q \in Procs, NEW r \in Procs, q # r PROVE has'[q] \cap has'[r] = {}
    BY DEF HadOnce
  <2>1. has[q] \cap has[r] = {} BY DEF PoolInv, HadOnce
  <2> QED BY <2>1, <1>3, <1>6, <1>7
<1>16. \A q \in Procs : \A a \in ToSet(pool.chain) : <<k, a>> \notin has'[q]
  <2>1. \A a : <<k, a>> = <<k, b>> => a = b OBVIOUS
  <2> QED BY <2>1, <1>2, <1>3, <1>5, <1>6, <1>8
<1> QED BY <1>4, <1>9, <1>11, <1>12, <1>13, <1>14, <1>15, <1>16, OnePoolChanges

LEMMA ChainLength ==
    ASSUME PoolInv, NEW k \in DOMAIN buftab
    PROVE  /\ Holds(buftab[k].sem, WaitsFor(k)) /\ buftab[k].chain \in Seq(Nat)
           /\ IsInjective(buftab[k].chain)
           /\ Len(buftab[k].chain) = Tokens(buftab[k].sem) + Cardinality(OnTheirWay(k))
           /\ Tokens(buftab[k].sem) \in Nat
           /\ IsFiniteSet(OnTheirWay(k)) /\ Cardinality(OnTheirWay(k)) \in Nat
<1>1. Counted(buftab[k], WaitsFor(k), OnTheirWay(k)) BY DEF PoolInv
<1>2. Tokens(buftab[k].sem) \in Nat BY <1>1 DEF Counted, Holds, Tokens
<1>3. IsFiniteSet(OnTheirWay(k)) BY <1>1 DEF Counted
<1> QED BY <1>1, <1>2, <1>3, FS_CardinalityType DEF Counted

LEMMA GetbufStep ==
    ASSUME PoolInv, NEW p \in Procs, NEW k \in DOMAIN buftab, Getbuf(p, k)
    PROVE  PoolInv'
<1> DEFINE s == buftab[k].sem
           way == OnTheirWay(k)
<1>1. s.count > 0 /\ TakeBuf(p, k, Take(s)) /\ pc' = pc BY DEF Getbuf
<1>2. /\ Holds(s, WaitsFor(k)) /\ buftab[k].chain \in Seq(Nat)
      /\ Len(buftab[k].chain) = Tokens(s) + Cardinality(way)
      /\ Tokens(s) \in Nat /\ Cardinality(way) \in Nat /\ IsFiniteSet(way)
  BY ChainLength
<1>3. Holds(Take(s), WaitsFor(k)) /\ Tokens(Take(s)) = Tokens(s) - 1 BY <1>1, <1>2, TakeHolds
<1>4. WaitsFor(k)' = WaitsFor(k) /\ OnTheirWay(k)' = way BY <1>1 DEF WaitsFor, OnTheirWay
<1>5. Tokens(s) > 0
  <2>1. s.count \in Int BY <1>2 DEF Holds
  <2> QED BY <2>1, <1>1 DEF Tokens
<1>6. buftab[k].chain # <<>> BY <1>2, <1>5, EmptySeq
<1> HIDE DEF s, way
<1>7. Len(buftab[k].chain) - 1 = Tokens(Take(s)) + Cardinality(OnTheirWay(k)')
  <2>1. Len(buftab[k].chain) - 1 = Tokens(s) - 1 + Cardinality(way) BY <1>2
  <2> QED BY <2>1, <1>3, <1>4
<1>8. PICK sem : sem = Take(s) OBVIOUS
<1>9. Holds(sem, WaitsFor(k)') /\ IsFiniteSet(OnTheirWay(k)') BY <1>2, <1>3, <1>4, <1>8
<1>10. TakeBuf(p, k, sem) /\ pc' = pc BY <1>1, <1>8
<1>11. Len(buftab[k].chain) - 1 = Tokens(sem) + Cardinality(OnTheirWay(k)') BY <1>7, <1>8
<1> QED BY <1>6, <1>9, <1>10, <1>11, TakeBufStep

LEMMA GetbufWokenStep ==
    ASSUME PoolInv, NEW p \in Procs, GetbufWoken(p)
    PROVE  PoolInv'
<1>1. PICK k \in DOMAIN buftab : k = pc[p].pool
  BY DEF GetbufWoken, PoolInv, PoolTypes
<1> DEFINE s == buftab[k].sem
           way == OnTheirWay(k)
<1>2. pc \in [Procs -> Calls] /\ Idle \in Calls /\ Idle.at = "user"
  BY DEF PoolInv, PoolTypes, Idle, Calls
<1>3. pc[p] = [at |-> "woken", pool |-> k] BY <1>1, <1>2 DEF GetbufWoken, Calls
<1>4. TakeBuf(p, k, s) /\ pc' = [pc EXCEPT ![p] = Idle] BY <1>1 DEF GetbufWoken
<1>5. /\ Holds(s, WaitsFor(k)) /\ buftab[k].chain \in Seq(Nat)
      /\ Len(buftab[k].chain) = Tokens(s) + Cardinality(way)
      /\ Tokens(s) \in Nat /\ Cardinality(way) \in Nat /\ IsFiniteSet(way)
  BY ChainLength
<1>6. \A at, j : at # "user" => Idle # [at |-> at, pool |-> j] BY DEF Idle
<1>7. WaitsFor(k)' = WaitsFor(k)
  <2>1. [at |-> "woken", pool |-> k] # [at |-> "wait", pool |-> k] OBVIOUS
  <2> QED BY <2>1, <1>2, <1>3, <1>4, <1>6 DEF WaitsFor
<1>8. OnTheirWay(k)' = way \ {p} /\ p \in way
  BY <1>2, <1>3, <1>4, <1>6 DEF OnTheirWay
<1> HIDE DEF s, way
<1>9. Cardinality(way \ {p}) = Cardinality(way) - 1 /\ Cardinality(way) # 0 /\ IsFiniteSet(way \ {p})
  BY <1>5, <1>8, FS_RemoveElement, FS_EmptySet
<1>10. Len(buftab[k].chain) - 1 = Tokens(s) + Cardinality(OnTheirWay(k)')
       /\ Len(buftab[k].chain) # 0
  <2>1. Len(buftab[k].chain) - 1 = Tokens(s) + (Cardinality(way) - 1)
        /\ Len(buftab[k].chain) # 0
    BY <1>5, <1>9
  <2> QED BY <2>1, <1>8, <1>9
<1>11. buftab[k].chain # <<>> /\ IsFiniteSet(OnTheirWay(k)') BY <1>5, <1>8, <1>9, <1>10, EmptySeq
<1> QED BY <1>3, <1>4, <1>5, <1>7, <1>10, <1>11, TakeBufStep

LEMMA GetbufWaitStep ==
    ASSUME PoolInv, NEW p \in Procs, NEW k \in DOMAIN buftab, GetbufWait(p, k)
    PROVE  PoolInv'
<1> DEFINE s == buftab[k].sem
           c == buftab[k].chain
           pool == [chain |-> c, sem |-> WaitOn(s, p)]
           call == [at |-> "wait", pool |-> k]
<1>1. /\ pc[p] = Idle /\ s.count <= 0 /\ pc' = [pc EXCEPT ![p] = call] /\ has' = has
  BY DEF GetbufWait
<1>2. /\ pc \in [Procs -> Calls] /\ has \in [Procs -> SUBSET Bufs] /\ DOMAIN buftab \subseteq Nat
      /\ \A q \in Procs : IF pc[q].at = "user" THEN pc[q] = Idle ELSE pc[q].pool \in DOMAIN buftab
      /\ \A q \in Procs : \A d \in has[q] : d[1] \in DOMAIN buftab
      /\ buftab = [j \in DOMAIN buftab |-> buftab[j]]
  BY DEF PoolInv, PoolTypes
<1>3. buftab[k] = [chain |-> c, sem |-> s] BY DEF PoolInv, Counted
<1>4. buftab' = [buftab EXCEPT ![k] = pool]
  <2>1. buftab' = [buftab EXCEPT ![k] = [buftab[k] EXCEPT !.sem = WaitOn(s, p)]]
    BY Zenon DEF GetbufWait
  <2>2. [buftab[k] EXCEPT !.sem = WaitOn(s, p)] = pool BY <1>3
  <2> QED BY <2>1, <2>2, Zenon
<1>5. pool.chain = c /\ pool.sem = WaitOn(s, p) /\ pool = [chain |-> pool.chain, sem |-> pool.sem]
  OBVIOUS
<1>6. /\ call \in Calls /\ call.at = "wait" /\ call.pool = k
      /\ \A j : call = [at |-> "wait", pool |-> j] <=> j = k
      /\ \A j : call # [at |-> "woken", pool |-> j]
      /\ \A at, j : at # "user" => Idle # [at |-> at, pool |-> j]
  BY <1>2 DEF Calls, Idle
<1> HIDE DEF call, pool, s, c
<1>7. pc' \in [Procs -> Calls]
      /\ \A q \in Procs : IF pc'[q].at = "user" THEN pc'[q] = Idle ELSE pc'[q].pool \in DOMAIN buftab
  BY <1>1, <1>2, <1>6
<1>8. WaitsFor(k)' = WaitsFor(k) \cup {p} /\ p \notin WaitsFor(k)
  BY <1>1, <1>2, <1>6 DEF WaitsFor
<1>9. OnTheirWay(k)' = OnTheirWay(k) BY <1>1, <1>2, <1>6 DEF OnTheirWay
<1>10. \A j \in DOMAIN buftab \ {k} : WaitsFor(j)' = WaitsFor(j) /\ OnTheirWay(j)' = OnTheirWay(j)
  BY <1>1, <1>2, <1>6 DEF WaitsFor, OnTheirWay
<1>11. /\ Holds(s, WaitsFor(k)) /\ c \in Seq(Nat) /\ IsInjective(c)
       /\ IsFiniteSet(OnTheirWay(k))
       /\ Len(c) = Tokens(s) + Cardinality(OnTheirWay(k))
  BY ChainLength DEF s, c
<1>12. Holds(WaitOn(s, p), WaitsFor(k) \cup {p}) /\ Tokens(WaitOn(s, p)) = Tokens(s)
  BY <1>1, <1>8, <1>11, WaitOnHolds
<1>13. Counted(pool, WaitsFor(k)', OnTheirWay(k)')
  <2>1. Counted(pool, WaitsFor(k) \cup {p}, OnTheirWay(k)) BY <1>5, <1>11, <1>12 DEF Counted
  <2> QED BY <2>1, <1>8, <1>9
<1>14. HadOnce' BY <1>1 DEF PoolInv, HadOnce
<1>15. \A q \in Procs : \A b \in ToSet(pool.chain) : <<k, b>> \notin has'[q]
  BY <1>1, <1>5 DEF PoolInv, InChain, c
<1> QED BY <1>1, <1>2, <1>4, <1>7, <1>10, <1>13, <1>14, <1>15, OnePoolChanges

LEMMA FreebufStep ==
    ASSUME PoolInv, NEW p \in Procs, NEW k, NEW b, <<k, b>> \in has[p], Freebuf(p, k, b)
    PROVE  PoolInv'
<1>1. /\ pc \in [Procs -> Calls] /\ has \in [Procs -> SUBSET Bufs] /\ DOMAIN buftab \subseteq Nat
      /\ \A q \in Procs : IF pc[q].at = "user" THEN pc[q] = Idle ELSE pc[q].pool \in DOMAIN buftab
      /\ \A q \in Procs : \A d \in has[q] : d[1] \in DOMAIN buftab
  BY DEF PoolInv, PoolTypes
<1>2. k \in DOMAIN buftab /\ b \in Nat
  <2>1. <<k, b>>[1] = k /\ <<k, b>> \in Bufs BY <1>1
  <2> QED BY <2>1, <1>1 DEF Bufs
<1> DEFINE s == buftab[k].sem
           c == buftab[k].chain
           R == Released(s, 1)
           way == OnTheirWay(k)
           pool == [chain |-> <<b>> \o c, sem |-> SignalnOn(s, 1)]
<1>3. /\ buftab' = [buftab EXCEPT ![k] = pool] /\ has' = [has EXCEPT ![p] = has[p] \ {<<k, b>>}]
      /\ pc' = Wake(pc, R)
  BY DEF Freebuf
<1>4. pool.chain = <<b>> \o c /\ pool.sem = SignalnOn(s, 1) /\ pool = [chain |-> pool.chain, sem |-> pool.sem]
  OBVIOUS
<1>5. /\ Holds(s, WaitsFor(k)) /\ c \in Seq(Nat) /\ IsInjective(c)
      /\ Len(c) = Tokens(s) + Cardinality(way)
      /\ Tokens(s) \in Nat /\ Cardinality(way) \in Nat /\ IsFiniteSet(way)
  BY <1>2, ChainLength
<1>6. /\ R \subseteq WaitsFor(k) /\ IsFiniteSet(R) /\ Cardinality(R) \in Nat
      /\ Holds(SignalnOn(s, 1), WaitsFor(k) \ R)
      /\ Tokens(SignalnOn(s, 1)) + Cardinality(R) = Tokens(s) + 1
      /\ Tokens(SignalnOn(s, 1)) \in Nat
  <2>1. Holds(s, WaitsFor(k)) /\ R = Released(s, 1) BY <1>5
  <2>2. PICK sem, P, n : sem = s /\ P = WaitsFor(k) /\ n = 1 OBVIOUS
  <2> HIDE DEF R, s, c, way, pool
  <2>3. n \in Nat /\ Holds(sem, P) /\ R = Released(sem, n) BY <2>1, <2>2
  <2>4. /\ R \subseteq P /\ IsFiniteSet(R) /\ Cardinality(R) \in Nat
        /\ Holds(SignalnOn(sem, n), P \ R)
        /\ Tokens(SignalnOn(sem, n)) + Cardinality(R) = Tokens(sem) + n
        /\ Tokens(SignalnOn(sem, n)) \in Nat /\ Tokens(sem) \in Nat
    BY ZenonT(30), <2>3, SignalnHolds
  <2> QED BY <2>2, <2>4
<1>7. b \notin ToSet(c) BY <1>2 DEF PoolInv, InChain
<1>8. /\ <<b>> \o c \in Seq(Nat) /\ IsInjective(<<b>> \o c) /\ Len(<<b>> \o c) = Len(c) + 1
      /\ \A a \in ToSet(<<b>> \o c) : a = b \/ a \in ToSet(c)
  BY <1>2, <1>5, <1>7, PutOnChain
<1>9. \A a \in ToSet(c) : \A q \in Procs : <<k, a>> \notin has[q] BY <1>2 DEF PoolInv, InChain
<1> HIDE DEF pool, R, s, c, way
<1>10. /\ \A q \in R : q \in Procs /\ pc[q] = [at |-> "wait", pool |-> k]
                       /\ pc'[q] = [at |-> "woken", pool |-> k]
       /\ \A q \in Procs \ R : pc'[q] = pc[q]
       /\ pc' \in [Procs -> Calls]
  <2>1. \A q \in R : q \in Procs /\ pc[q] = [at |-> "wait", pool |-> k] BY <1>6 DEF WaitsFor
  <2>2. pc' = [q \in Procs |-> IF q \in R THEN [pc[q] EXCEPT !.at = "woken"] ELSE pc[q]]
    BY <1>1, <1>3 DEF Wake
  <2>3. [[at |-> "wait", pool |-> k] EXCEPT !.at = "woken"] = [at |-> "woken", pool |-> k] OBVIOUS
  <2>4. [at |-> "woken", pool |-> k] \in Calls BY <1>1, <1>2 DEF Calls
  <2> QED BY <2>1, <2>2, <2>3, <2>4, <1>1
<1>11. \A q \in Procs : IF pc'[q].at = "user" THEN pc'[q] = Idle ELSE pc'[q].pool \in DOMAIN buftab
  <2>1. [at |-> "woken", pool |-> k].at = "woken" /\ [at |-> "woken", pool |-> k].pool = k OBVIOUS
  <2> QED BY <2>1, <1>1, <1>2, <1>10
<1>12. WaitsFor(k)' = WaitsFor(k) \ R
  <2>1. [at |-> "woken", pool |-> k] # [at |-> "wait", pool |-> k] OBVIOUS
  <2> QED BY <2>1, <1>10 DEF WaitsFor
<1>13. OnTheirWay(k)' = way \cup R /\ way \cap R = {}
  <2>1. [at |-> "woken", pool |-> k] # [at |-> "wait", pool |-> k] OBVIOUS
  <2> QED BY <2>1, <1>10 DEF OnTheirWay, way
<1>14. \A j \in DOMAIN buftab \ {k} :
           /\ WaitsFor(j)' = WaitsFor(j) /\ OnTheirWay(j)' = OnTheirWay(j)
           /\ \A q \in Procs, d \in Nat : <<j, d>> \in has'[q] => <<j, d>> \in has[q]
  <2> SUFFICES ASSUME NEW j \in DOMAIN buftab \ {k}
               PROVE  /\ WaitsFor(j)' = WaitsFor(j) /\ OnTheirWay(j)' = OnTheirWay(j)
                      /\ \A q \in Procs : has'[q] \subseteq has[q]
    OBVIOUS
  <2>1. \A at1, at2 \in {"wait", "woken"} : [at |-> at1, pool |-> k] # [at |-> at2, pool |-> j]
    OBVIOUS
  <2> QED BY <2>1, <1>1, <1>3, <1>10 DEF WaitsFor, OnTheirWay
<1>15. Len(<<b>> \o c) = Tokens(SignalnOn(s, 1)) + Cardinality(way \cup R) /\ IsFiniteSet(way \cup R)
  <2>1. Cardinality(way \cup R) = Cardinality(way) + Cardinality(R) /\ IsFiniteSet(way \cup R)
    BY <1>5, <1>6, <1>13, CardinalityOfBoth
  <2> QED BY SMTT(30), <2>1, <1>5, <1>6, <1>8
<1>16. Counted(pool, WaitsFor(k)', OnTheirWay(k)')
  <2>1. Counted(pool, WaitsFor(k) \ R, way \cup R) BY <1>4, <1>6, <1>8, <1>15 DEF Counted
  <2> QED BY <2>1, <1>12, <1>13
<1>17. has' \in [Procs -> SUBSET Bufs] /\ \A q \in Procs : has'[q] \subseteq has[q] BY <1>1, <1>3
<1>18. HadOnce' BY <1>17 DEF PoolInv, HadOnce
<1>19. \A q \in Procs : \A a \in ToSet(pool.chain) : <<k, a>> \notin has'[q]
  <2> SUFFICES ASSUME NEW q \in Procs, NEW a, a = b \/ a \in ToSet(c) PROVE <<k, a>> \notin has'[q]
    BY <1>4, <1>8
  <2>1. CASE a \in ToSet(c) BY <2>1, <1>9, <1>17
  <2>2. CASE a = b
    <3>1. q # p => <<k, b>> \notin has[q] BY DEF PoolInv, HadOnce
    <3> QED BY <3>1, <2>2, <1>1, <1>3
  <2> QED BY <2>1, <2>2
<1>20. \A q \in Procs : \A d \in has'[q] : d[1] \in DOMAIN buftab BY <1>1, <1>17
<1> QED BY <1>2, <1>3, <1>10, <1>11, <1>14, <1>16, <1>17, <1>18, <1>19, <1>20, OnePoolChanges

(* No buffer of a pool is lost or given out twice, and getbuf() finds one  *)
(* whenever its wait() is over, for any number of pools, of buffers and of *)
(* processes.                                                              *)
THEOREM PoolsAreRight == PoolSpec => []BuffersCounted
<1>1. ASSUME PoolInv, [PoolNext]_vars PROVE PoolInv'
  <2>1. CASE UNCHANGED poolVars
    BY <1>1, <2>1 DEF poolVars, PoolInv, PoolTypes, Counted, WaitsFor, OnTheirWay, HadOnce, InChain
  <2>2. ASSUME NEW bufsiz \in BufSizes, NEW numbufs \in NumBufs, Mkbufpool(bufsiz, numbufs)
        PROVE  PoolInv'
    BY <1>1, <2>2, MkbufpoolPoolStep
  <2>3. ASSUME NEW p \in Procs, GetbufWoken(p) PROVE PoolInv' BY <1>1, <2>3, GetbufWokenStep
  <2>4. ASSUME NEW p \in Procs, NEW k \in DOMAIN buftab, Getbuf(p, k) \/ GetbufWait(p, k)
        PROVE  PoolInv'
    BY <1>1, <2>4, GetbufStep, GetbufWaitStep
  <2>5. ASSUME NEW p \in Procs, NEW buf \in has[p], Freebuf(p, buf[1], buf[2]) PROVE PoolInv'
    <3>1. buf = <<buf[1], buf[2]>>
      <4>1. buf \in Bufs BY <1>1 DEF PoolInv, PoolTypes
      <4> QED BY <4>1 DEF Bufs
    <3>2. <<buf[1], buf[2]>> \in has[p] BY <3>1
    <3> QED BY <1>1, <2>5, <3>2, FreebufStep
  <2> QED BY <1>1, <2>1, <2>2, <2>3, <2>4, <2>5 DEF PoolNext, vars
<1>2. PoolInv => BuffersCounted
  BY DEF PoolInv, Counted, HadOnce, InChain, BuffersCounted
<1> QED BY <1>1, <1>2, InitPoolInv, PTL DEF PoolSpec
=============================================================================
