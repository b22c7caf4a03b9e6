------------------------------ MODULE XinuMem ------------------------------
(***************************************************************************)
(* The heap (getmem.c, getstk.c, freemem.c).  An address counts the memory *)
(* blocks of 8 bytes from minheap; a block is [addr, len].  The free list  *)
(* is the sequence of blocks that the links of struct memblk form.         *)
(*                                                                         *)
(* Every call keeps interrupts off from beginning to end, so it is one     *)
(* step.  A call that returns SYSERR changes nothing.                      *)
(***************************************************************************)
EXTENDS Integers, SequencesExt, FiniteSetsExt

CONSTANTS
    HeapSize,   \* the blocks between minheap and maxheap
    Requests    \* the sizes asked for, in bytes

ASSUME MemAssumption ==
    /\ HeapSize \in Nat \ {0}
    /\ Requests \subseteq Nat \ {0}

VARIABLES
    memlist,    \* the free list
    mlength,    \* memlist.mlength: how much memory is free
    held        \* auxiliary: the blocks given out, and to whom

memVars == <<memlist, mlength, held>>

Block(addr, len) == [addr |-> addr, len |-> len]

End(b) == b.addr + b.len

(* roundmb(), in blocks.  The addition is done in 32 bits; the requests    *)
(* here are far from 2^32.                                                 *)
Roundmb(nbytes) == (nbytes + 7) \div 8

(* Does memory block i of the free list satisfy a request? *)
Fits(i, n) == memlist[i].len >= n

GiveTo(user, b) ==
    /\ held' = held \cup {[addr |-> b.addr, len |-> b.len, by |-> user]}
    /\ mlength' = mlength - b.len

(* Mutant: the rest of a split block starts one block late. *)
GetmemAt_Late(i, n, user) ==
    /\ GiveTo(user, Block(memlist[i].addr, n))
    /\ memlist' = IF memlist[i].len = n
                  THEN RemoveAt(memlist, i)
                  ELSE [memlist EXCEPT ![i] = Block(@.addr + n + 1, @.len - n)]

(* The lowest part of block i is given out. *)
GetmemAt(i, n, user) ==
    /\ GiveTo(user, Block(memlist[i].addr, n))
    /\ memlist' = IF memlist[i].len = n
                  THEN RemoveAt(memlist, i)
                  ELSE [memlist EXCEPT ![i] = Block(@.addr + n, @.len - n)]

(* First fit. *)
Getmem(nbytes, user) ==
    \E i \in DOMAIN memlist :
        /\ Fits(i, Roundmb(nbytes))
        /\ \A j \in 1 .. i - 1 : ~Fits(j, Roundmb(nbytes))
        /\ GetmemAt(i, Roundmb(nbytes), user)

(* Mutant: the length of the block that is split stays as it was. *)
GetstkAt_KeepsLength(i, n) ==
    /\ GiveTo("stack", Block(End(memlist[i]) - n, n))
    /\ memlist' = IF memlist[i].len = n THEN RemoveAt(memlist, i) ELSE memlist

(* The highest part of block i is given out. *)
GetstkAt(i, n) ==
    /\ GiveTo("stack", Block(End(memlist[i]) - n, n))
    /\ memlist' = IF memlist[i].len = n
                  THEN RemoveAt(memlist, i)
                  ELSE [memlist EXCEPT ![i].len = @ - n]

(* Last fit. *)
Getstk(nbytes) ==
    \E i \in DOMAIN memlist :
        /\ Fits(i, Roundmb(nbytes))
        /\ \A j \in i + 1 .. Len(memlist) : ~Fits(j, Roundmb(nbytes))
        /\ GetstkAt(i, Roundmb(nbytes))

(* The walk along the list ends behind block k. *)
WalkEnds(b, k) ==
    /\ \A i \in 1 .. k : memlist[i].addr < b.addr
    /\ k < Len(memlist) => memlist[k + 1].addr >= b.addr

(* Mutant: the test against the next block is left out. *)
Overlaps_PrevOnly(b, k) == k > 0 /\ b.addr < End(memlist[k])

(* "Insure new block does not overlap previous or next blocks" *)
Overlaps(b, k) ==
    \/ k > 0 /\ b.addr < End(memlist[k])
    \/ k < Len(memlist) /\ End(b) > memlist[k + 1].addr

(* "Either coalesce with previous block or add to free list": the list,    *)
(* and where in it the returned block is.                                  *)
WithPrevious(b, k) ==
    IF k > 0 /\ End(memlist[k]) = b.addr
    THEN [list |-> [memlist EXCEPT ![k].len = @ + b.len], at |-> k]
    ELSE [list |-> InsertAt(memlist, k + 1, b), at |-> k + 1]

(* "Coalesce with next block if adjacent" *)
WithNext(list, i) ==
    IF i < Len(list) /\ End(list[i]) = list[i + 1].addr
    THEN [RemoveAt(list, i + 1) EXCEPT ![i].len = @ + list[i + 1].len]
    ELSE list

(* freemem(); freestk() turns the address of the highest word into that of *)
(* the block and calls it.                                                 *)
Freemem(b) ==
    \E k \in 0 .. Len(memlist) :
        /\ WalkEnds(b, k)
        /\ ~Overlaps(b, k)
        /\ memlist' = LET r == WithPrevious(b, k) IN WithNext(r.list, r.at)
        /\ mlength' = mlength + b.len

Apart(b, c) == End(b) <= c.addr \/ End(c) <= b.addr

Parts(h) == {b \in [addr : h.addr .. End(h) - 1, len : 1 .. h.len] : End(b) <= End(h)}

(* What is below and above b in h. *)
Kept(h, b) == {[addr |-> h.addr, len |-> b.addr - h.addr, by |-> h.by],
               [addr |-> End(b), len |-> End(h) - End(b), by |-> h.by]}

(* The holder of a block gives it back, or a part of it. *)
FreeHeld ==
    \E h \in held : \E b \in Parts(h) :
        /\ h.by # "pool"
        /\ Freemem(b)
        /\ held' = (held \ {h}) \cup {r \in Kept(h, b) : r.len > 0}

(* Memory that was given back is given back again.                         *)
FreeAgain ==
    \E b \in Parts(Block(0, HeapSize)) :
        /\ \A h \in held : Apart(b, h)
        /\ Freemem(b)
        /\ UNCHANGED held

MemInit ==
    /\ memlist = <<Block(0, HeapSize)>>
    /\ mlength = HeapSize
    /\ held = {}

MemNext ==
    \/ \E nbytes \in Requests : Getmem(nbytes, "heap") \/ Getstk(nbytes)
    \/ FreeHeld
    \/ FreeAgain
----------------------------------------------------------------------------
(* The free list is what freemem() needs to find its neighbours: blocks of *)
(* the heap in the order of their addresses, never touching one another,   *)
(* whatever was split, merged or given back twice.                         *)
FreeListOK ==
    /\ \A i \in DOMAIN memlist :
           /\ memlist[i] \in [addr : Nat, len : Nat \ {0}]
           /\ End(memlist[i]) <= HeapSize
    /\ \A i, j \in DOMAIN memlist : i < j => End(memlist[i]) < memlist[j].addr

(* No byte is given out twice: blocks in use are apart from each other and *)
(* from all that is free.                                                  *)
NothingTwice ==
    /\ \A h \in held : \A i \in DOMAIN memlist : Apart(h, memlist[i])
    /\ \A g, h \in held : g # h => Apart(g, h)

Covers(blocks) == UNION {b.addr .. End(b) - 1 : b \in blocks}

(* Nothing gets lost: the count in the list's head is the memory that is   *)
(* on the list, and all the rest of the heap is in use.                    *)
MemoryAccounted ==
    /\ mlength = Cardinality(Covers(ToSet(memlist)))
    /\ Covers(ToSet(memlist)) \cup Covers(held) = 0 .. HeapSize - 1
=============================================================================
