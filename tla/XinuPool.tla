------------------------------ MODULE XinuPool -----------------------------
(***************************************************************************)
(* Buffer pools (bufinit.c, mkbufpool.c, getbuf.c, freebuf.c) on the heap. *)
(* A pool is a chain of buffers in one piece of heap memory, and a         *)
(* semaphore that counts them; a buffer is its number in its pool.         *)
(***************************************************************************)
EXTENDS XinuMem, SemValue

CONSTANTS
    Procs,
    NBPOOLS,
    BufSizes, NumBufs,  \* the sizes (BP_MINB .. BP_MAXB) and numbers of buffers asked for
    MaxLost             \* bound: the calls of mkbufpool() that get no semaphore

ASSUME PoolAssumption ==
    /\ {NBPOOLS, MaxLost} \subseteq Nat
    /\ BufSizes \subseteq 8 .. 8192 /\ NumBufs \subseteq Nat \ {0}

VARIABLES
    buftab,     \* buftab[0 .. nbpools - 1]: the chain and bpsem of each pool
    pc,         \* what each process is doing in getbuf(), and for which pool
    has,        \* auxiliary: the buffers each process has
    lost        \* auxiliary: the calls that got no semaphore

poolVars == <<buftab, pc, has, lost>>
vars == <<memVars, poolVars>>

Idle == [at |-> "user", pool |-> 0]

(* Sizes are rounded to whole words, and one word more holds the pool ID. *)
PoolBytes(bufsiz, numbufs) == numbufs * (((bufsiz + 3) \div 4) * 4 + 4)

(* The new pool has all its buffers in its chain; if no semaphore is left  *)
(* there is no pool, and the memory is not given back.                     *)
Mkbufpool(bufsiz, numbufs) ==
    /\ Len(buftab) < NBPOOLS
    /\ Getmem(PoolBytes(bufsiz, numbufs), "pool")
    /\ \/ /\ buftab' = Append(buftab, [chain |-> [i \in 1 .. numbufs |-> i],
                                       sem   |-> SemWith(numbufs)])
          /\ UNCHANGED lost
       \/ /\ lost < MaxLost
          /\ lost' = lost + 1
          /\ UNCHANGED buftab
    /\ UNCHANGED <<pc, has>>

(* Unlink the buffer at the front of the chain. *)
TakeBuf(p, k, sem) ==
    /\ buftab' = [buftab EXCEPT ![k] = [chain |-> Tail(@.chain), sem |-> sem]]
    /\ has' = [has EXCEPT ![p] = @ \cup {<<k, Head(buftab[k].chain)>>}]

Getbuf(p, k) ==
    /\ pc[p] = Idle
    /\ buftab[k].sem.count > 0
    /\ TakeBuf(p, k, Take(buftab[k].sem))
    /\ UNCHANGED <<memVars, pc, lost>>

GetbufWait(p, k) ==
    /\ pc[p] = Idle
    /\ buftab[k].sem.count <= 0
    /\ buftab' = [buftab EXCEPT ![k].sem = WaitOn(@, p)]
    /\ pc' = [pc EXCEPT ![p] = [at |-> "wait", pool |-> k]]
    /\ UNCHANGED <<memVars, has, lost>>

(* getbuf() from the end of its wait(). *)
GetbufWoken(p) ==
    /\ pc[p].at = "woken"
    /\ TakeBuf(p, pc[p].pool, buftab[pc[p].pool].sem)
    /\ pc' = [pc EXCEPT ![p] = Idle]
    /\ UNCHANGED <<memVars, lost>>

(* Mutant: the buffer is signalled and never put on the chain. *)
Freebuf_Dropped(p, k, b) ==
    /\ pc[p] = Idle
    /\ <<k, b>> \in has[p]
    /\ has' = [has EXCEPT ![p] = @ \ {<<k, b>>}]
    /\ buftab' = [buftab EXCEPT ![k].sem = SignalnOn(@, 1)]
    /\ pc' = Wake(pc, Released(buftab[k].sem, 1))
    /\ UNCHANGED <<memVars, lost>>

(* The pool is found by the ID in front of the buffer. *)
Freebuf(p, k, b) ==
    /\ pc[p] = Idle
    /\ <<k, b>> \in has[p]
    /\ has' = [has EXCEPT ![p] = @ \ {<<k, b>>}]
    /\ buftab' = [buftab EXCEPT ![k] = [chain |-> <<b>> \o @.chain, sem |-> SignalnOn(@.sem, 1)]]
    /\ pc' = Wake(pc, Released(buftab[k].sem, 1))
    /\ UNCHANGED <<memVars, lost>>

PoolInit ==
    /\ MemInit
    /\ buftab = <<>>
    /\ pc = [p \in Procs |-> Idle]
    /\ has = [p \in Procs |-> {}]
    /\ lost = 0

PoolNext ==
    \/ MemNext /\ UNCHANGED poolVars
    \/ \E bufsiz \in BufSizes, numbufs \in NumBufs : Mkbufpool(bufsiz, numbufs)
    \/ \E p \in Procs : \/ GetbufWoken(p)
                        \/ \E k \in DOMAIN buftab : Getbuf(p, k) \/ GetbufWait(p, k)
                        \/ \E buf \in has[p] : Freebuf(p, buf[1], buf[2])

PoolSpec == PoolInit /\ [][PoolNext]_vars
----------------------------------------------------------------------------
OnTheirWay(k) == {p \in Procs : pc[p] = [at |-> "woken", pool |-> k]}

(* Every buffer of a pool is in its chain or had by one process, and the   *)
(* chain holds one for each free token and for each process that was made  *)
(* ready and has yet to unlink its own: getbuf() never finds it empty      *)
(* after its wait(), whatever ran in between.                              *)
BuffersCounted ==
    \A k \in DOMAIN buftab :
        /\ Len(buftab[k].chain) = Tokens(buftab[k].sem) + Cardinality(OnTheirWay(k))
        /\ IsInjective(buftab[k].chain)
        /\ \A p, q \in Procs : p # q => has[p] \cap has[q] = {}
        /\ \A p \in Procs : \A b \in ToSet(buftab[k].chain) : <<k, b>> \notin has[p]
=============================================================================
