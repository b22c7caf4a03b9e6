------------------------------ MODULE XinuLfs ------------------------------
(***************************************************************************)
(* The local file system (device/lfs): files made of index blocks and data *)
(* blocks of a disk, both kept on free lists on the disk, a directory in   *)
(* memory, and a descriptor for each open file with one index block and    *)
(* one data block of its file.                                             *)
(*                                                                         *)
(* What a call does under lf_mutex is one step: of the other calls only    *)
(* lflClose() touches the disk without it.  A call is cut where it waits   *)
(* for lf_mutex, and lflClose() between reading and writing the sector of  *)
(* its index block.  The disk is the one of module RemoteDisk: a read      *)
(* returns what was written last.                                          *)
(***************************************************************************)
EXTENDS Integers, FiniteSets, SequencesExt

CONSTANTS
    Procs, Names, Bytes,
    Writes,         \* what is written in a call
    Reads,          \* the number of bytes read in a call
    Nlfl,           \* the descriptors
    LF_BLKSIZ,      \* bytes in a data block
    LF_IBLEN,       \* data blocks of an index block
    IBPERSECTOR,    \* index blocks in a sector
    IBLKS, DBLKS,   \* the index blocks and data blocks of the disk
    LF_NUM_DIR_ENT,
    Fill,           \* a byte that was not written
    EOF, Closed,
    Polite,         \* is there one call of open() at a time, of a file that is
                    \* not open, and is close() called while no call is in progress?
    MaxSize,        \* bound: the length of a file
    MaxCalls        \* bound: the calls made

ASSUME LfsAssumption ==
    /\ {LF_BLKSIZ, LF_IBLEN, IBPERSECTOR, IBLKS, DBLKS, Nlfl} \subseteq Nat \ {0}
    /\ Writes \subseteq Seq(Bytes) \ {<<>>} /\ Reads \subseteq Nat \ {0}
    /\ {LF_NUM_DIR_ENT, MaxSize, MaxCalls} \subseteq Nat /\ Polite \in BOOLEAN

VARIABLES
    dir,        \* the directory
    ib,         \* the index blocks on the disk
    db,         \* the data blocks on the disk
    lfl,        \* the descriptors
    pc,         \* the calls in progress
    panicked,   \* did panic() stop the system?
    returned,   \* auxiliary: what was read last through each descriptor
    calls       \* auxiliary: the number of calls

vars == <<dir, ib, db, lfl, pc, panicked, returned, calls>>

NULL == -1
IBlocks == 0 .. IBLKS - 1
DBlocks == 0 .. DBLKS - 1
Slots == 1 .. Nlfl
LF_IDATA == LF_IBLEN * LF_BLKSIZ    \* bytes indexed by an index block

(* lfibclear() *)
Cleared(offset) == [next |-> NULL, offset |-> offset, dba |-> [i \in 1 .. LF_IBLEN |-> NULL]]

Filled == [i \in 1 .. LF_BLKSIZ |-> Fill]
FreeBlock(next) == [next |-> next, bytes |-> Filled]

(* lfbyte is the index of the next byte in block, or LF_BLKSIZ.  What else *)
(* than its state a free descriptor holds is never used.                   *)
FreeSlot ==
    [state |-> "free", name |-> Closed, pos |-> 0, inum |-> NULL, ib |-> Cleared(0), dnum |-> NULL,
     block |-> Filled, byte |-> LF_BLKSIZ, ibdirty |-> FALSE, dbdirty |-> FALSE]

Idle == [at |-> "user"]

(* The file's mutex is held while its call waits for lf_mutex or closes.   *)
Locked(s) == \E p \in Procs : pc[p] # Idle /\ pc[p].at \in {"putc", "getc", "close"} /\ pc[p].slot = s

(* The blocks from first on, up to one of ends. *)
Chain(next, first, ends) ==
    IF first \in ends THEN <<>>
    ELSE FoldLeft(LAMBDA c, n : IF next[Last(c)] \in ends THEN c ELSE Append(c, next[Last(c)]),
                  <<first>>, [n \in 1 .. Cardinality(DOMAIN next) - 1 |-> n])
----------------------------------------------------------------------------
(***************************************************************************)
(* The functions under the calls, on records of the directory, the disk,   *)
(* the descriptor of the call, and whether one of them panicked.           *)
(***************************************************************************)
World(s) == [dir |-> dir, ib |-> ib, db |-> db, f |-> lfl[s], panic |-> FALSE]

Becomes(s, w) ==
    IF w.panic THEN panicked' = TRUE /\ UNCHANGED <<dir, ib, db, lfl>>
    ELSE dir' = w.dir /\ ib' = w.ib /\ db' = w.db /\ lfl' = [lfl EXCEPT ![s] = w.f] /\ UNCHANGED panicked

(* lfflush() *)
Flushed(w) ==
    [w EXCEPT
        !.db = IF w.f.dbdirty THEN [@ EXCEPT ![w.f.dnum] = [next |-> NULL, bytes |-> w.f.block]] ELSE @,
        !.ib = IF w.f.ibdirty THEN [@ EXCEPT ![w.f.inum] = w.f.ib] ELSE @,
        !.f.dbdirty = FALSE, !.f.ibdirty = FALSE]

(* lfiballoc() and what its callers do with the index block: "out of index *)
(* blocks" panics.                                                         *)
NewIndexBlock(w, offset) ==
    IF w.dir.ifree = NULL THEN [w EXCEPT !.panic = TRUE]
    ELSE [w EXCEPT !.dir.ifree = w.ib[w.dir.ifree].next,
                   !.f.inum = w.dir.ifree, !.f.ib = Cleared(offset), !.f.ibdirty = TRUE]

Loaded(w, inum) == [w EXCEPT !.f.inum = inum, !.f.ib = w.ib[inum]]

(* An index block of the file, its first one if the position lies before   *)
(* the one in memory.                                                      *)
WithIndexBlock(w) ==
    LET first == w.dir.files[w.f.name].ilist
    IN  IF w.f.inum = NULL
        THEN IF first = NULL
             THEN LET n == NewIndexBlock(w, 0)
                  IN  IF n.panic THEN n ELSE [n EXCEPT !.dir.files[w.f.name].ilist = n.f.inum]
             ELSE Loaded(w, first)
        ELSE IF w.f.pos < w.f.ib.offset THEN Loaded(w, first) ELSE w

(* The next index block of the file, a new one at its end. *)
NextIndexBlock(w) ==
    IF w.panic THEN w
    ELSE IF w.f.ib.next # NULL THEN [Loaded(w, w.f.ib.next) EXCEPT !.f.dnum = NULL]
    ELSE LET n == NewIndexBlock(w, w.f.ib.offset + LF_IDATA)
         IN  IF n.panic THEN n
             ELSE [n EXCEPT !.ib[w.f.inum] = [w.f.ib EXCEPT !.next = n.f.inum], !.f.dnum = NULL]

Covering(w) ==
    IF w.panic THEN w
    ELSE LET n == (w.f.pos - w.f.ib.offset) \div LF_IDATA
         IN  FoldLeft(LAMBDA v, i : NextIndexBlock(v), w, [i \in 1 .. n |-> i])

(* The data block of the position: "out of data blocks" panics. *)
WithDataBlock(w) ==
    LET dindex == ((w.f.pos % LF_IDATA) \div LF_BLKSIZ) + 1
        dnum == w.f.ib.dba[dindex]
        new == w.dir.dfree
    IN  IF w.panic \/ (dnum = NULL /\ new = NULL) THEN [w EXCEPT !.panic = TRUE]
        ELSE IF dnum = NULL
        THEN [w EXCEPT !.dir.dfree = w.db[new].next, !.f.block = Filled,
                       !.f.ib.dba[dindex] = new, !.f.ibdirty = TRUE, !.f.dnum = new]
        ELSE IF dnum # w.f.dnum
        THEN [w EXCEPT !.f.block = w.db[dnum].bytes, !.f.dbdirty = FALSE, !.f.dnum = dnum]
        ELSE w

(* Mutant: what changed in memory is not written before it is replaced.    *)
SetUp_Unflushed(w) ==
    LET v == WithDataBlock(Covering(WithIndexBlock([w EXCEPT !.f.dbdirty = FALSE, !.f.ibdirty = FALSE])))
    IN  IF v.panic THEN v ELSE [v EXCEPT !.f.byte = w.f.pos % LF_BLKSIZ]

(* lfsetup() *)
SetUp(w) ==
    LET v == WithDataBlock(Covering(WithIndexBlock(Flushed(w))))
    IN  IF v.panic THEN v ELSE [v EXCEPT !.f.byte = w.f.pos % LF_BLKSIZ]

(* Mutant: the block becomes the head of the list before it points to it.  *)
DataBlockFreed_Swapped(w, dnum) ==
    IF dnum = NULL THEN w
    ELSE [w EXCEPT !.db[dnum] = FreeBlock(dnum), !.dir.dfree = dnum]

(* lfdbfree() *)
DataBlockFreed(w, dnum) ==
    IF dnum = NULL THEN w
    ELSE [w EXCEPT !.db[dnum] = FreeBlock(w.dir.dfree), !.dir.dfree = dnum]

(* An index block of the file, on its way to the free list. *)
IndexBlockFreed(w, inum) ==
    LET v == FoldLeft(DataBlockFreed, w, w.ib[inum].dba)
    IN  [v EXCEPT !.ib[inum] = [Cleared(0) EXCEPT !.next = IF w.ib[inum].next = NULL THEN w.dir.ifree
                                                          ELSE w.ib[inum].next]]

(* Mutant: the position stays where it is. *)
Truncated_Kept(w) ==
    IF w.dir.files[w.f.name].size = 0 THEN w
    ELSE LET v == Flushed(w)
             first == v.dir.files[v.f.name].ilist
             u == [v EXCEPT !.f.inum = NULL, !.f.dnum = NULL, !.f.byte = LF_BLKSIZ,
                            !.dir.files[v.f.name] = [size |-> 0, ilist |-> NULL]]
             blocks == Chain([i \in IBlocks |-> v.ib[i].next], first, {NULL, v.dir.ifree})
         IN  [FoldLeft(IndexBlockFreed, u, blocks) EXCEPT !.dir.ifree = first]

(* lftruncate() *)
Truncated(w) ==
    IF w.dir.files[w.f.name].size = 0 THEN w
    ELSE LET v == Flushed(w)
             first == v.dir.files[v.f.name].ilist
             u == [v EXCEPT !.f.pos = 0, !.f.inum = NULL, !.f.dnum = NULL, !.f.byte = LF_BLKSIZ,
                            !.dir.files[v.f.name] = [size |-> 0, ilist |-> NULL]]
             blocks == Chain([i \in IBlocks |-> v.ib[i].next], first, {NULL, v.dir.ifree})
         IN  [FoldLeft(IndexBlockFreed, u, blocks) EXCEPT !.dir.ifree = first]
----------------------------------------------------------------------------
(***************************************************************************)
(* The calls.                                                              *)
(***************************************************************************)
Calls(p) ==
    /\ ~panicked
    /\ pc[p] = Idle
    /\ \A q \in Procs : Polite => pc[q].at # "close"
    /\ calls < MaxCalls
    /\ calls' = calls + 1

Uses(p, s) == Calls(p) /\ lfl[s].state = "used" /\ ~Locked(s)

(* lfsOpen() up to lf_mutex.  The names of open files were never copied    *)
(* beyond their first place, which holds the end of the name: the search   *)
(* for the name among them finds nothing.                                  *)
Open(p, name, mode) ==
    /\ Calls(p)
    /\ Polite => /\ \A q \in Procs : pc[q].at # "open"
                 /\ \A s \in Slots : lfl[s].name # name
    /\ \E s \in Slots :
          /\ lfl[s].state = "free" /\ \A t \in 1 .. s - 1 : lfl[t].state # "free"
          /\ pc' = [pc EXCEPT ![p] = [at |-> "open", slot |-> s, name |-> name, mode |-> mode]]
    /\ UNCHANGED <<dir, ib, db, lfl, panicked, returned>>

(* The rest of lfsOpen().  It fails if an "old" file does not exist, a     *)
(* "new" one does, or the directory is full.  (The first open reads the    *)
(* directory, which is in memory from the start here.)                     *)
Opened(p) ==
    /\ ~panicked
    /\ pc[p].at = "open"
    /\ LET name == pc[p].name
           old == name \in DOMAIN dir.files
           full == Cardinality(DOMAIN dir.files) >= LF_NUM_DIR_ENT
           fails == IF old THEN pc[p].mode = "new" ELSE pc[p].mode = "old" \/ full
       IN  IF fails THEN UNCHANGED <<dir, lfl>>
           ELSE /\ dir' = IF old THEN dir
                          ELSE [dir EXCEPT !.files = [n \in DOMAIN @ \cup {name} |->
                                    IF n = name THEN [size |-> 0, ilist |-> NULL] ELSE @[n]]]
                /\ lfl' = [lfl EXCEPT ![pc[p].slot] =
                             [@ EXCEPT !.state = "used", !.name = name, !.pos = 0, !.inum = NULL, !.dnum = NULL,
                                       !.byte = LF_BLKSIZ, !.ibdirty = FALSE, !.dbdirty = FALSE]]
    /\ pc' = [pc EXCEPT ![p] = Idle]
    /\ UNCHANGED <<ib, db, panicked, returned, calls>>

Size(f) == dir.files[f.name].size

NeedsSetup(s) == lfl[s].byte >= LF_BLKSIZ

(* lflRead() and lflWrite() call lflGetc() and lflPutc() for each byte.    *)
Read(p, s, count) ==
    /\ Calls(p) /\ lfl[s].state = "used"
    /\ pc' = [pc EXCEPT ![p] = [at |-> "read", slot |-> s, count |-> count]]
    /\ UNCHANGED <<dir, ib, db, lfl, panicked, returned>>

Write(p, s, data) ==
    /\ Calls(p) /\ lfl[s].state = "used"
    /\ pc' = [pc EXCEPT ![p] = [at |-> "write", slot |-> s, data |-> data]]
    /\ UNCHANGED <<dir, ib, db, lfl, panicked, returned>>

Ends(p) == pc' = [pc EXCEPT ![p] = Idle]

(* The byte at the position, once its block is in memory.                  *)
Got(p, w) ==
    LET s == pc[p].slot
        left == pc[p].count - 1
    IN  /\ Becomes(s, [w EXCEPT !.f.byte = @ + 1, !.f.pos = @ + 1])
        /\ returned' = IF w.panic THEN returned ELSE [returned EXCEPT ![s] = w.f.block[w.f.byte + 1]]
        /\ IF left = 0 THEN Ends(p) ELSE pc' = [pc EXCEPT ![p] = [at |-> "read", slot |-> s, count |-> left]]

Put(p, w) ==
    LET s == pc[p].slot
        left == Tail(pc[p].data)
    IN  /\ Becomes(s, IF w.panic THEN w
                      ELSE [w EXCEPT !.dir.files[w.f.name].size = IF w.f.pos >= @ THEN @ + 1 ELSE @,
                                     !.f.block[w.f.byte + 1] = Head(pc[p].data),
                                     !.f.byte = @ + 1, !.f.pos = @ + 1, !.f.dbdirty = TRUE])
        /\ IF left = <<>> THEN Ends(p) ELSE pc' = [pc EXCEPT ![p] = [at |-> "write", slot |-> s, data |-> left]]
        /\ UNCHANGED returned

(* lflGetc(): the end of the file, the byte in the block in memory, or a   *)
(* wait for lf_mutex.                                                      *)
Getc(p) ==
    /\ ~panicked
    /\ pc[p].at = "read" /\ ~Locked(pc[p].slot)
    /\ LET s == pc[p].slot
       IN  \/ /\ lfl[s].state # "used"
              /\ Ends(p)
              /\ UNCHANGED <<dir, ib, db, lfl, panicked, returned>>
           \/ /\ lfl[s].state = "used" /\ lfl[s].pos >= Size(lfl[s])
              /\ returned' = [returned EXCEPT ![s] = EOF]
              /\ Ends(p)
              /\ UNCHANGED <<dir, ib, db, lfl, panicked>>
           \/ /\ lfl[s].state = "used" /\ lfl[s].pos < Size(lfl[s]) /\ NeedsSetup(s)
              /\ pc' = [pc EXCEPT ![p].at = "getc"]
              /\ UNCHANGED <<dir, ib, db, lfl, panicked, returned>>
           \/ /\ lfl[s].state = "used" /\ lfl[s].pos < Size(lfl[s]) /\ ~NeedsSetup(s)
              /\ Got(p, World(s))
    /\ UNCHANGED calls

(* lflPutc(): an error, the byte in the block in memory, or a wait for     *)
(* lf_mutex.                                                               *)
Putc(p) ==
    /\ ~panicked
    /\ pc[p].at = "write" /\ ~Locked(pc[p].slot)
    /\ LET s == pc[p].slot
           room == /\ lfl[s].state = "used"
                   /\ lfl[s].pos <= Size(lfl[s]) /\ lfl[s].pos < MaxSize
       IN  \/ /\ ~room
              /\ Ends(p)
              /\ UNCHANGED <<dir, ib, db, lfl, panicked, returned>>
           \/ /\ room /\ NeedsSetup(s)
              /\ pc' = [pc EXCEPT ![p].at = "putc"]
              /\ UNCHANGED <<dir, ib, db, lfl, panicked, returned>>
           \/ /\ room /\ ~NeedsSetup(s)
              /\ Put(p, World(s))
    /\ UNCHANGED calls

(* lfsetup(), and the rest of the call. *)
GetcEnd(p) ==
    /\ ~panicked
    /\ pc[p].at = "getc"
    /\ Got(p, SetUp(World(pc[p].slot)))
    /\ UNCHANGED calls

PutcEnd(p) ==
    /\ ~panicked
    /\ pc[p].at = "putc"
    /\ Put(p, SetUp(World(pc[p].slot)))
    /\ UNCHANGED calls

(* lflSeek() *)
Seek(p, s, offset) ==
    /\ Uses(p, s)
    /\ offset <= Size(lfl[s])
    /\ lfl' = [lfl EXCEPT ![s].pos = offset, ![s].byte = LF_BLKSIZ]
    /\ UNCHANGED <<dir, ib, db, pc, panicked, returned>>

(* lflControl(LF_CTL_TRUNC); the wait for lf_mutex comes before all it does *)
Truncate(p, s) ==
    /\ Uses(p, s)
    /\ Becomes(s, Truncated(World(s)))
    /\ UNCHANGED <<pc, returned>>

(* lflClose().  An index block that changed is put in its sector without   *)
(* lf_mutex: here the sector is read.                                      *)
Close(p, s) ==
    /\ Uses(p, s)
    /\ Polite => \A q \in Procs : pc[q] = Idle
    /\ LET w == Flushed(World(s))
       IN  /\ db' = w.db
           /\ IF lfl[s].ibdirty
              THEN /\ pc' = [pc EXCEPT ![p] = [at |-> "close", slot |-> s, sector |-> ib]]
                   /\ lfl' = [lfl EXCEPT ![s].dbdirty = FALSE]
              ELSE lfl' = [lfl EXCEPT ![s] = FreeSlot] /\ UNCHANGED pc
    /\ UNCHANGED <<dir, ib, panicked, returned>>

CloseEnd(p) ==
    /\ ~panicked
    /\ pc[p].at = "close"
    /\ LET f == lfl[pc[p].slot]
           sector(i) == i \div IBPERSECTOR
       IN  ib' = [i \in IBlocks |-> IF i = f.inum THEN f.ib
                                    ELSE IF sector(i) = sector(f.inum) THEN pc[p].sector[i] ELSE ib[i]]
    /\ lfl' = [lfl EXCEPT ![pc[p].slot] = FreeSlot]
    /\ pc' = [pc EXCEPT ![p] = Idle]
    /\ UNCHANGED <<dir, db, panicked, returned, calls>>

(* lfscreate(), lfsInit(), lflInit() *)
LfsInit ==
    /\ dir = [dfree |-> 0, ifree |-> 0, files |-> [n \in {} |-> NULL]]
    /\ ib = [i \in IBlocks |-> [Cleared(0) EXCEPT !.next = IF i + 1 \in IBlocks THEN i + 1 ELSE NULL]]
    /\ db = [d \in DBlocks |-> FreeBlock(IF d + 1 \in DBlocks THEN d + 1 ELSE NULL)]
    /\ lfl = [s \in Slots |-> FreeSlot]
    /\ pc = [p \in Procs |-> Idle]
    /\ panicked = FALSE
    /\ returned = [s \in Slots |-> EOF]
    /\ calls = 0

LfsNext ==
    \E p \in Procs :
        \/ \E name \in Names, mode \in {"old", "new", "any"} : Open(p, name, mode)
        \/ \E s \in Slots :
              \/ \E count \in Reads : Read(p, s, count)
              \/ \E data \in Writes : Write(p, s, data)
              \/ Truncate(p, s) \/ Close(p, s)
              \/ \E offset \in 0 .. MaxSize : Seek(p, s, offset)
        \/ Opened(p) \/ Getc(p) \/ Putc(p) \/ GetcEnd(p) \/ PutcEnd(p) \/ CloseEnd(p)

LfsSpec == LfsInit /\ [][LfsNext]_vars
----------------------------------------------------------------------------
(* The blocks of a file as its callers see them: the index block and the   *)
(* data block in memory of an open file count instead of those on the disk.*)
IndexBlock(i) ==
    LET s == {t \in Slots : lfl[t].state = "used" /\ lfl[t].inum = i}
    IN  IF s = {} THEN ib[i] ELSE lfl[CHOOSE t \in s : TRUE].ib

DataBytes(d) ==
    LET s == {t \in Slots : lfl[t].state = "used" /\ lfl[t].dnum = d}
    IN  IF s = {} THEN db[d].bytes ELSE lfl[CHOOSE t \in s : TRUE].block

(* The k-th index block of a file, from 0, or NULL. *)
IndexBlockOf(n, k) ==
    LET block[j \in 0 .. k] ==
            IF j = 0 THEN dir.files[n].ilist
            ELSE LET b == block[j - 1] IN IF b = NULL THEN NULL ELSE IndexBlock(b).next
    IN  block[k]

Byte(n, pos) ==
    LET dba == IndexBlock(IndexBlockOf(n, pos \div LF_IDATA)).dba
    IN  DataBytes(dba[((pos % LF_IDATA) \div LF_BLKSIZ) + 1])[(pos % LF_BLKSIZ) + 1]

Contents(n) ==
    IF n \notin DOMAIN dir.files THEN <<>> ELSE [k \in 1 .. dir.files[n].size |-> Byte(n, k - 1)]

IndexBlocksOf(n) == SelectSeq([k \in 1 .. IBLKS |-> IndexBlockOf(n, k - 1)], LAMBDA i : i # NULL)
DataBlocksOf(n) == FoldLeft(LAMBDA c, i : c \o IndexBlock(i).dba, <<>>, IndexBlocksOf(n))

Files == INSTANCE FileStore
    WITH contents <- [n \in Names |-> Contents(n)],
         opened <- [s \in Slots |-> IF lfl[s].state = "free" THEN Closed
                                    ELSE [name |-> lfl[s].name, pos |-> lfl[s].pos]]

(* The files behave as sequences of bytes: a write changes the byte at the *)
(* position of its file and no other, a truncation empties its file and no *)
(* other, and neither allocation nor flushing nor the replacement of the   *)
(* blocks in memory changes a file.                                        *)
ActsAsFiles == Files!Spec

(* Types; what is in memory of a file belongs to it.                       *)
LfsTypeOK ==
    /\ dir.dfree \in DBlocks \cup {NULL} /\ dir.ifree \in IBlocks \cup {NULL}
    /\ DOMAIN dir.files \subseteq Names
    /\ \A s \in Slots :
          lfl[s].state = "used" =>
             /\ lfl[s].pos <= Size(lfl[s])
             /\ lfl[s].inum # NULL => lfl[s].inum \in ToSet(IndexBlocksOf(lfl[s].name))
             /\ lfl[s].dnum # NULL => lfl[s].dnum \in ToSet(DataBlocksOf(lfl[s].name))

(* Every block is on its free list or in one file, once: none is lost, and *)
(* none is in two places.                                                  *)
BlocksAccounted ==
    LET files == SetToSeq(DOMAIN dir.files)
        all(free, Of(_)) == free \o FlattenSeq([k \in 1 .. Len(files) |-> Of(files[k])])
        iblocks == all(Chain([i \in IBlocks |-> ib[i].next], dir.ifree, {NULL}), IndexBlocksOf)
        dblocks == SelectSeq(all(Chain([d \in DBlocks |-> db[d].next], dir.dfree, {NULL}), DataBlocksOf),
                             LAMBDA d : d # NULL)
    IN  /\ IsInjective(iblocks) /\ ToSet(iblocks) = IBlocks
        /\ IsInjective(dblocks) /\ ToSet(dblocks) = DBlocks
=============================================================================
