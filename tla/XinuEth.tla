------------------------------ MODULE XinuEth -------------------------------
(***************************************************************************)
(* The Ethernet driver (device/eth) and the controller it drives           *)
(* (include/ag71xx.h).  Driver and controller share two rings of           *)
(* descriptors: the controller stores a frame in an EMPTY receive          *)
(* descriptor and makes it full, sends a full transmit descriptor and      *)
(* makes it EMPTY, and goes on to the next one by itself, at any moment,   *)
(* with interrupts on or off.                                              *)
(*                                                                         *)
(* read() and write() keep interrupts off, except while they wait, and the *)
(* interrupt handler runs between such steps.  Only the controller runs    *)
(* between filling a transmit descriptor and looking at TX_STAT_UNDER, and *)
(* while the handler has made a receive descriptor EMPTY and not yet       *)
(* stored its new address: a frame that comes then overwrites the packet   *)
(* that is being handed on.                                                *)
(*                                                                         *)
(* A frame is the number of its arrival, and is stored at one instant.     *)
(* Every place of the receive ring has a buffer, and so has every place of *)
(* in[] that is in use: which one does not matter, and the pools are their *)
(* semaphores.                                                             *)
(***************************************************************************)
EXTENDS SemValue

CONSTANTS
    Procs,                  \* the processes that send
    Netin,                  \* the one that reads, and answers ARP requests
    Nobody,
    ETH_RX_RING_ENTRIES, ETH_TX_RING_ENTRIES, ETH_IBUFSIZ,
    MaxFrames,              \* bound: the frames that arrive
    MaxWrites               \* bound: the calls of ethWrite()

ASSUME EthAssumption ==
    /\ {ETH_RX_RING_ENTRIES, ETH_TX_RING_ENTRIES, ETH_IBUFSIZ} \subseteq Nat \ {0}
    /\ {MaxFrames, MaxWrites} \subseteq Nat
    /\ Netin \in Procs /\ Nobody \notin Procs

VARIABLES
    rxRing,     \* a place is EMPTY, holds a frame, or one that was Cleared
    rxHead,     \* modulo the size of the ring
    in,         \* the input buffer
    istart, icount,
    isema, inPool

VARIABLES
    txRing,     \* is the place full?
    txBufs,     \* has it a buffer?
    txHead, txTail,
    outPool

VARIABLES
    rxDMA, txDMA,   \* the descriptors the controller has got to
    rxCount,        \* RX_STAT_COUNT: frames received and not acknowledged
    rxOverflow,     \* RX_STAT_OVERFLOW: reception has stopped
    txSent,         \* frames sent and not acknowledged
    txUnder         \* TX_STAT_UNDER: transmission has stopped

VARIABLES
    pc,         \* what the processes are doing, and the place each has chosen
    masked,     \* who has interrupts off in ethWrite(), if anybody
    handler,    \* is it between the two stores, and will it restart reception?
    frames,     \* auxiliary: the number of frames that arrived
    writes,     \* auxiliary: the number of calls of ethWrite()
    arrived,    \* auxiliary: the frames stored and neither read nor dropped
    raced,      \* auxiliary: was a place of txRing chosen before others moved on?
    overwrote   \* auxiliary: was a packet overwritten that was being handed on?

rxVars == <<rxRing, rxHead, in, istart, icount, isema, inPool>>
txVars == <<txRing, txBufs, txHead, txTail, outPool>>
rxNic == <<rxDMA, rxCount, rxOverflow>>
txNic == <<txDMA, txSent, txUnder>>
auxVars == <<frames, writes, arrived, raced, overwrote>>
vars == <<rxVars, txVars, rxNic, txNic, pc, masked, handler, auxVars>>

Empty == 0
Cleared == -1
Stale == -2     \* a full descriptor, and whatever its new buffer has in it
None == 0       \* NULL, in in[]

RxPlaces == 0 .. ETH_RX_RING_ENTRIES - 1
TxPlaces == 0 .. ETH_TX_RING_ENTRIES - 1
NextRx(i) == (i + 1) % ETH_RX_RING_ENTRIES
NextTx(i) == (i + 1) % ETH_TX_RING_ENTRIES

(* Mutant: a full input buffer was not counted. *)
InPoolSize_OneLess == ETH_IBUFSIZ + ETH_RX_RING_ENTRIES - 1

InPoolSize == ETH_RX_RING_ENTRIES + ETH_IBUFSIZ

Idle == [at |-> "user", tail |-> 0]
Unmasked == masked = Nobody /\ handler = "out"
----------------------------------------------------------------------------
(***************************************************************************)
(* The controller.                                                         *)
(***************************************************************************)
(* The descriptor that the handler has made EMPTY still has the address of *)
(* the packet that it is handing on: the last one of the input buffer.     *)
OldAddress == handler # "out" /\ NextRx(rxDMA) = rxHead
LastIn == (istart + icount - 1) % ETH_IBUFSIZ

(* A frame for which there is no EMPTY descriptor is lost, and so are the  *)
(* next ones until the driver starts reception again.                      *)
FrameArrives ==
    /\ frames < MaxFrames
    /\ frames' = frames + 1
    /\ IF ~rxOverflow /\ rxRing[rxDMA] = Empty
       THEN /\ rxDMA' = NextRx(rxDMA)
            /\ rxCount' = rxCount + 1
            /\ arrived' = Append(arrived, frames + 1)
            /\ rxRing' = [rxRing EXCEPT ![rxDMA] = IF OldAddress THEN Stale ELSE frames + 1]
            /\ in' = IF OldAddress THEN [in EXCEPT ![LastIn] = frames + 1] ELSE in
            /\ overwrote' = (overwrote \/ OldAddress)
            /\ UNCHANGED rxOverflow
       ELSE /\ rxOverflow' = TRUE
            /\ UNCHANGED <<rxRing, in, rxDMA, rxCount, arrived, overwrote>>
    /\ UNCHANGED <<rxHead, istart, icount, isema, inPool, txVars, txNic, pc, masked, handler,
                   writes, raced>>

(* A frame is sent, and the controller stops if there is not another one.  *)
FrameSent ==
    /\ ~txUnder /\ txRing[txDMA]
    /\ txRing' = [txRing EXCEPT ![txDMA] = FALSE]
    /\ txDMA' = NextTx(txDMA)
    /\ txSent' = txSent + 1
    /\ txUnder' = ~txRing'[txDMA']
    /\ UNCHANGED <<rxVars, txBufs, txHead, txTail, outPool, rxNic, pc, masked, handler, auxVars>>
----------------------------------------------------------------------------
(***************************************************************************)
(* The interrupt handler.                                                  *)
(***************************************************************************)
(* Mutant: the handler frees what it finds, sent or not. *)
Finished_Unsent == txTail - txHead

(* txPackets(): the descriptors from txHead on that were sent. *)
Finished ==
    Max({k \in 0 .. txTail - txHead :
            \A j \in 0 .. k - 1 : ~txRing[(txHead + j) % ETH_TX_RING_ENTRIES]})

FinishedPlaces == {(txHead + j) % ETH_TX_RING_ENTRIES : j \in 0 .. Finished - 1}

FreedBuffers == Cardinality({i \in FinishedPlaces : txBufs[i]})

(* The interrupt is cleared for each of them, or for one that left nothing *)
(* to do.                                                                  *)
TxPackets ==
    /\ txHead' = txHead + Finished
    /\ txBufs' = [i \in TxPlaces |-> txBufs[i] /\ i \notin FinishedPlaces]
    /\ outPool' = SignalnOn(outPool, FreedBuffers)
    /\ txSent' = Max({0, txSent - IF txHead = txTail THEN 1 ELSE Finished})

(* Mutant: the packet goes where the next one belongs. *)
RxDeliver_Late ==
    /\ icount < ETH_IBUFSIZ
    /\ inPool.count > 0
    /\ inPool' = Take(inPool)
    /\ rxRing' = [rxRing EXCEPT ![rxHead] = Empty]
    /\ in' = [in EXCEPT ![(istart + icount + 1) % ETH_IBUFSIZ] = rxRing[rxHead]]
    /\ icount' = icount + 1
    /\ isema' = SignalnOn(isema, 1)
    /\ handler' = IF rxOverflow THEN "restarts" ELSE "in"
    /\ UNCHANGED arrived

(* rxPackets() puts the packet at rxHead into the input buffer and a new   *)
(* buffer in its place.  allocRxBuffer() makes the descriptor EMPTY and    *)
(* then stores the address; what the handler does after that is part of    *)
(* this step, since nobody but the controller runs before it ends.         *)
RxDeliver ==
    /\ icount < ETH_IBUFSIZ
    /\ inPool.count > 0
    /\ inPool' = Take(inPool)
    /\ rxRing' = [rxRing EXCEPT ![rxHead] = Empty]
    /\ in' = [in EXCEPT ![(istart + icount) % ETH_IBUFSIZ] = rxRing[rxHead]]
    /\ icount' = icount + 1
    /\ isema' = SignalnOn(isema, 1)
    /\ handler' = IF rxOverflow THEN "restarts" ELSE "in"
    /\ UNCHANGED arrived

(* With the input buffer full the packet is cleared, and its descriptor    *)
(* stays full.                                                             *)
RxOverrun ==
    /\ icount >= ETH_IBUFSIZ
    /\ rxRing' = [rxRing EXCEPT ![rxHead] = Cleared]
    /\ arrived' = RemoveAt(arrived, icount + 1)
    /\ UNCHANGED <<in, icount, isema, inPool, handler>>

RxPackets ==
    /\ rxCount' = rxCount - 1
    /\ IF rxRing[rxHead] = Empty
       THEN UNCHANGED <<rxRing, rxHead, in, icount, isema, inPool, arrived, handler>>
       ELSE rxHead' = NextRx(rxHead) /\ (RxDeliver \/ RxOverrun)

(* ethInterrupt().  An overflow that its first look at the controller      *)
(* showed is cleared in the end, and reception started again.  What        *)
(* freebuf() and signal() make ready runs after the handler.               *)
EthInterrupt ==
    /\ Unmasked
    /\ txSent > 0 \/ rxCount > 0 \/ rxOverflow
    /\ IF txSent > 0 THEN TxPackets ELSE UNCHANGED <<txHead, txBufs, outPool, txSent>>
    /\ IF rxCount > 0 THEN RxPackets
       ELSE UNCHANGED <<rxCount, rxRing, rxHead, in, icount, isema, inPool, arrived, handler>>
    /\ rxOverflow' = (rxOverflow /\ handler' # "out")
    /\ pc' = Wake(pc, (IF txSent > 0 THEN Released(outPool, FreedBuffers) ELSE {})
                      \cup (IF rxCount > 0 /\ rxRing[rxHead] # Empty /\ icount < ETH_IBUFSIZ
                            THEN Released(isema, 1) ELSE {}))
    /\ UNCHANGED <<istart, txRing, txTail, rxDMA, txDMA, txUnder, masked, frames, writes, raced,
                   overwrote>>

(* The new address is stored, and the handler ends. *)
HandlerEnds ==
    /\ handler # "out"
    /\ rxOverflow' = (rxOverflow /\ handler # "restarts")
    /\ handler' = "out"
    /\ UNCHANGED <<rxVars, txVars, rxDMA, rxCount, txNic, pc, masked, auxVars>>
----------------------------------------------------------------------------
(***************************************************************************)
(* ethRead(), called by netin only.                                        *)
(***************************************************************************)
(* The packet is copied to the caller and its buffer freed; nobody waits   *)
(* for a buffer of this pool.                                              *)
PickUp ==
    /\ in' = [in EXCEPT ![istart] = None]
    /\ istart' = (istart + 1) % ETH_IBUFSIZ
    /\ icount' = icount - 1
    /\ IF in[istart] = None THEN UNCHANGED <<inPool, arrived>>
       ELSE inPool' = SignalnOn(inPool, 1) /\ arrived' = Tail(arrived)
    /\ UNCHANGED <<rxRing, rxHead, txVars, rxNic, txNic, masked, handler, frames, writes,
                   raced, overwrote>>

Read ==
    /\ Unmasked /\ pc[Netin] = Idle
    /\ isema.count > 0
    /\ isema' = Take(isema)
    /\ PickUp
    /\ UNCHANGED pc

ReadWait ==
    /\ Unmasked /\ pc[Netin] = Idle
    /\ isema.count <= 0
    /\ isema' = WaitOn(isema, Netin)
    /\ pc' = [pc EXCEPT ![Netin] = [at |-> "wait", tail |-> -1]]
    /\ UNCHANGED <<rxRing, rxHead, in, istart, icount, inPool, txVars, rxNic, txNic, masked, handler,
                   auxVars>>

Reading(p) == pc[p].tail = -1

ReadWoken ==
    /\ Unmasked /\ pc[Netin].at = "woken" /\ Reading(Netin)
    /\ pc' = [pc EXCEPT ![Netin] = Idle]
    /\ PickUp
    /\ UNCHANGED isema
----------------------------------------------------------------------------
(***************************************************************************)
(* ethWrite().                                                             *)
(***************************************************************************)
(* Fill the place `tail', which was chosen before getbuf(), and move the   *)
(* tail of the ring, which may have moved since.                           *)
Fill(p, tail, sem) ==
    /\ outPool' = sem
    /\ txBufs' = [txBufs EXCEPT ![tail] = TRUE]
    /\ txRing' = [txRing EXCEPT ![tail] = TRUE]
    /\ txTail' = txTail + 1
    /\ raced' = (raced \/ tail # txTail % ETH_TX_RING_ENTRIES)
    /\ pc' = [pc EXCEPT ![p] = [at |-> "filled", tail |-> tail]]
    /\ masked' = p

(* A place to write to, whose descriptor is EMPTY. *)
MayWrite(p) ==
    /\ Unmasked /\ pc[p] = Idle
    /\ ~txRing[txTail % ETH_TX_RING_ENTRIES]
    /\ writes < MaxWrites
    /\ writes' = writes + 1

Write(p) ==
    /\ MayWrite(p)
    /\ outPool.count > 0
    /\ Fill(p, txTail % ETH_TX_RING_ENTRIES, Take(outPool))
    /\ UNCHANGED <<rxVars, txHead, rxNic, txNic, handler, frames, arrived, overwrote>>

WriteWait(p) ==
    /\ MayWrite(p)
    /\ outPool.count <= 0
    /\ outPool' = WaitOn(outPool, p)
    /\ pc' = [pc EXCEPT ![p] = [at |-> "wait", tail |-> txTail % ETH_TX_RING_ENTRIES]]
    /\ UNCHANGED <<rxVars, txRing, txBufs, txHead, txTail, rxNic, txNic, masked, handler,
                   frames, arrived, raced, overwrote>>

WriteWoken(p) ==
    /\ Unmasked /\ pc[p].at = "woken" /\ ~Reading(p)
    /\ Fill(p, pc[p].tail, outPool)
    /\ UNCHANGED <<rxVars, txHead, rxNic, txNic, handler, frames, writes, arrived, overwrote>>

(* Mutant: the controller is started at the new tail. *)
Start_NewTail(p) ==
    /\ masked = p
    /\ txDMA' = IF txUnder THEN NextTx(pc[p].tail) ELSE txDMA
    /\ txUnder' = (txUnder /\ ~txRing[txDMA'])
    /\ pc' = [pc EXCEPT ![p] = Idle]
    /\ masked' = Nobody
    /\ UNCHANGED <<rxVars, txVars, rxNic, txSent, handler, auxVars>>

(* A controller that has stopped is started at the place just filled, and  *)
(* stops at once if it had sent that one.                                  *)
Start(p) ==
    /\ masked = p
    /\ txDMA' = IF txUnder THEN pc[p].tail ELSE txDMA
    /\ txUnder' = (txUnder /\ ~txRing[txDMA'])
    /\ pc' = [pc EXCEPT ![p] = Idle]
    /\ masked' = Nobody
    /\ UNCHANGED <<rxVars, txVars, rxNic, txSent, handler, auxVars>>
----------------------------------------------------------------------------
(* ethInit() and ethOpen(): every receive descriptor has a buffer.         *)
EthInit ==
    /\ rxRing = [i \in RxPlaces |-> Empty]
    /\ in = [i \in 0 .. ETH_IBUFSIZ - 1 |-> None]
    /\ txRing = [i \in TxPlaces |-> FALSE]
    /\ txBufs = [i \in TxPlaces |-> FALSE]
    /\ rxHead = 0 /\ istart = 0 /\ icount = 0 /\ txHead = 0 /\ txTail = 0
    /\ rxDMA = 0 /\ txDMA = 0 /\ rxCount = 0 /\ txSent = 0
    /\ isema = SemWith(0)
    /\ inPool = SemWith(InPoolSize - ETH_RX_RING_ENTRIES)
    /\ outPool = SemWith(ETH_TX_RING_ENTRIES)
    /\ rxOverflow = FALSE /\ txUnder = FALSE
    /\ pc = [p \in Procs |-> Idle]
    /\ masked = Nobody /\ handler = "out"
    /\ frames = 0 /\ writes = 0 /\ arrived = <<>> /\ raced = FALSE /\ overwrote = FALSE

Controller == FrameArrives \/ FrameSent

Reads == Read \/ ReadWait \/ ReadWoken

EthNext ==
    \/ Controller
    \/ EthInterrupt \/ HandlerEnds
    \/ Reads
    \/ \E p \in Procs : Write(p) \/ WriteWait(p) \/ WriteWoken(p) \/ Start(p)

(* The controller sends what it is given, an interrupt that is pending     *)
(* comes once interrupts are on, its handler ends, and the processor gets  *)
(* to every process that was made ready.                                   *)
EthSpec ==
    /\ EthInit /\ [][EthNext]_vars
    /\ WF_vars(FrameSent) /\ WF_vars(EthInterrupt) /\ WF_vars(HandlerEnds)
    /\ \A p \in Procs : WF_vars(WriteWoken(p)) /\ WF_vars(Start(p))
----------------------------------------------------------------------------
(* What netin has yet to read, from istart on, and what the handler has    *)
(* yet to see, from rxHead on.                                             *)
Pending == [j \in 1 .. icount |-> in[(istart + j - 1) % ETH_IBUFSIZ]]
Unseen == [j \in 1 .. rxCount |-> rxRing[(rxHead + j - 1) % ETH_RX_RING_ENTRIES]]

(* The two rings of input hold every frame that was stored, in order, and  *)
(* drop only those that found the input buffer full, until one comes to a  *)
(* full ring between the two stores of allocRxBuffer(); and they are as    *)
(* many even then.  The semaphore counts the input buffer, with a token    *)
(* that was given to netin.                                                *)
InputInStep ==
    /\ ~overwrote => arrived = Pending \o Unseen
    /\ Len(arrived) = icount + rxCount
    /\ icount = Tokens(isema) + (IF pc[Netin].at = "woken" /\ Reading(Netin) THEN 1 ELSE 0)

(* When the handler puts a packet into the input buffer there is a buffer  *)
(* to replace it: getbuf() would wait, in an interrupt, for a process that *)
(* has not been interrupted.                                               *)
HandlerNeverWaits ==
    icount < ETH_IBUFSIZ => inPool.count > 0

(* A descriptor the controller may send from has its buffer, and every     *)
(* buffer is free, given to somebody who waited for one, or in the ring;   *)
(* as long as no writer has chosen a place, waited, and found others had   *)
(* moved on.                                                               *)
OutputAccounted ==
    ~raced =>
        /\ \A i \in TxPlaces : txRing[i] => txBufs[i]
        /\ Tokens(outPool) + Cardinality({p \in Procs : pc[p].at = "woken" /\ ~Reading(p)})
               + Cardinality({i \in TxPlaces : txBufs[i]}) = ETH_TX_RING_ENTRIES

(* What is written is sent and its buffer freed, although the controller   *)
(* may stop at any point of a write() that looks whether it has stopped.   *)
AllSent == \A i \in TxPlaces : txBufs[i] ~> (~txBufs[i] \/ raced)
=============================================================================
