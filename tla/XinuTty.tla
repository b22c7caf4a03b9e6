------------------------------ MODULE XinuTty ------------------------------
(***************************************************************************)
(* The console driver: device/tty.  Its two halves share the rings of the  *)
(* terminal: the interrupt half puts what is typed into the input ring and *)
(* sends what is in the echo and output rings; the upper half runs in the  *)
(* processes that call read() and write().  Two semaphores count the       *)
(* characters that may be read and the free places for output.             *)
(*                                                                         *)
(* The upper half runs with interrupts off until it waits, and once its    *)
(* wait() is over it goes on when the scheduler gets to it: any process    *)
(* that was made ready may be next.  The flags that no call changes        *)
(* (tyoflow, tyierase, tyikill, tyeof, tyicrlf, tyocrlf, ...) have the     *)
(* values ttyInit() gives them.                                            *)
(***************************************************************************)
EXTENDS SemValue

CONSTANTS
    Procs,          \* the processes that use the console
    TY_IBUFLEN, TY_OBUFLEN, TY_EBUFLEN,
    UART_FIFO_SIZE,
    Keys,           \* what is typed
    Modes,          \* the input modes ttyControl() sets
    Counts,         \* the counts ttyRead() and ttyWrite() are called with
    NoProc,
    MaxStored,      \* bound: characters put into the input ring
    MaxControls,    \* bound: the calls of ttyControl()
    MaxWritten      \* bound: characters put into the output ring

AllKeys  == {"char", "newline", "erase", "kill", "eof", "stop", "start"}
AllModes == {"raw", "cooked", "cbreak"}

ASSUME TtyAssumption ==
    /\ {TY_IBUFLEN, TY_OBUFLEN, TY_EBUFLEN, UART_FIFO_SIZE} \subseteq Nat \ {0}
    /\ Keys \subseteq AllKeys /\ Modes \subseteq AllModes
    /\ Counts \subseteq Nat /\ {MaxStored, MaxControls, MaxWritten} \subseteq Nat
    /\ NoProc \notin Procs

VARIABLES
    ibuf, ihead, itail,     \* tyibuff, tyihead, tyitail; a character is its number in `stored`
    icursor, imode, iecho,  \* tyicursor, tyimode, tyiecho
    isem,                   \* tyisem: its count and its queue
    obuf, ohead, otail,     \* tyobuff, tyohead, tyotail; a character is its number in the output
    osem,                   \* tyosem
    echoes,                 \* the characters from tyehead to tyetail; what they are is left out
    oheld,                  \* tyoheld
    etbei,                  \* UART_IER_ETBEI: are output interrupts on?
    pc,                     \* what each process is doing in the driver
    kernel                  \* the process that runs there with interrupts off

VARIABLES
    stored,     \* auxiliary: the keys put into the input ring
    input,      \* auxiliary: the characters stored and not erased, in order
    got,        \* auxiliary: the characters readers took, in order
    controls,   \* auxiliary: the calls of ttyControl() made
    overrun,    \* auxiliary: was a character overwritten before it was taken?
    uncounted,  \* auxiliary: those stored in cbreak mode, for which nobody is signalled
    written,    \* auxiliary: how many characters were put into the output ring
    sent,       \* auxiliary: the characters sent from it, in order
    outrun      \* auxiliary: was a place sent that held no character yet?

inVars == <<ibuf, ihead, itail, icursor, isem, stored, input, got, overrun, uncounted>>
modeVars == <<imode, iecho, controls>>
outVars == <<obuf, ohead, otail, osem, written, sent, outrun>>
echoVars == <<echoes, oheld, etbei>>
vars == <<inVars, modeVars, outVars, echoVars, pc, kernel>>

Idle == [op |-> "none", at |-> "user", left |-> 0, line |-> "no"]

(* The rings' pointers are where the code may use them.  A line kill across *)
(* the start of the buffer and an EOF in its last place lead out of it;     *)
(* what happens to the memory around the buffer then is not modelled.       *)
InBuffer == ihead \in 0 .. TY_IBUFLEN - 1 /\ itail \in 0 .. TY_IBUFLEN - 1

(* Interrupts are on. *)
Enabled == kernel = NoProc /\ InBuffer
----------------------------------------------------------------------------
(***************************************************************************)
(* The interrupt half.                                                     *)
(***************************************************************************)
(* ttyKickOut() *)
KickOut == etbei' = TRUE

Wrap(i) == IF i >= TY_IBUFLEN THEN 0 ELSE i

(* eputc() of n characters: when the echo ring is full it looks empty. *)
Eputc(n) ==
    /\ echoes' = (echoes + n) % TY_EBUFLEN
    /\ KickOut

Echoch(n) == IF iecho THEN Eputc(n) ELSE UNCHANGED <<echoes, etbei>>

Arrives == Enabled /\ UNCHANGED <<modeVars, outVars, kernel>>

(* A character is put at the tail, and n tokens are handed out. *)
PutIn(key, tail, n) ==
    /\ Len(stored) < MaxStored
    /\ stored' = Append(stored, key)
    /\ ibuf' = [ibuf EXCEPT ![itail] = Len(stored')]
    /\ itail' = tail
    /\ input' = Append(input, Len(stored'))
    /\ overrun' = (overrun \/ Len(input) - Len(got) >= TY_IBUFLEN)
    /\ isem' = SignalnOn(isem, n)
    /\ pc' = Wake(pc, Released(isem, n))
    /\ UNCHANGED <<ihead, got>>

IgnoreInput == UNCHANGED <<inVars, pc>>

(* In raw and cbreak mode every key is stored alike; the control           *)
(* characters are represented by the one that ends a line.                 *)
Storable == Keys \cap {"char", "newline"}

RawChar(key) ==
    /\ imode = "raw"
    /\ key \in Storable
    /\ Arrives
    /\ IF Tokens(isem) >= TY_IBUFLEN
       THEN IgnoreInput
       ELSE PutIn(key, Wrap(itail + 1), 1) /\ UNCHANGED <<icursor, uncounted>>
    /\ UNCHANGED echoVars

(* ^Q and ^S, in cooked and cbreak mode. *)
FlowChar(key) ==
    /\ imode # "raw"
    /\ Arrives
    /\ \/ key = "start" /\ oheld' = FALSE /\ KickOut
       \/ key = "stop" /\ oheld' = TRUE /\ UNCHANGED etbei
    /\ IgnoreInput
    /\ UNCHANGED echoes

(* "Any other char starts output". *)
Edited(key, mode) ==
    /\ imode = mode
    /\ key \in Keys \ {"start", "stop"}
    /\ Arrives
    /\ oheld' = FALSE

(* Echoed as it is, as CR-LF, or as ^x. *)
EchoLength(key) == IF key = "char" THEN 1 ELSE 2

CbreakChar(key) ==
    /\ key \in Storable
    /\ Edited(key, "cbreak")
    /\ IF Tokens(isem) >= TY_IBUFLEN
       THEN Eputc(1) /\ IgnoreInput
       ELSE /\ PutIn(key, Wrap(itail + 1), 0)
            /\ uncounted' = uncounted + 1
            /\ Echoch(EchoLength(key))
            /\ UNCHANGED icursor

(* The head is moved where the tail should be. *)
LineKill ==
    /\ Edited("kill", "cooked")
    /\ itail' = itail - icursor
    /\ ihead' = IF itail - icursor < 0 THEN ihead + TY_IBUFLEN ELSE ihead
    /\ input' = SubSeq(input, 1, Len(input) - icursor)
    /\ icursor' = 0
    /\ Eputc(2)
    /\ UNCHANGED <<ibuf, isem, stored, got, overrun, uncounted, pc>>

(* The last character is taken back, and wiped out on the screen with one  *)
(* backspace, blank and backspace for each place it took up.               *)
Erase1 ==
    LET tail == IF itail = 0 THEN TY_IBUFLEN - 1 ELSE itail - 1
    IN  /\ itail' = tail
        /\ input' = Front(input)
        /\ Echoch(3 * EchoLength(stored[ibuf[tail]]))

(* Mutant: the tail stays behind the erased character. *)
EraseChar_KeepsTail ==
    /\ Edited("erase", "cooked")
    /\ IF icursor > 0
       THEN /\ icursor' = icursor - 1
            /\ input' = Front(input)
            /\ Echoch(3)
            /\ UNCHANGED itail
       ELSE UNCHANGED <<icursor, itail, input, echoes, etbei>>
    /\ UNCHANGED <<ibuf, ihead, isem, stored, got, overrun, uncounted, pc>>

EraseChar ==
    /\ Edited("erase", "cooked")
    /\ IF icursor > 0
       THEN icursor' = icursor - 1 /\ Erase1
       ELSE UNCHANGED <<icursor, itail, input, echoes, etbei>>
    /\ UNCHANGED <<ibuf, ihead, isem, stored, got, overrun, uncounted, pc>>

(* Mutant: the newline itself is not counted. *)
EndOfLine_NotCounted ==
    /\ Edited("newline", "cooked")
    /\ PutIn("newline", Wrap(itail + 1), icursor)
    /\ icursor' = 0
    /\ Echoch(2)
    /\ UNCHANGED uncounted

(* A whole line becomes available; there is no test for a full buffer. *)
EndOfLine ==
    /\ Edited("newline", "cooked")
    /\ PutIn("newline", Wrap(itail + 1), icursor + 1)
    /\ icursor' = 0
    /\ Echoch(2)
    /\ UNCHANGED uncounted

Full == Tokens(isem) + icursor >= TY_IBUFLEN - 1

Bell(key) ==
    /\ Edited(key, "cooked")
    /\ key \in {"char", "eof"}
    /\ Full
    /\ Eputc(1)
    /\ IgnoreInput

(* An EOF counts at the start of a line only, and does not wrap the tail. *)
EofChar ==
    /\ Edited("eof", "cooked")
    /\ ~Full
    /\ Echoch(2)
    /\ IF icursor = 0
       THEN PutIn("eof", itail + 1, 1) /\ UNCHANGED <<icursor, uncounted>>
       ELSE IgnoreInput

PlainChar ==
    /\ Edited("char", "cooked")
    /\ ~Full
    /\ Echoch(1)
    /\ PutIn("char", Wrap(itail + 1), 0)
    /\ icursor' = icursor + 1
    /\ UNCHANGED uncounted

(* ttyInter_in(): what a character that arrives does. *)
InterIn ==
    \/ \E key \in Keys :
           RawChar(key) \/ FlowChar(key) \/ CbreakChar(key) \/ Bell(key)
    \/ LineKill
    \/ EraseChar
    \/ EndOfLine
    \/ EofChar
    \/ PlainChar

(* ttyInter_out(): nothing to send, or nothing that may be sent. *)
NothingToSend == echoes = 0 /\ osem.count >= TY_OBUFLEN

OutputOff ==
    /\ Enabled
    /\ etbei
    /\ oheld \/ NothingToSend
    /\ etbei' = FALSE
    /\ UNCHANGED <<inVars, modeVars, outVars, echoes, oheld, pc, kernel>>

Echoed == Min({UART_FIFO_SIZE, echoes})

(* `avail = TY_OBUFLEN - semcount(tyosem)` counts the writers that wait, or *)
(* have been made ready and not stored their character, as characters.      *)
Ochars == Min({UART_FIFO_SIZE - Echoed, TY_OBUFLEN - osem.count})

(* Mutant: every place is signalled, not only those that were sent. *)
Transmit_SignalsAll ==
    /\ Enabled
    /\ etbei
    /\ ~oheld
    /\ ~NothingToSend
    /\ echoes' = echoes - Echoed
    /\ sent' = sent \o [i \in 1 .. Ochars |-> obuf[(ohead + i - 1) % TY_OBUFLEN]]
    /\ outrun' = (outrun \/ Len(sent) + Ochars > written)
    /\ ohead' = (ohead + Ochars) % TY_OBUFLEN
    /\ osem' = SignalnOn(osem, TY_OBUFLEN - osem.count)
    /\ pc' = Wake(pc, Released(osem, TY_OBUFLEN - osem.count))
    /\ UNCHANGED <<inVars, modeVars, obuf, otail, written, oheld, etbei, kernel>>

Transmit ==
    /\ Enabled
    /\ etbei
    /\ ~oheld
    /\ ~NothingToSend
    /\ echoes' = echoes - Echoed
    /\ sent' = sent \o [i \in 1 .. Ochars |-> obuf[(ohead + i - 1) % TY_OBUFLEN]]
    /\ outrun' = (outrun \/ Len(sent) + Ochars > written)
    /\ ohead' = (ohead + Ochars) % TY_OBUFLEN
    /\ osem' = SignalnOn(osem, Ochars)
    /\ pc' = Wake(pc, Released(osem, Ochars))
    /\ UNCHANGED <<inVars, modeVars, obuf, otail, written, oheld, etbei, kernel>>

(* The UART raises an output interrupt while these are on and its FIFO is  *)
(* empty.                                                                  *)
InterOut == OutputOff \/ Transmit
----------------------------------------------------------------------------
(***************************************************************************)
(* The upper half.  pc[p] says how many characters a read or a write of p  *)
(* still wants, and for a read in cooked mode whether it has got its first *)
(* one yet.                                                                *)
(***************************************************************************)
Call(op, left, line) == [op |-> op, at |-> "driver", left |-> left, line |-> line]

Enter(p, call) ==
    /\ Enabled
    /\ pc[p] = Idle
    /\ pc' = [pc EXCEPT ![p] = call]
    /\ kernel' = p
    /\ UNCHANGED <<inVars, modeVars, outVars, echoVars>>

(* ttyRead(); the ones that return 0 without reading are left out. *)
Read(p, count) ==
    IF imode = "cooked"
    THEN Enter(p, Call("get", Max({count, 1}), "first"))
    ELSE LET wanted == IF count = 0 THEN Tokens(isem) ELSE count
         IN  wanted > 0 /\ Enter(p, Call("get", wanted, "no"))

Unwritten == MapThenSumSet(LAMBDA p : IF pc[p].op = "put" THEN pc[p].left ELSE 0, Procs)

(* ttyWrite(), where a newline counts as two characters, CR and LF. *)
Write(p, count) ==
    /\ count > 0
    /\ written + Unwritten + count <= MaxWritten
    /\ Enter(p, Call("put", count, "no"))

InDriver(p, op) == kernel = p /\ pc[p].op = op /\ pc[p].at = "driver"

Woken(p, op) == Enabled /\ pc[p].op = op /\ pc[p].at = "woken"

(* p waits, and others run. *)
Waits(p) ==
    /\ pc' = [pc EXCEPT ![p].at = "wait"]
    /\ kernel' = NoProc

(* p has got or put a character: it returns, or goes on with the next one. *)
GoesOn(p, finished, line) ==
    /\ pc' = [pc EXCEPT ![p] = IF finished \/ @.left = 1 THEN Idle
                               ELSE Call(@.op, @.left - 1, line)]
    /\ kernel' = IF finished \/ pc[p].left = 1 THEN NoProc ELSE p

GetWait(p) ==
    /\ InDriver(p, "get")
    /\ isem.count <= 0
    /\ isem' = WaitOn(isem, p)
    /\ Waits(p)
    /\ UNCHANGED <<ibuf, ihead, itail, icursor, stored, input, got, overrun, uncounted,
                   modeVars, outVars, echoVars>>

(* ttyGetc() from the end of its wait().  A read in cooked mode ends with  *)
(* its line, or with an EOF in its first place.                            *)
Getc(p) ==
    LET key      == stored[ibuf[ihead]]
        line     == pc[p].line
        finished == \/ line # "no" /\ key = "newline"
                    \/ line = "first" /\ imode = "cooked" /\ key = "eof"
    IN  /\ \/ /\ InDriver(p, "get")
              /\ isem.count > 0
              /\ isem' = Take(isem)
           \/ Woken(p, "get") /\ UNCHANGED isem
        /\ got' = Append(got, ibuf[ihead])
        /\ ihead' = Wrap(ihead + 1)
        /\ GoesOn(p, finished, IF line = "no" THEN "no" ELSE "rest")
        /\ UNCHANGED <<ibuf, itail, icursor, stored, input, overrun, uncounted,
                       modeVars, outVars, echoVars>>

PutWait(p) ==
    /\ InDriver(p, "put")
    /\ osem.count <= 0
    /\ osem' = WaitOn(osem, p)
    /\ Waits(p)
    /\ UNCHANGED <<inVars, modeVars, obuf, ohead, otail, written, sent, outrun,
                   echoVars>>

(* ttyPutc() from the end of its wait(). *)
Putc(p) ==
    /\ \/ /\ InDriver(p, "put")
          /\ osem.count > 0
          /\ osem' = Take(osem)
       \/ Woken(p, "put") /\ UNCHANGED osem
    /\ written' = written + 1
    /\ obuf' = [obuf EXCEPT ![otail] = written + 1]
    /\ otail' = (otail + 1) % TY_OBUFLEN
    /\ KickOut
    /\ GoesOn(p, FALSE, "no")
    /\ UNCHANGED <<inVars, modeVars, ohead, sent, outrun, echoes, oheld>>

(* TC_NEXTC waits for a character and gives its token back; it takes none. *)
NextcWait(p) ==
    /\ Enabled
    /\ pc[p] = Idle
    /\ controls < MaxControls
    /\ isem.count <= 0
    /\ controls' = controls + 1
    /\ isem' = WaitOn(isem, p)
    /\ pc' = [pc EXCEPT ![p] = [Call("nextc", 0, "no") EXCEPT !.at = "wait"]]
    /\ UNCHANGED <<ibuf, ihead, itail, icursor, stored, input, got, overrun, uncounted,
                   imode, iecho, outVars, echoVars, kernel>>

Nextc(p) ==
    /\ Woken(p, "nextc")
    /\ isem' = SignalnOn(isem, 1)
    /\ pc' = [Wake(pc, Released(isem, 1)) EXCEPT ![p] = Idle]
    /\ UNCHANGED <<ibuf, ihead, itail, icursor, stored, input, got, overrun, uncounted,
                   modeVars, outVars, echoVars, kernel>>

(* TC_MODER, TC_MODEC, TC_MODEK, TC_ECHO and TC_NOECHO. *)
SetModes ==
    /\ Enabled
    /\ controls < MaxControls
    /\ controls' = controls + 1
    /\ \/ imode' \in Modes \ {imode} /\ UNCHANGED iecho
       \/ iecho' = ~iecho /\ UNCHANGED imode
    /\ UNCHANGED <<inVars, outVars, echoVars, pc, kernel>>

TtyCall ==
    \/ \E p \in Procs, count \in Counts : Read(p, count) \/ Write(p, count)
    \/ \E p \in Procs :
           \/ GetWait(p) \/ Getc(p)
           \/ PutWait(p) \/ Putc(p)
           \/ NextcWait(p) \/ Nextc(p)
    \/ SetModes

TtyInit ==
    /\ ibuf = [i \in 0 .. TY_IBUFLEN - 1 |-> 0] /\ ihead = 0 /\ itail = 0
    /\ obuf = [i \in 0 .. TY_OBUFLEN - 1 |-> 0] /\ ohead = 0 /\ otail = 0
    /\ echoes = 0
    /\ isem = SemWith(0)
    /\ osem = SemWith(TY_OBUFLEN)
    /\ icursor = 0 /\ imode = "cooked" /\ iecho = TRUE /\ controls = 0
    /\ oheld = FALSE /\ etbei = TRUE
    /\ pc = [p \in Procs |-> Idle] /\ kernel = NoProc
    /\ stored = <<>> /\ input = <<>> /\ got = <<>>
    /\ overrun = FALSE /\ uncounted = 0
    /\ written = 0 /\ sent = <<>> /\ outrun = FALSE

TtyNext == InterIn \/ InterOut \/ TtyCall

TtySpec == TtyInit /\ [][TtyNext]_vars
----------------------------------------------------------------------------
(***************************************************************************)
(* Properties.                                                             *)
(***************************************************************************)
OnTheirWay(ops) == Cardinality({p \in Procs : pc[p].op \in ops /\ pc[p].at = "woken"})

(* The input semaphore hands out one token for each character of a         *)
(* completed line, whatever was erased from it: those counted and those    *)
(* given to readers that have yet to run are the characters that may be    *)
(* read, and the line being typed is not among them.                       *)
InputTokens ==
    Len(got) + Tokens(isem) + OnTheirWay({"get", "nextc"})
        = Len(input) - icursor - uncounted

(* Readers get what was typed, as it was edited, in order and each         *)
(* character once, until the input ring is overrun; and what is sent is    *)
(* what was written, in order, until the transmitter outruns a writer that *)
(* was made ready and has not stored its character.                        *)
CharactersInOrder ==
    /\ ~overrun => IsPrefix(got, input)
    /\ ~outrun => \A i \in DOMAIN sent : sent[i] = i

(* A place in the output ring is free, taken by a character, or promised   *)
(* to a writer that has yet to run; none gets lost.                        *)
OutputTokens ==
    written - Len(sent) + Tokens(osem) + OnTheirWay({"put"}) = TY_OBUFLEN
=============================================================================
