# A verification project for Embedded Xinu (CSLabs)

The repository holds two course versions of the Xinu operating system for a
MIPS router board (`xinu-15Spring-lab3-linksys`, `xinu-15Spring-lab5-linksys`)
and a small database client (`Project4`). This directory models the parts of
Xinu that carry its logic in TLA+, checks them with TLC on small instances and
proves the central invariants with TLAPS for every instance.

Paths below are relative to `src/xinu-15Spring-lab5-linksys/` unless they start
with `lab3:` (`src/xinu-15Spring-lab3-linksys/`). The kernel files of the two
versions are the same except `create.c` and `process.h` (lab 3 adds the IPC
fields), `resume.c` (order of two tests) and `initialize.c` (lab 5 also starts
the network process).

## 1. Inventory

| component | state | operations | interacts with |
|---|---|---|---|
| scheduler (`system/resched.c`, `ready.c`, `create.c`, `resume.c`, `suspend.c`, `chprio.c`, `yield.c`, `sched_cntl.c`) | `proctab[]`, `readylist`, `currpid`, `preempt`, `Defer`, `prcount` | create, resume, suspend, chprio, yield, resched, deferral | everything: each blocking call ends in `resched()` |
| process queues (`queue.c`, `insert.c`, `insertd.c`, `getitem.c`, `newqueue.c`) | `queuetab[]`: one node per process, two per queue | enqueue, dequeue, insert, insertd, getitem | scheduler, clock, semaphores |
| semaphores (`wait.c`, `signal.c`, `signaln.c`, `sem*.c`) | `semtab[]` | wait, signal, signaln, create, delete, reset | kill, device interrupts, every driver |
| clock (`clkhandler.c`, `wakeup.c`, `sleep.c`, `unsleep.c`) | `sleepq`, keys in `queuetab[]`, `preempt` | tick, sleep, unsleep | scheduler, timed receive |
| mailboxes (`send.c`, `receive.c`, `recvtime.c`, `recvclr.c`) | `prmsg`, `prhasmsg` | send, receive, timed receive | clock, kill (the parent gets a message) |
| process end (`kill.c`, `userret.c`, `xdone.c`) | all tables | kill, halt | all of the above |
| lab 3 IPC (`lab3:system/sendb.c`, `receiveb.c`, `senda.c`, `registercb.c`, `sendq.c`, `receiveq.c`) | per-process waiting lists, message queue and call-back | blocking, call-back and queued send | scheduler, queues |
| memory (`getmem.c`, `getstk.c`, `freemem.c`) | `memlist`, free blocks | first fit, last fit, coalescing free | create, kill, buffer pools |
| buffer pools (`mkbufpool.c`, `getbuf.c`, `freebuf.c`) | `buftab[]`, chains | get, free | semaphores, memory |
| console (`device/tty`) | input, output and echo rings, modes, two semaphores | getc, putc, read, write, interrupts, echo, line editing | semaphores, deferral |
| network process, UDP, ICMP (`net/netin.c`, `udp.c`, `icmp.c`) | endpoint tables and their rings, the queue of replies, `netbufpool` | register, receive with a time limit, release, netin, echo replies | mailboxes, buffer pools, Ethernet |
| address resolution (`net/arp.c`) | `arpcache[]` | resolve with retries, receive, evict | mailboxes, netin, `icmp_out` |
| remote disk (`device/rds`, `rdserver`) | request queue, cache, free list, communication process, server files | read, write, sync, server | semaphores, mailboxes, UDP, the server |
| local file system (`device/lfs`) | directory, index and data blocks, open files | open, read, write, seek, truncate | remote disk, `lf_mutex`, one mutex for each descriptor |
| DHCP (`net/dhcp.c`) | the router's own address | one exchange at boot | UDP |
| Ethernet (`device/eth`) | two rings of descriptors shared with the controller, input buffer, two pools | read, write, interrupts | netin, every sender, the controller |
| other | shell, device switch, flash, boot code, C library, build tools | | |

### What is hard

* **Interleaving inside system calls.** There is one processor and system calls
  run with interrupts off, but `resched()` switches processes in the middle of a
  call; what a call does after it works on state that others have changed.
* **Interrupts.** The clock handler runs on the stack of the process it
  interrupts and may be switched away in the middle; device handlers defer
  rescheduling and must make up for it.
* **Termination.** `kill()` must take a process off whatever queue it is on,
  correct that queue's count or keys, and tell the parent, which may switch.
* **Shared links and keys.** One node per process serves the ready list, the
  sleep queue and semaphore queues.
* **Time.** Relative delays, message-or-timeout races, unsigned counters.
* **Unreliable delivery** (network, remote disk): time limits, retries, late and
  duplicate answers.
* **A device that runs by itself.** The Ethernet controller moves through its rings
  while the driver looks at them, with interrupts on or off.
* **Missing mutual exclusion.** `udp_register()`, `icmp_send()` and parts of the file
  system run with interrupts on and no lock: another process can run between any two
  statements. The calls of the remote disk driver keep interrupts off, but nothing
  protects what they found in its lists while they wait.

`PROJECT.json` lists each hazard at the line where it bites.

### What makes each component correct

* scheduler: exactly one current process; every process is on the one queue its
  state names; the highest priority runs; equals take turns.
* semaphores: the signed count is the length of the queue; tokens are neither
  made up nor lost; waiters are served in order of arrival, in spite of deletion,
  reset, killed waiters and deferred signals.
* clock: nobody wakes early; everybody wakes.
* mailboxes: no process stays blocked with a message in its mailbox.
* process end: the last exit halts the system.
* IPC: what is sent arrives (which `sendb()` does not keep), once, in order; a blocked
  sender is released.
* memory: blocks never overlap, adjacent free blocks are merged, the total is kept.
* console: characters come out in the order they came in; none is taken twice.
* buffers: the semaphore of a pool counts its chain; every network buffer is freed
  once, and netin always gets another.
* network: a reader is told of its packets; no address stays unresolvable.
* Ethernet: frames are read once and in order; what is written is sent, and its buffer freed;
  the interrupt handler never waits.
* remote disk, file system: a read returns the last write; no block has two owners,
  and none is lost.

## 2. Modules

| module | models | state |
|---|---|---|
| `XinuQueue` | queues as sequences; priority insertion and the delta list | none |
| `XinuSched` | process table, ready list, `resched()` and its deferral, create, resume, suspend, chprio, yield | `prstate`, `prprio`, `prparent`, `frame`, `qkey`, `readylist`, `currpid`, `preempt`, `defer`, `prcount`, `nextpid`, `halted` |
| `XinuClock` (on `XinuSched`) | clock handler, `wakeup()`, `sleepms()`, `unsleep()` | `sleepq`, `remaining` (auxiliary) |
| `XinuSem` (on `XinuClock`) | semaphore calls, device interrupts that signal | `sstate`, `scount`, `squeue`, `prsem`, `nextsem` |
| `XinuMsg` (on `XinuClock`) | send, receive, timed receive | `prhasmsg` |
| `XinuKernel` | all of these, with `create()` and `kill()`; the properties | |
| `Semaphore` | what a counting semaphore promises: tokens, waiters in order | `mode`, `tokens`, `waiting` |
| `XinuContract` | each semaphore of the kernel implements `Semaphore` | |
| `XinuIPC` (on `XinuKernel`) | lab 3: sendb, receiveb, senda, registercb | `receivelist`, `prmsg`, `func`, histories, who was left asleep or took messages with `recvtime()` (auxiliary) |
| `XinuTty` | the console driver on top of two semaphores | rings, modes, both halves, histories |
| `SemValue` | a semaphore as a value, for the modules below that use the kernel and do not model it | |
| `XinuMem` | `getmem()`, `getstk()`, `freemem()` | `memlist`, `mlength`, `held` (auxiliary) |
| `XinuPool` (on `XinuMem`, `SemValue`) | `mkbufpool()`, `getbuf()`, `freebuf()` | `buftab`, places, `has` (auxiliary) |
| `XinuNet` (on `SemValue`) | UDP and ICMP endpoints, netin, echo replies | `tab`, `pool`, `icoutq`, `icosem`, `icmpmutex`, `hasmsg`, places |
| `XinuArp` | `arp_resolve()` and `arp_in()` on the cache | `arpcache`, `nextslot`, `hasmsg`, places |
| `XinuEth` (on `SemValue`) | the Ethernet driver and its controller | rings, indices, input buffer, semaphores, what the controller has got to |
| `RdServer` | the remote disk server | `disk`, `sseq`, `sopen` |
| `XinuRds` (on `RdServer`, `SemValue`) | the remote disk driver, its process, the network to the server | buffers and their three lists, semaphores, exchanges, messages |
| `RemoteDisk` | what the driver promises: a disk | `contents`, `returned` (the block each process read last, until it is written) |
| `XinuLfs` | the local file system on a disk | `dir`, `ib`, `db`, `lfl`, places |
| `FileStore` | what it promises: files are sequences of bytes | `contents`, `opened`, `returned` |
| `XinuQueueProofs` (on `XinuQueue`, `SemValue`) | lemmas on queues as lists of processes, the sums of a delta list, a semaphore's value, the places of a ring | |
| `XinuKernelProofs` (on `XinuContract`, `XinuIPC`) | theorems about the kernel, its refinement, and the kernel with the calls of lab 3 | |
| `XinuMemProofs` (on `XinuPool`), `XinuTtyProofs`, `XinuEthProofs`, `XinuArpProofs`, `XinuNetProofs`, `XinuRdsProofs` | theorems about these components | |
| `MCKernel`, `MCIPC`, `MCTty`, `MCMem`, `MCNet`, `MCArp`, `MCEth`, `MCRds`, `MCLfs` | instances for TLC | |

### How actions correspond to code

There is one processor, and a system call runs with interrupts off. The only
place where something else can happen in the middle of it is `resched()`. So an
action is *a call up to its `resched()`*, and what follows is a second action,
which the process takes when it runs again. Which one, and with which locals, is
kept in `frame[p]`: `[at, arg, num]`, the part of `p`'s stack that matters.
`frame[p].at` is

| point | the rest of the call |
|---|---|
| `user` | none: the process runs its own code, with interrupts on |
| `receive`, `recvtime` | take the message (`receive.c:21`, `recvtime.c:32`) |
| `kill` | end the victim after its parent was told (`kill.c:35`) |
| `wakeup`, `clk` | the clock handler, on the stack of the process it interrupted |
| `signaln`, `semdelete`, `semreset` | a loop, one step for each iteration |
| `intr` | a device interrupt, in which rescheduling is deferred |
| `sendb`, `receiveb` | the rest of the lab 3 calls |

`resched()` is the operator `Resched(st, rl, keys, slice)`: its callers change
tables first, so it takes the changed tables as parameters. It is part of each
action that reaches it. Processes run arbitrary code: `currpid`, if it is not the
null process and not inside a call, may make any call in the constant `Calls`
with any arguments. Calls that return `SYSERR` at once without a change are not
steps. Interrupts come only while a process is at `user`.

The delta list is kept as it is in the code: a sequence of processes and a table
of keys relative to the process ahead. `remaining` counts, next to it, the ticks
each sleeper has left.

`XinuTty` stands on the promise of `Semaphore` instead of the whole kernel: a
semaphore is a count and a queue, and whoever was made ready may be the next to
run. That covers every priority and every time slice. `XinuPool`, `XinuNet`,
`XinuEth` and `XinuRds` do the same, with the operators of `SemValue`: `pc[p].at` is the place of
a process in the driver's code, `"wait"` while it waits for a semaphore, `"woken"`
from then until the scheduler gets to it.

Where these modules cut a call into steps:

* `XinuMem`, `XinuPool`: interrupts are off; a call is one step, cut where
  `getbuf()` waits.
* `XinuNet`: netin has the highest priority, so what it does between two waits is
  one step. `udp_recv()` and `udp_release()` are steps up to their wait.
  `udp_register()` runs with interrupts on: the search, the claim of a slot and the
  stores of its port, its remote address, its count and its indices (`UdpSearch`,
  `UdpClaim`, `FillPort` to `FillHeads`) are apart, so that a packet can come between
  any two. So does `icmp_send()`: getting a buffer, loading `icotail`, storing it
  advanced, storing the packet, testing and wrapping `icotail`, and the signal are
  steps of a process (`IcmpSend`, `IcmpLoad` to `IcmpSignal`), and netin's own
  `icmp_send()` for an echo request, or another process, may run between any two.
* `XinuArp`: `arp_resolve()` keeps interrupts off in its search, and again in the
  look at its entry, with the wait for the reply, the message that ends it and the
  retry in between. A packet is one step. `Stray` is a message from elsewhere, such
  as that of a child that ends.
* `XinuRds`: calls run with interrupts off, so they are cut where they wait and nowhere
  else: a call searches the lists and waits for a buffer, then takes one and queues its
  request without another look at the lists, and a read waits for the answer.
  Processes may share blocks. The driver's process and the
  server work between two waits in one step each. Messages can be lost; a request
  that is sent again may be handled twice. `Late` lets a message outlive the time
  limit of its exchange.
* `XinuEth`: `read()` and `write()` keep interrupts off, and so does the handler; the
  controller runs between any two of these, and also where it makes a difference inside
  them: between the filling of a descriptor and the look at `TX_STAT_UNDER` (`Fill`,
  `Start`), and between the two stores of `allocRxBuffer()`, where a descriptor is EMPTY
  and still has its old address (`RxDeliver`, `OldAddress`, `HandlerEnds`). A frame that
  comes then overwrites the packet being handed to netin, and what is read from the
  descriptor later is `Stale`: whatever the new buffer has in it.
  The controller is external: from how the driver uses `include/ag71xx.h`, it stops
  (`TX_STAT_UNDER`, `RX_STAT_OVERFLOW`) at a descriptor it cannot use, counts frames
  that each write of a status bit acknowledges, and looks at the descriptor it is
  started at before the next `write()`. Of the interrupts that make the handler panic,
  `IRQ_TX_UNDERFLOW` is not in the mask, and bus errors are taken not to occur.
* `XinuLfs`: what a call does under `lf_mutex` is one step; calls are cut where they
  wait for it, at every byte, and `lflClose()` between reading and writing the
  sector of its index block, which it does without `lf_mutex`.

Some sequences of legal calls make the code follow a pointer that is not one, use a
buffer twice, or panic. The model takes the step that leads there, notes it in
`fault` (`XinuNet`, `XinuRds`), `panicked` (`XinuLfs`) or leaves `InBuffer`
(`XinuTty`), and stops, because what the code does next depends on the memory
around. Properties that hold up to there say so (`Sane`).

## 3. What TLC checks

| run | instance | shows |
|---|---|---|
| `kernel` | 3 processes of two priorities; create, resume, suspend, kill, sleep, messages, semaphore calls, device interrupts | types, queues agree with states, nobody blocked with a message, the last exit is not missed, the highest priority runs, the meaning of negative counts, each semaphore implements `Semaphore` |
| `klive` | 4 processes of one priority that yield, sleep, send and wait with a limit | sleepers wake, but not early; equals take turns |
| `ipc` | 3 processes besides the null process; blocking sends, call-backs, timed receives, chprio | waiting senders stand on the right list, their release goes on unless the owner of the mailbox was left asleep or took a message with `recvtime()`, what is in a mailbox is received once and in order |
| `ipclost` | the same | *violated*: not every message sent arrives |
| `tty` | 2 processes, every kind of key, every mode | tokens and characters in step on both sides, characters in order |
| `mem` | a heap of 7 blocks, 2 sizes, 3 processes and a pool | the free list is ordered and merged, nothing is given out twice, nothing is lost, the pool's semaphore counts its chain |
| `net` | 2 processes, 1 UDP and 1 ICMP endpoint, rings of one place, 5 packets | until two stores race for one place, buffers are freed once, readers are told, netin goes on |
| `eth` | a reader, 3 writers, rings and input buffer of 2 places, 5 frames, 5 writes | frames are read once and in order until one overwrites a packet being handed on, the counts of the input agree even then, the handler finds a buffer; no output buffer is lost and what is written is sent, until a writer waited with a place others moved on from |
| `arp` | 2 processes, 3 addresses, 2 entries, 2 packets, 1 stray message | one entry for each address, with its latest hardware address, which a process that was told answers; no address stays pending |
| `rds` | 2 processes, one of which uses 2 blocks besides block 0 and the other the first of them too; 2 buffers, 5 calls, 1 lost message | the driver implements `RemoteDisk` and loses no write until a write and another request of its block wait at once; it loses no buffer, and serves its requests |
| `rdsstale` | 1 process, messages that come late | *violated*: the driver does not implement `RemoteDisk` |
| `lfs` | 2 processes, 2 files, 3 index blocks, 4 data blocks, 6 calls | the file system implements `FileStore`; every block is in one place |

The two violations are listed under "findings" in `PROJECT.json`, with the comment or
test each contradicts. `ipclost`: a message is in the mailbox and a second sender waits;
`receiveb()` takes the first and releases the second sender, but before it runs a third
`sendb()` finds the mailbox empty; the second sender finds it full again, drops its
message and returns OK. `lab3:system/lab3_basic_sample_testcase.c:127` asks that every
message arrives. It also asks for the order of sending, which the same overtaking breaks
if the mailbox has been emptied again when the second sender looks (`ReceivedInOrder`
allows that case by `waited`). `rds` sets `Late` to FALSE, so that what else the driver promises can be
checked beside that error. It also leaves the block with the number of a sync
request (`Unused`, 0 in `rdsControl.c:50`, which calls it unused) to nobody, because
`ActsAsDisk` is false with that block: `rdsRead()` looks for the last request for its
block and finds the sync, behind which the write of the block is queued before; the
read goes to the server, and its buffer comes to stand before the written one in the
cache; the next write takes the first of the two out and leaves the other, which a read
then returns. TLC finds this with `Unused` 1, `RD_BUFFS` 3, `RD_RETRIES` 1, `MaxCalls` 7
and `MaxLost` 0 in `rds.cfg`. `net` gives rings and tables one size for the same reason:
`udp_in()` wraps the tail of a ring at `UDP_QSIZ` (8), and `udp_recv()` its head at
`UDP_SLOTS` (6), the number of endpoints; `Dequeued` and `Release` have this, and with
the sizes of the source the seventh packet to an endpoint is not the one that is read.

### The properties

* `QueuesMatchStates`: each process is on exactly the queue its state names, once.
  `kill()`, `suspend()` and `unsleep()` unlink a process from "its" queue by its
  state alone, so everything else rests on this.
* `SemCounts`, `SemaphoreContract`: a negative count is the length of the queue;
  and in every interleaving of wait, signal, signaln, reset, delete, kill and
  interrupts, tokens are conserved and waiters leave in the order they came,
  unless killed. `SemaphoreContract` is a refinement: `tokens` is the positive
  count, `waiting` the queue, `mode` tells a reset or a deletion in progress.
* `MailboxWakes`: a process that is blocked has no message; a process that is
  about to take one has one. `receive()` does not look again after it was
  rescheduled.
* `DelaysRespected`: the keys up to a sleeper's own add up to at least the ticks
  it has left, through insertion, `unsleep()` and ticks.
* `HighestRuns`: whenever a process runs its own code, no ready one has a higher
  priority, in spite of deferral: in `kernel` a wake-up that was deferred must not
  leave the processor with the null process. It is claimed without `chprio()`, which
  leaves a ready process where it was (`ipc` calls it).
* `LastExitHalts`: `prcount` never exceeds the live processes. It can be less: a
  process that is killed again while its own `kill()` is telling its parent is
  counted twice, and the system then halts while another process is alive.
* `SleepersWake`, `EqualsTakeTurns`: liveness, under the fairness below. `klive` has
  no polling process: one that calls `recvtime(0)` in a loop stands at the head of
  the delta list at every tick, and nobody behind it is ever charged for one.
* `SendersWait`, `ReleaseGoesOn`, `ReceivedInOrder`, `EverySentArrives` (lab 3). A sender
  that was released stores its message if it finds the mailbox empty, without waking a
  recipient that has gone back to sleep (`sendb.c:46`): the recipient then sleeps on a
  full mailbox, and the other senders wait for ever. `recvtime()` is the kernel's own and
  releases nobody. `ReleaseGoesOn` says that senders wait for ever, or a process sleeps on
  a full mailbox, only for these two reasons (`unwoken`, `bypassed`), which the run
  reaches. `ReceivedInOrder` speaks of messages that were put in a mailbox. Those that a
  released sender drops are the violation `EverySentArrives`. `senda()` calls the
  recipient's call-back without a test: without one the system stops (`SendaCrash`).
* `InputTokens`, `OutputTokens`: the input semaphore counts exactly the characters
  of completed lines, and the output semaphore the free places, where tokens given
  to processes that have yet to run are on their way. `CharactersInOrder`: readers
  get what was typed and edited, in order, until the input ring is overrun
  (`overrun`: a newline is stored without a test, and the room left is computed
  without the characters promised to readers that have yet to take them); and what
  is sent is what was written, in order, until the transmitter outruns a writer that
  was made ready and has not stored its character (`outrun`).
* `FreeListOK`, `NothingTwice`, `MemoryAccounted`: the heap through splits from both
  ends, merges on both sides, partial and repeated frees. `BuffersCounted`: a
  process that was given a token finds a buffer in the chain.
* `BuffersAccounted`: the pool of network buffers, wherever each is: in a ring, in
  `icoutq`, with netin, a sender or `icmp_out`, on its way to somebody who waited, or
  forgotten by a registration (`leaked`, which the code makes possible and the property
  counts). It ends at a fault, and the run reaches each: `overrun`, a buffer stored
  over another or past the end of its ring (two senders overtake each other in
  `icmp.c:252-255`; neither they nor `icmp_in()` test for room); `wrong read`, a place
  taken that holds no buffer (`icmp_out` after such a race, a reader that is told of a
  packet already read) or somebody else's; and `slot shared`.
  `ReaderTold`: nobody sleeps on a packet, although netin looks at the endpoint after
  a wait for a buffer. `NetinGoesOn`: if netin waits for a buffer, somebody has one
  to give back; with a pool that forgets the places of `icoutq` this fails.
* `CacheFresh`: entries are evicted, given up and allocated while processes wait, and
  still an address has one entry, with what it said last. `PendingEnds`: a pending
  entry is resolved or freed. `AnswerFresh`: what a process answers after its wait is what the
  address said last, though its entry may hold another address by then; the code looks at
  the address only, so an entry that was given up, or allocated for the same address
  again, passes. Both speak of the time before a stray message: that one
  makes `arp_resolve()` leave its entry pending for good.
* `InputInStep`: the places of the input buffer and of the receive ring that hold
  frames not yet read are known three times (semaphore, indices, the controller's
  count), and agree through overruns, overflows and readers that were made ready. What
  is read is each frame once, in order, until one comes to a full ring between the two
  stores of `allocRxBuffer.c:41-42` (`overwrote`), which the run reaches: that frame is
  read in place of an older one, and what the new buffer holds in its own place.
  `HandlerNeverWaits`: one pool serves both; a smaller one would make the handler wait
  on the stack of whoever it interrupted. `OutputAccounted`, `AllSent`: until a writer
  stores at a place it chose before it waited for a buffer and that is no longer the
  tail (`raced`). TLC reaches this: the buffer of another packet is then lost, and a
  packet stays where the controller does not look. Both properties fail without that
  condition.
* `ActsAsDisk`: the driver refines `RemoteDisk`. Its `contents` is the auxiliary
  `wrote`, so reads are checked against the last write of their block; `NoWriteLost`
  ties it to the state: what was written is in the queue, in the exchange, or on the
  server's disk. Processes share a block, and both claims end where the code's search of
  the queue no longer says what is going on with it: when a write has waited for its
  buffer beside another request of its block (`crossed`). Two writers that wait in
  `rdsbufalloc()` both queue a request, though the search is there so that there is one;
  a third write overwrites the first of them (`rdsWrite.c:31-37`), the second, older one
  is sent last, and `NoWriteLost` without its condition fails in this run. A read that
  waits beside a write leaves an older copy of the block in the cache. The run reaches
  both. `BuffersAvailable`: the tokens are at least the buffers that can be
  had, though the token of a cached buffer is taken back by `semreset()`. They can be
  more, since `semreset()` does nothing when no token is left: a caller with a token then
  finds no buffer (fault `no buffer`, which the run reaches), where the comment at
  `rdsbufalloc.c:30-32` says that one exists.
  `RequestsServed`: liveness of requests that were signalled; the code queues a sync
  without a signal.
* `ActsAsFiles`: the file system refines `FileStore`, with a structural mapping: the
  bytes of a file are found by walking its index blocks, in memory for an open file
  and on the disk otherwise. `BlocksAccounted`: free lists and files together are all
  the blocks, each once. `LfsTypeOK`: what a descriptor has in memory is its file's.

### Bounds

| bound | why it is enough |
|---|---|
| `NPROC` 3 or 4 | slot 0 is the null process; a victim, its parent and a killer, or two waiters and a signaller, are three; slots are reused |
| `QUANTUM` 1 or 2 | a slice that ends at each tick, and one that does not |
| `Prios` {1} or {1, 2} | equal, higher and lower; `NewPrios` {2} for `Reniced` {2} in `ipc`: the one whose mailbox is used can rise above the senders |
| `NSEM` 1 | the semaphores share no state but the slots (`nextsem`); the proof is for any number |
| `Counts` {0, 2}, `MaxCount` 1 | reset and create with and without tokens; signaln of more than one waiter |
| `Delays` {1, 2}, `MaxWaits` {0, 1} | equal and different delays, a wait of 0 |
| `WordSize` 16 | a small word for 2^32, of which the delays are less than half: a longer one becomes a negative key, and ends at the next tick |
| `MaxMsgs` 3, `Mailboxes` {2}, `Stacks` {TRUE} | a message in the mailbox, one whose sender waits, one that comes between; a `create()` that finds no stack changes nothing of the lists |
| `MaxStored` 4, `TY_IBUFLEN` 3 | the input ring wraps and is overrun |
| `TY_OBUFLEN` 1, `UART_FIFO_SIZE` 1, `MaxWritten` 2 | a full ring, a writer that waits, and a transmitter that drains before it runs (with 64 and 16, four output interrupts) |
| `MaxControls` 1 | one change of mode or one lookahead, at any time |
| `HeapSize` 7, `Requests` {8, 20} | blocks of 1 and 3: splits, exact fits, merges on either side and both, and a heap that is full |
| `NBPOOLS` 1, `NumBufs` {1, 2}, 3 processes | pools share no state but the heap; two waiters and one that frees |
| rings and tables of 1 in `net`, `ICMP_OQSIZ` 2, `MaxPackets` 5, `MaxRegisters` 2 | a full ring, an empty one and the reuse of a slot by either process; the indices of `icoutq` wrap; the pool of 5 buffers runs out. With one place a ring has one index: the window between `udp.c:105` and `106` shows with `UDP_SLOTS` and `UDP_QSIZ` 2 and `MaxPackets` 4, with which all four properties hold too, and the pool does not run out |
| rings of 2 and `ETH_IBUFSIZ` 2 in `eth`, `MaxFrames` 5, `MaxWrites` 5 | both rings wrap twice, the input buffer is overrun, the reader waits, two writers wait with the same place; the sizes of the source are powers of two, so that the indices, which are not reduced, wrap like those of the model |
| `ARP_SIZ` 2, three addresses, `ARP_RETRY` 2, `MaxPackets` 2, `MaxResolves` 2, `MaxStrays` 1 | a full cache, an eviction, a retry, an answer after the last one |
| `RD_BUFFS` 2, `Blocks` {1, 2}, `Uses` of `OneShared`, `Unused` 0, `RD_RETRIES` 2, `MaxCalls` 5, `MaxLost` 1 | both processes use block 1, one of them block 2 too; the data are interchangeable, so `MCRdsSpec` fixes what block 1 holds at the start; a waiter for a buffer, a cached buffer that is taken back, a rewrite of a queued block, a request sent again and handled twice; the panic after the retries needs two losses of one exchange and is met where the server ignores a message |
| `LF_BLKSIZ` 2, `LF_IBLEN` 2, `IBLKS` 3, `DBLKS` 4, `MaxSize` 5 | a second data block, a second index block, a disk that is full; all index blocks are in one sector |
| `MaxCalls` 6 in `lfs` | two opens and four reads, writes, truncations, seeks and closes, each of which is several steps |

`prcount`, `scount` and the sleep keys are not bounded by themselves: the instances
bound them through the processes and `MaxCount`.

### Fairness

`FairSpec` assumes two things. The timer: a pending interrupt is taken as soon as
`restore()` turns interrupts on, however briefly, so the clock handler is strongly
fair. The processor: a process inside a call runs on, so unfinished calls are
weakly fair. Nothing is assumed of what processes do: they may compute for ever.

`ArpSpec` assumes that the processor gets to a process inside `arp_resolve()`, whose
waits all have a time limit; not that any packet arrives. `RdsSpec` assumes that the
driver's process (of a higher priority than its callers), its clock and the server
go on, and that the network delivers or loses what is on it. A caller of the driver
is not assumed to go on. `EthSpec` assumes that the controller sends what it is given, that
a pending interrupt comes once interrupts are on, and that a writer inside its call
goes on; not that netin reads.

## 4. What TLAPS proves

For every `NPROC >= 2`, `NSEM >= 1`, `QUANTUM >= 1` and every choice of the other
constants that meets the named assumptions:

| theorem | states |
|---|---|
| `KernelInvariant` | `Spec => []IInv` |
| `KernelTypes` | `Spec => []TypeOK`; so the slice never reaches 0 between ticks and the unsigned decrement in `clkhandler()` does not wrap |
| `QueuesAreRight` | `Spec => []QueuesMatchStates` |
| `CountsAreRight` | `Spec => []SemCounts` |
| `FreeListSound` | `PoolSpec => []FreeListOK`, for every heap, all sizes asked for, any number of processes and pools |
| `NothingGivenTwice` | `PoolSpec => []NothingTwice`, for the same |
| `MailboxesWake` | `Spec => []MailboxWakes` |
| `LastExitIsSeen` | `Spec => []LastExitHalts` |
| `KernelKeepsContract` | `Spec => SemaphoreContract`: each semaphore of the kernel implements `Semaphore` |
| `DelaysHold` | `Spec => []DelaysRespected`, if every delay is less than half a word (`ShortDelays`) |
| `PrioritiesHold` | `Spec => []HighestRuns`, if `chprio()` is not among the calls; where it is, the property is false |
| `AllMemoryAccounted` | `PoolSpec => []MemoryAccounted`, for the same |
| `PoolsAreRight` | `PoolSpec => []BuffersCounted`, for any number of pools, buffers and processes |
| `IPCQueuesMatch` | `IPCSpec => []QueuesMatchStates`: the same of the kernel with the calls of lab 3 |
| `SendersAlwaysWait` | `IPCSpec => []SendersWait` |
| `ReleasesGoOn` | `IPCSpec => []ReleaseGoesOn` |
| `MessagesInOrder` | `IPCSpec => []ReceivedInOrder` |
| `TokensAreCharacters` | `TtySpec => []InputTokens`, for rings of every size, any keys, modes, readers and writers |
| `PlacesAreCounted` | `TtySpec => []OutputTokens`, for the same |
| `CharactersComeInOrder` | `TtySpec => []CharactersInOrder`, for the same |
| `CacheIsFresh` | `ArpSpec => []CacheFresh`, for every cache size and any number of processes, addresses and packets |
| `BuffersAreAccounted` | `NetSpec => []BuffersAccounted`, for any number of slots, places, processes and packets, until the first fault |
| `ReadersAreTold` | `NetSpec => []ReaderTold`, for the same |
| `NetTypesHold` | `NetSpec => []NetTypeOK`, for the same, if there are no more slots than places in a ring |
| `NetinGoesOnHolds` | `NetSpec => []NetinGoesOn`, for the same, until the first fault |
| `HandlerFindsBuffer` | `EthSpec => []HandlerNeverWaits`, for rings, input buffers and writers of every number |
| `InputStaysInStep` | `EthSpec => []InputInStep`, for the same: each frame once and in order until one overwrites the packet being handed on, and the counts for ever |
| `OutputIsAccounted` | `EthSpec => []OutputAccounted`, for the same |
| `RdsTypesHold` | `RdsSpec => []RdsTypeOK`, for any number of processes, blocks, shared or not, buffers, tries and lost messages, late ones included |
| `BuffersStay` | `RdsSpec => []BuffersAvailable`, for the same |
| `WritesStay` | `RdsSpec => []NoWriteLost`, for the same and whoever shares a block, until two writes of a block have waited at once or the first fault, if no message outlives the time limit of its exchange (`~Late`) |
| `DriverIsDisk` | `RdsSpec => ActsAsDisk`: the driver implements `RemoteDisk`, for the same, if `~Late` and no process uses the block number of the sync requests (`SyncBlockUnused`); until a write and another request of its block have waited at once |

`IInv` is the inductive invariant
`Tables /\ Scheduled /\ Sleepers /\ Waiters /\ Contexts /\ SemCounts /\ FreeSems`.
`QueuesMatchStates` alone is not inductive:

* `resched()` takes the head of the ready list, so it must not be empty:
  `Scheduled` adds that the null process is always current or ready;
* a loop of `signaln()`, `semdelete()` or `semreset()` goes on with interrupts
  off, so `Contexts` says that only the current process can be inside one, that
  rescheduling is deferred exactly in a device interrupt, and that the arguments
  in its frame are the ones the call checked;
* `semcreate()` takes a free slot without looking at its queue: `FreeSems` says
  that a free slot has no waiters unless it is just being deleted;
* `kill()` goes on after its report to the parent with whatever has become of the
  victim: `Contexts` says no more of it than that it is not the null process, and
  that is enough.

The proof follows the code: lemmas about `insert()`, `insertd()`, `getitem()` and
dequeueing as operations that add or remove one process (`XinuQueueProofs`); what
`resched()` and `ready()` do to a scheduler in any intermediate state
(`ReschedMoves`, `ReadyReschedMoves`, `BlockMoves`); then one lemma for each
action; `NextInv` combines them.

The other theorems about the kernel rest on `IInv` and add one invariant each. Most
calls change neither a mailbox nor the count of processes and move one process at
most from one state to another: `PlainStep` says so once, and what an invariant needs
of them is proved once.

* `MailboxesWake` needs that a process inside `receive()` is blocked in it, woken with
  a message, suspended, or killed (`InReceive`); `MailboxWakes` alone does not say
  that such a process cannot be asleep or on a semaphore, from where another wake-up
  would let it go on without a message.
* `LastExitIsSeen`: `kill()` takes its victim off `prcount` first and off the table
  last, with a `send()` in between that may switch to others. `ExitInv` counts those
  that are inside it: `prcount` and the live processes inside `kill()` together are
  no more than the live ones. A process that is killed inside its own
  `kill()` leaves both sides.
* `KernelKeepsContract`: each action, seen through `AbsMode`, `AbsTokens` and the
  queue, is a step of `Semaphore` or leaves it as it was. The case that needs `IInv`
  is the middle of `semreset()` and `semdelete()`: other calls do not run then, and the
  number of those that are still to be released is the length of the queue.
* `PrioritiesHold`: `RankInv` says that the ready list is in the order of the
  processes' own priorities (`Sorted`, which insertion keeps and the keys mirror) and
  that a ready process with a higher one than the current exists only while a
  `resched()` is due (`Pending`): inside a loop that releases processes, or after a
  `resched()` that was attempted and deferred.

* `DelaysHold`: the keys up to a sleeper's own are a sum along the list. What the
  calls do to such sums is proved in `XinuQueueProofs` (`TickDue`, `InsertdDue`,
  `UnsleepDue`) by taking the first place at which one would be wrong, which needs
  only that a set of numbers has a least one. `DelayInv` adds that keys are integers.
  The keys are fields of the processes and not of the list, so the proof turns on who
  writes them: `resched()` and `ready()` set the key of a process they put on the ready
  list, and by `IInv` that one is not asleep. `ShortDelays` is needed: `insertd()`
  compares `int` keys, a delay of 2^31 ticks or more is negative there, and such a
  sleeper wakes at the next tick.

The theorems about lab 3 are about `IPCSpec`, which has the scheduler, the clock, the
timed receive and the calls of lab 3, but no `kill()`. `IInv` holds there too
(`IPCKeepsIInv`): the new state `PR_SND` belongs to no queue that `IInv` speaks of.
`IPCInv` adds, for `SendersWait`, that a process in `PR_SND` is inside `sendb()`; for
`ReleaseGoesOn`, that a process inside `receiveb()` is blocked there or has a message
(`InReceiveb`), since otherwise it could go on from an empty mailbox and release a
second sender, and that nobody sends to a free slot, which `create()` could give to
somebody else; for `ReceivedInOrder`, that a sender's undelivered message is its last
one and not stored (`Letters`), and that what is in a mailbox is newer than all its
owner has received from that sender (`Mail`).

The heap rests on `MemInv`, which says of the list and of the blocks in use together
that listed blocks are in the heap, in order and never touching, and that the blocks
in use are apart from them and from each other. Neither half is inductive alone:
`freemem()` keeps the list in order because what comes back is apart from what is
listed, and `getmem()` gives out nothing twice because listed blocks are apart.
`freemem()` is two steps in the proof: merging with the block before, after which
one pair of listed blocks may touch (`Ordered(list, at)`), and merging that pair. A
second `freemem()` of what is already free meets the tests of the code and changes
nothing (`FreeAgainStep`). For `MemoryAccounted` the free memory is the set of addresses
that the listed blocks cover, and its size is counted rather than summed: a call takes
the addresses of one block from that set or adds them (`GiveAccounted`,
`WithPreviousCells`, `WithNextCells`), and by `MemInv` they were all in it, or none.

The pools rest on `PoolInv`: for each pool, the chain is as long as the tokens of its
semaphore and those on their way through `getbuf()` together, because `freebuf()` puts
the buffer into the chain before it signals. That no buffer is in the chain and with a
process, or with two, is part of it: what is freed must be new to the chain.

The console driver rests on `TtyInv`, whose two halves, `InSide` and `OutSide`, hardly
meet: the interrupt half wakes readers or writers, never both, and a process waits for
one thing. Each half says that its semaphore's queue holds those that wait for it
(`Serves`), the count that the theorem states, and, until the ring is overrun, that the
pointers are the lengths of the histories modulo the size of the ring and its places
hold what the histories say is in it (`InputRing`, `OutputRing`). A reader that was
made ready finds a character because its token counts one; a writer finds a place
because the transmitter signals only places it has sent. That each key, in each mode,
hands out as many tokens as it makes characters available is `PutInKeeps`, with the
line being typed (`icursor`) and the characters of cbreak mode, for which nobody is
signalled (`uncounted`), on the other side of the sum.

The ARP cache needs `ArpInv`: the types, one entry for an address, and the latest
answer in a resolved one. What carries it is the order of the code: `arp_alloc()` is
called only after the search of the whole cache has failed, in the same masked
section, so that it adds no second entry; the slot it takes is a free one or else a
resolved one, never an entry that somebody waits for; and
`arp_in()` writes to the entry its search found. That the walk around the ring
reaches every slot is arithmetic modulo `ARP_SIZ` (`AroundTo`).

The network process rests on `NetInv`. A reader is told by way of its entry, so that
`ReaderTold` needs more than it says: an entry that expects a reader names one that is
in `recvtime()` for it (`PidReads`), and an entry in use has exactly one owner
(`Owned`), since otherwise somebody else could empty or release the ring. The
count of the buffers needs that the queue of each semaphore lists those that wait
for it, and no others (`Sems`): a buffer that is freed with someone waiting counts
as given to one that was waiting for it. It also needs that `icoutq` has a buffer for
every packet `icmp_out` was told of and for every sender that has stored its own and not
told of it yet (`OutRing`): that much is true however senders overtake each other, until
one stores in a place that is taken or past the end. `NetinGoesOn` then follows by counting: with the
pool empty, nobody holding a buffer and none forgotten, they would all be in
rings, which have fewer places (`Room`). The packets in the rings are counted as a set
(`InRings`) because a sum over the endpoints would need induction. The heads of the rings
are places of them only if there are no more slots than places, since the code wraps
them at the number of slots; `NetTypesHold` says so.

The receive handler rests on `EthInv`, of which the conjunct that says it all is that
the input pool has one free buffer for each free place of the input buffer. For that
to be inductive the semaphore has to count the packets, with the one given to a
reader that was signalled and has not run (`InputCounted`), otherwise the reader
could take from an empty buffer; only netin waits on that semaphore, and a process
waits at most once for an output buffer, so that signals find the waiters they are
meant for (`Writers`); and a process with interrupts off has filled the place
it was given (`Filled`).

The two input rings need `InputRings`: the receive ring holds, from the driver's head
on, as many frames as the controller counts, and the input buffer the ones before
them, so that the two together are `arrived`. It is inductive because the
controller stores only at an empty descriptor, which none of those that hold a frame
is, so that it never comes round to the driver's head, and because frames are all
different, so that the one the handler drops for want of room is the first after those
in the input buffer. The order (`FramesInStep`) is kept until a frame comes between the
two stores of the handler; the counts do not depend on it. The output ring needs `OutputInv`: `txHead` and `txTail`
only grow, and the places with buffers are the window between them taken round the
ring, which has as many places as the pool has buffers; so the writer that gets a token
finds its place free, unless somebody else moved the tail while it waited (`raced`).

The buffers of the remote disk need `RdsInv`: the three lists have all buffers between
them, each once (`OnThreeLists`); a request is in the queue for each signal, and one
more for the read in progress, which leaves the queue when it is answered
(`Signalled`); and the tokens with those on their way are at least the buffers that can
be had. The last is an inequality because `semreset()` may do nothing, and is kept
because a write puts its buffer into the cache and signals in one step, before it
sends; a rewrite of a cached block takes both back.

That no write is lost rests on what is on the network. `ExchangeInv` says, of a caller
in `rdsOpen()` or `rdsClose()`, that its exchange has the last sequence number and
nothing else is going on but a write of which the queue knows no more
(`CallersExchange`, `AtRest`); of a request of the driver that is still on the
network, that the server ignores it as old, or that it is the one of the exchange in
progress (`OfDriver`); and that a reply is to an exchange that waits for it, and to it
alone (`EachAlone`). So the server cannot do an old write after a newer one. With late
messages the driver takes an old reply for its own, ends an exchange that the server has
not seen, and the old request may still come; that is what `~Late` excludes and
`rdsstale` shows. `DataInv` follows the data, until two writes of a block have waited at
once: there is at most one queued write of a block, and while one process waits to queue
one no other process does and none is queued (`WritesQueued`, `WritesWaiting`); a block
that is neither queued nor in the exchange is on the server's disk as it was written
(`WritesDone`), and one in the exchange is there as soon as the server has answered
(`ResponsesInFlight`). `rdsClose()` empties the cache but not the queue, so it takes
nothing that is not written.

That the driver is a disk rests on `CacheInv` as well, because a read may be answered
from three places. From the cache: a valid buffer there has the last write of its block,
nobody reads it, it is the first that a search for the block finds, and no newer write
of the block is queued (`CacheCurrent`). From a queued write, of which there is one for
a block at most. From the server: a block that some process reads or waits to write is
copied nowhere in the driver, and what one waits to write no other reads or writes
(`CallsPending`, which is where `crossed` ends the claim: two processes may wait to read
one block, and each gets an answer of its own), each queued read or sync belongs to one process in
`receive()` with an empty mailbox (`RequestsPending`), and the read in the exchange is
the request at the head, its replies carrying what is on the disk (`ReadsInFlight`). The
answer waits in the cache with a reference count of one, so that nobody can take its
buffer for another block before the reader has copied it (`Delivered`). `StepOfDisk`
then maps each step: one that queues a write, or rewrites a queued or cached one, to a
`Write` of `RemoteDisk`, the return of a read to a `Read`, and everything else to a
stutter. `SyncBlockUnused` is needed because of the
bug described in section 3: a queued sync request has a block number too, and a search
of the queue for that block finds the sync instead of the write.

Only model-checked: liveness; the properties of `XinuLfs`, with the refinement of
`FileStore`. Those of `XinuLfs` follow chains of blocks
with folds, which the prover cannot evaluate; the blocks of a file are whatever its
chain reaches.

## 5. What is not modelled

* In `kill()`: closing descriptors and freeing the stack. In `create()`: the stack;
  that `getstk()` fails is a choice. In the process table: names.
* Message contents in the kernel (in `XinuIPC` they are numbers), return values.
* `newqueue()` and the table of links behind the queues. `semcreate()` reuses the
  queues made at boot.
* In lab 3: `sendq()` and `receiveq()`, which put the node of a process on two queues
  at once, so that the links are no set of queues any more; and `kill()` of processes
  that use the other calls, after which senders wait for a process that is gone.
* The network process that lab 5 starts at boot is in `XinuNet` only: the kernel's
  instances create processes instead.
* On the console: what is echoed (the echo ring is a number of characters), and
  what happens once a line kill or an EOF has moved an input pointer out of its
  ring (`InBuffer`): the memory around the buffer holds the driver's own pointers.
  Held output is modelled (`oheld`, `etbei`): a character that lifts the hold and
  echoes nothing leaves output interrupts off until the next write or echo.
* Sizes near 2^32 in `getmem()`, where `roundmb()` wraps to 0.
* In the network: headers, checksums, routing, `udp_send()` (no state of its own),
  DHCP (one sequential exchange at boot). Neither `icmp_in()` nor `icmp_send()` tests for a
  full ring, senders that overtake each other store two packets in one place of `icoutq`,
  and two callers of `udp_register()` can be given one slot: the model notes these in
  `fault` and stops there, since one buffer is lost and another one used twice.
* In the Ethernet driver: opening it, which is the initial state, and `ethControl()`,
  whose only caller reads the address; statistics and the counters of errors. When the
  input buffer is full, the handler clears the packet and leaves its descriptor full:
  the model has this (`RxOverrun`), and shows that reception stops for good once the
  controller comes round to that descriptor. No property is claimed of it.
* In the remote disk: deleting a disk, the server's table of disks, a file that is
  shorter than the disk, the restart of the server. Processes open or close the disk
  while no other call is in progress. The faults the run
  reaches are what the code does: `no buffer` (more tokens than buffers), `links` (two
  processes read one block: unlinking the second request uses
  the links of the one just moved to the cache; a queued sync would be taken for such a
  request for block 0), `spin` (the search for an older copy in the cache never
  advances), `panic` and `half closed` (`rdsClose()` during
  the exchange of the last write). What becomes of a block after a write and another
  request of it have waited at once is in the model, and no property claims anything of
  it but types, tokens and service.
* In the file system: when the directory is written to the disk, and so what a restart
  finds there (closing a file does not write its size); mode strings; `lfsckfmt()`. With
  `Polite` there is one `open()` at a time, of a file that is not open, and `close()` is
  called while no other call is in progress. Without it two opens are given the same
  descriptor, and a close that overlaps a truncation of another file writes back an
  index block that was freed: `ActsAsFiles` and `BlocksAccounted` fail at once.
* The parts marked `not_modelled` in `PROJECT.json`, with the reason. Most of the
  source lines are outside the model for such reasons: the lab 3 tree repeats the lab 5
  tree file by file; the parser and scanner of the configuration compiler are
  generated (and there twice); the shell, the C library and the boot image tool keep no
  state that several actors share.

## 6. Plan

What is left, in this order:

1. `queuetab[]` as linked nodes, shown to implement the sequences of `XinuQueue`; with
   it `sendq()` and `receiveq()`, and `kill()` in `XinuIPC`.
2. `XinuLfs` on `XinuRds` instead of on a disk that answers at once, with the directory
   on the disk and a restart.
