------------------------------ MODULE MCKernel ------------------------------
(* Instances of XinuKernel and XinuContract for TLC. *)
EXTENDS XinuContract

ProcCalls == {"create", "resume", "suspend", "kill"}

(* Messages, sleeping and kill(). *)
MessageCalls == ProcCalls \cup {"sleepms", "send", "receive", "recvtime", "recvclr"}

(* Semaphores, device interrupts and kill(). *)
SemaphoreCalls == {"create", "resume", "kill", "semcreate", "wait", "signal",
                   "signaln", "semdelete", "semreset", "interrupt"}

(* Both together: signals and messages wake, and kill() ends, whoever waits   *)
(* for the other kind.                                                        *)
AllCalls == MessageCalls \cup SemaphoreCalls

(* Three processes of one priority that share the processor, sleep, and wait *)
(* for messages with a time limit.                                           *)
SharingCalls == {"create", "resume", "yield", "sleepms", "send", "recvtime"}
=============================================================================
