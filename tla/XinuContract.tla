---------------------------- MODULE XinuContract ----------------------------
(***************************************************************************)
(* The kernel keeps the promise of module Semaphore, for each semaphore:   *)
(* ASem stands for any one of them.                                        *)
(***************************************************************************)
EXTENDS XinuKernel

CONSTANT ASem   \* the semaphore that is looked at

ASSUME ContractAssumption == ASem \in Sem

AbsMode ==
    CASE sstate[ASem] = "FREE" -> "none"
      [] sstate[ASem] = "USED" /\ Resetting(ASem) -> "reset"
      [] OTHER -> "live"

AbsTokens == IF sstate[ASem] = "USED" /\ scount[ASem] > 0 THEN scount[ASem] ELSE 0

Contract == INSTANCE Semaphore WITH
    mode <- AbsMode, tokens <- AbsTokens, waiting <- squeue[ASem]

(* wait, signal, signaln, semreset, semdelete, device interrupts and the   *)
(* killing of waiters, in any interleaving, amount to a counting semaphore *)
(* that serves its waiters first come, first served.                       *)
SemaphoreContract == Contract!AbsSpec
=============================================================================
