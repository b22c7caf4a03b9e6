----------------------------- MODULE Semaphore -----------------------------
(***************************************************************************)
(* What one counting semaphore promises: tokens are never made up or lost, *)
(* a process waits only when there is no token, and the processes waiting  *)
(* are released in the order they came.  Module XinuSem implements it with *)
(* one signed count and a queue.                                           *)
(***************************************************************************)
EXTENDS Naturals, Sequences, SequencesExt

VARIABLES
    mode,       \* "none", "live", or "reset" while it is being reset
    tokens,     \* units that a wait() would get at once
    waiting     \* the processes waiting, in order of arrival

absVars == <<mode, tokens, waiting>>

AbsInit == mode = "none" /\ tokens = 0 /\ waiting = <<>>

(* A new semaphore has no waiters left from an earlier life. *)
Make ==
    /\ mode = "none" /\ waiting = <<>>
    /\ mode' = "live"
    /\ tokens' \in Nat
    /\ UNCHANGED waiting

Take ==
    /\ mode = "live" /\ tokens > 0
    /\ tokens' = tokens - 1
    /\ UNCHANGED <<mode, waiting>>

Enqueue ==
    /\ mode = "live" /\ tokens = 0
    /\ Len(waiting') = Len(waiting) + 1
    /\ IsPrefix(waiting, waiting')
    /\ UNCHANGED <<mode, tokens>>

(* A signal goes to the first process waiting, else it is kept. *)
Give ==
    /\ mode = "live"
    /\ IF waiting = <<>>
       THEN tokens' = tokens + 1 /\ UNCHANGED waiting
       ELSE waiting' = Tail(waiting) /\ UNCHANGED tokens
    /\ UNCHANGED mode

(* A process that is killed stops waiting and takes no token with it. *)
Abandon ==
    /\ mode = "live"
    /\ \E i \in DOMAIN waiting : waiting' = RemoveAt(waiting, i)
    /\ UNCHANGED <<mode, tokens>>

StartReset ==
    /\ mode = "live"
    /\ mode' = "reset"
    /\ UNCHANGED <<tokens, waiting>>

EndReset ==
    /\ mode = "reset" /\ waiting = <<>>
    /\ mode' = "live"
    /\ tokens' \in Nat
    /\ UNCHANGED waiting

Delete ==
    /\ mode = "live"
    /\ mode' = "none"
    /\ tokens' = 0
    /\ UNCHANGED waiting

(* Waiters released because the semaphore is being reset or is gone. *)
LetGo ==
    /\ mode # "live" /\ waiting # <<>>
    /\ waiting' = Tail(waiting)
    /\ UNCHANGED <<mode, tokens>>

AbsNext ==
    \/ Make \/ Take \/ Enqueue \/ Give \/ Abandon
    \/ StartReset \/ EndReset \/ Delete \/ LetGo

AbsSpec == AbsInit /\ [][AbsNext]_absVars
=============================================================================
