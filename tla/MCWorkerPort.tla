---------------------------- MODULE MCWorkerPort -----------------------------
(***************************************************************************)
(* WorkerPort for TLC: two attempts in one worktree.  Bounds of this       *)
(* instance: once both have been dispatched the epoch is not taken over    *)
(* any more, which reads and changes nothing of the other one, and what    *)
(* has been cancelled for certain is not cancelled again.                  *)
(***************************************************************************)
EXTENDS WorkerPort, FiniteSets

OneDispatched == Cardinality({a \in Attempt : ledger[a].state # "none"}) <= 1

CancelledAgain ==
    call.pc = "idle" /\ call'.pc = "shut" /\ ledger[call'.attempt].state = "cancelled"

MCNext == Next /\ (epoch' # epoch \/ CancelledAgain => OneDispatched)

MCSpec == Init /\ [][MCNext]_vars
=============================================================================
