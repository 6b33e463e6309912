--------------------------- MODULE MCSupervisor -----------------------------
(***************************************************************************)
(* Supervisor with two tasks: the plans of its runs.  Each run takes the   *)
(* plan, the failures and the number of controllers its question needs.    *)
(***************************************************************************)
EXTENDS Supervisor, TLC

T(deps, root, write, retry) == [deps |-> deps, root |-> root, write |-> write, retry |-> retry]

\* The second task needs the first one and follows it in the same worktree.
Chain == <<T({}, "r1", TRUE, 1), T({1}, "r1", TRUE, 0)>>

\* Two independent tasks have one worktree; the first one only reads it.
Shared == <<T({}, "r1", FALSE, 0), T({}, "r1", TRUE, 0)>>

\* A replan turns the dependency round, or drops the second task.
Turned == <<T({2}, "r1", TRUE, 1), T({}, "r1", TRUE, 0)>>
Single == <<T({}, "r1", TRUE, 1)>>

ChainPlan == {Chain}
SharedPlan == {Shared}
ChainReplans == {Turned, Single}
NoPlan == {}

\* Controllers are interchangeable in the safety runs.
Interchangeable == Permutations(Controller)
=============================================================================
