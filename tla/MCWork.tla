------------------------------- MODULE MCWork -------------------------------
(* The views of how one task is worked at, on small instances. *)
EXTENDS Work

CONSTANTS x1, q1

MCTarget == [c \in Reply |-> x1]
MCDesired == <<"in_progress", "in_review", "blocked">>
MCHome == [t \in Task |-> q1]
=============================================================================
