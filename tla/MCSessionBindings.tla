------------------------- MODULE MCSessionBindings -------------------------
(* Two sessions, two requirements, and both tasks in the first of them, so  *)
(* that one session can move from one task to the other while the other    *)
(* session attaches itself.                                                 *)
EXTENDS SessionBindings, TLC

CONSTANTS s1, s2, t1, t2, q1, q2

MCHome == t1 :> q1 @@ t2 :> q1
=============================================================================
