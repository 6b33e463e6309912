----------------------------- MODULE MCDelivery -----------------------------
(* The three views of the way of a requirement to its end, on small instances. *)
EXTENDS Delivery, TLC

CONSTANTS q1, q2

MCTree == <<"a", "a", "b">>
MCRequirement == {q1, q2}
\* Sessions, commands and controllers differ in nothing but their names.
MCSymmetry == Permutations(Session) \cup Permutations(Command) \cup Permutations(Controller)
MCAuthorised == {<<q1, 1>>, <<q2, 1>>}
=============================================================================
