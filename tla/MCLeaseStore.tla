---------------------------- MODULE MCLeaseStore ----------------------------
(***************************************************************************)
(* LeaseStore with two processes: all interleavings of two holders of the  *)
(* same owner name, a clock that moves both ways, crashes and lost replies.*)
(***************************************************************************)
EXTENDS LeaseStore
=============================================================================
