--------------------------- MODULE MCIntegration -----------------------------
(***************************************************************************)
(* Integration for TLC: two requests, of which one is approved by a user   *)
(* of the task provider.                                                   *)
(***************************************************************************)
EXTENDS Integration
=============================================================================
