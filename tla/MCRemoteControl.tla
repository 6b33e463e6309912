-------------------------- MODULE MCRemoteControl ---------------------------
(***************************************************************************)
(* RemoteControl for TLC.  Which thread serves a request makes no          *)
(* difference, so threads are interchangeable.                             *)
(***************************************************************************)
EXTENDS RemoteControl, TLC

Interchangeable == Permutations(Thread)
=============================================================================
