------------------------------ MODULE MCClient ------------------------------
(***************************************************************************)
(* Instances of Client for TLC: a call, with a request of another kind and *)
(* two goroutines that call Close.                                         *)
(***************************************************************************)
EXTENDS Client
=============================================================================
