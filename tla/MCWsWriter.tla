----------------------------- MODULE MCWsWriter -----------------------------
(***************************************************************************)
(* An instance of WsWriter for TLC: three goroutines, as many as a server  *)
(* connection has (receive, results and pubSub), some with a lock timeout. *)
(***************************************************************************)
EXTENDS WsWriter
=============================================================================
