------------------------------- MODULE MCLoad -------------------------------
(* Instances of Load for TLC. *)
EXTENDS Load
=============================================================================
