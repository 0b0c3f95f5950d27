------------------------------- MODULE MCConn -------------------------------
(* Instances of Conn for TLC. *)
EXTENDS Conn

\* What AllowedMessagesFromHeader can return: the request types that the
\* header names.
HeaderSets == SUBSET RequestTypes

=============================================================================
