--------------------------- MODULE MessageStream ---------------------------
(***************************************************************************)
(* What Conn.Writer promises of the messages on a connection (conn.go, the *)
(* comment of Writer): "Only one writer can be active at any moment".  The *)
(* connection carries one message after the other.  Each has one writer,   *)
(* from its beginning to its end, and stays within the write limit.  No    *)
(* lock, timeout or failure appears here; module WsWriter is shown to      *)
(* implement it.                                                           *)
(***************************************************************************)
EXTENDS Naturals

CONSTANTS Writers, Limit, None

VARIABLES
    current,  \* the writer of the message on the connection, or None
    size      \* the bytes of that message

vars == <<current, size>>

WithinLimit(n) == n \in Nat /\ (Limit > 0 => n <= Limit)

Init ==
    /\ current = None
    /\ size = 0

\* A message begins only when there is none.
Begin(w) ==
    /\ current = None
    /\ current' = w
    /\ WithinLimit(size')

Extend(w) ==
    /\ current = w
    /\ WithinLimit(size')
    /\ size' > size
    /\ UNCHANGED current

End(w) ==
    /\ current = w
    /\ current' = None
    /\ size' = 0

Next == \E w \in Writers : Begin(w) \/ Extend(w) \/ End(w)

Spec == Init /\ [][Next]_vars

=============================================================================
