----------------------------- MODULE MCMessages -----------------------------
(* Instances of Messages for TLC. *)
EXTENDS Messages

\* No restriction, and lists of types with and without words that name none.
SomeHeaders == {{}, {"*"}, {"*", "sub"}, {"call", "other"}, {"call", "pub", "unsb"}}

\* A list that names no type at all.
UnknownHeaders == {{"other"}}

=============================================================================
