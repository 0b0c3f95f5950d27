----------------------------- MODULE CallPromise -----------------------------
(***************************************************************************)
(* What the client package promises of a call (client/client.go, package   *)
(* comment): once issued it is resolved by one RES or one EXP and never by *)
(* both, unless a NACK cancels it, and it does not stay open forever while *)
(* the client is running.  No goroutine, map, message or connection        *)
(* appears here; module Client is shown to implement it.                   *)
(***************************************************************************)
CONSTANT Calls

VARIABLES
    phase,   \* where each call stands
    closed   \* has the client stopped?

vars == <<phase, closed>>

Init ==
    /\ phase = [c \in Calls |-> "new"]
    /\ closed = FALSE

Issue(c) ==
    /\ phase[c] = "new"
    /\ phase' = [phase EXCEPT ![c] = "open"]
    /\ UNCHANGED closed

Resolve(c) ==
    /\ phase[c] = "open"
    /\ \E o \in {"res", "exp"} : phase' = [phase EXCEPT ![c] = o]
    /\ UNCHANGED closed

Cancel(c) ==
    /\ phase[c] = "open"
    /\ phase' = [phase EXCEPT ![c] = "cancelled"]
    /\ UNCHANGED closed

Close ==
    /\ ~closed
    /\ closed' = TRUE
    /\ UNCHANGED phase

Next ==
    \/ \E c \in Calls : Issue(c) \/ Resolve(c) \/ Cancel(c)
    \/ Close

Safety == Init /\ [][Next]_vars

Ends(c) == ~closed /\ (Resolve(c) \/ Cancel(c))

Spec == Safety /\ \A c \in Calls : WF_vars(Ends(c))

=============================================================================
