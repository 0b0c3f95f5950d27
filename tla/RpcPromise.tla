----------------------------- MODULE RpcPromise -----------------------------
(***************************************************************************)
(* What the broker and the callees promise of a call: the server is told   *)
(* once what became of its registration; the call is run at most once, and *)
(* never if the server was told that the queue is full; a result comes     *)
(* from the worker that ran the call, and is received at most once.  The   *)
(* calls do not influence each other.  No queue, timeout or goroutine      *)
(* appears here; module Rpc is shown to implement it.                      *)
(***************************************************************************)
CONSTANT Items  \* calls

VARIABLES
    answer,  \* what Call returned to the server
    run,     \* has a callee run the call?
    result   \* where the result of the call is

vars == <<answer, run, result>>

Init ==
    /\ answer = [i \in Items |-> "none"]
    /\ run = [i \in Items |-> "no"]
    /\ result = [i \in Items |-> "none"]

Answer(i) ==
    /\ answer[i] = "none"
    /\ \E a \in {"ok", "full", "error"} : answer' = [answer EXCEPT ![i] = a]
    /\ UNCHANGED <<run, result>>

\* An error leaves open whether the call was registered.
Run(i) ==
    /\ answer[i] \in {"ok", "error"}
    /\ run[i] = "no"
    /\ run' = [run EXCEPT ![i] = "running"]
    /\ UNCHANGED <<answer, result>>

\* The worker stores a result, or none.
Finish(i) ==
    /\ run[i] = "running"
    /\ run' = [run EXCEPT ![i] = "done"]
    /\ \/ UNCHANGED result
       \/ result[i] = "none" /\ result' = [result EXCEPT ![i] = "pending"]
    /\ UNCHANGED answer

\* The server receives the result, or it is lost on the way.
Receive(i) ==
    /\ result[i] = "pending"
    /\ \E r \in {"received", "lost"} : result' = [result EXCEPT ![i] = r]
    /\ UNCHANGED <<answer, run>>

Next == \E i \in Items : Answer(i) \/ Run(i) \/ Finish(i) \/ Receive(i)

Spec == Init /\ [][Next]_vars

=============================================================================
