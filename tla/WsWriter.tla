------------------------------ MODULE WsWriter ------------------------------
(***************************************************************************)
(* The exclusive writer of a websocket connection                          *)
(* (internal/wswriter/wswriter.go), as the writeMsg functions of the       *)
(* server (handler.go) and of the client (client/client.go) and a handler  *)
(* that calls Conn.Writer use it: create a writer, write one or more times,*)
(* stop at the first error, and close the writer once.                     *)
(*                                                                         *)
(* The lock is a channel with one slot: a token in it means that the lock  *)
(* is free.  A websocket connection supports one message writer at a time: *)
(* frame is the writer whose message is being built.                       *)
(***************************************************************************)
EXTENDS Integers

CONSTANTS
    Writers,  \* goroutines that send messages on the connection
    Timed,    \* the ones that use a timeout to acquire the lock
    Sizes,    \* the sizes a single Write can have
    Limit,    \* the write limit, 0 for none
    MaxMsg,   \* bound of the model: bytes of a message that are counted
    None      \* no writer

ASSUME TimedAssumption == Timed \subseteq Writers
ASSUME SizesAssumption == Sizes \subseteq Nat \ {0}
ASSUME LimitAssumption == Limit \in Nat /\ MaxMsg \in Nat
ASSUME NoneAssumption == None \notin Writers

VARIABLES
    pc,      \* where each goroutine stands
    init,    \* w.init: the writer has taken the lock
    nw,      \* w.w # nil: the writer has a websocket message to close
    left,    \* n of the limitedWriter
    pend,    \* the size of the Write that waits for the lock
    token,   \* is there a token in the lock channel?
    frame,   \* the writer of the current websocket message, or None
    msg      \* bytes of each writer's message (history)

vars == <<pc, init, nw, left, pend, token, frame, msg>>

TypeOK ==
    /\ pc \in [Writers -> {"idle", "ready", "waiting", "erred", "closing"}]
    /\ init \in [Writers -> BOOLEAN]
    /\ nw \in [Writers -> BOOLEAN]
    /\ left \in [Writers -> Int]
    /\ pend \in [Writers -> Nat]
    /\ token \in BOOLEAN
    /\ frame \in Writers \cup {None}
    /\ msg \in [Writers -> Nat]

Init ==
    /\ pc = [w \in Writers |-> "idle"]
    /\ init = [w \in Writers |-> FALSE]
    /\ nw = [w \in Writers |-> FALSE]
    /\ left = [w \in Writers |-> Limit]
    /\ pend = [w \in Writers |-> 0]
    /\ token = TRUE
    /\ frame = None
    /\ msg = [w \in Writers |-> 0]

\* Exclusive, wrapped in Limit: a new message.
Exclusive(w) ==
    /\ pc[w] = "idle"
    /\ pc' = [pc EXCEPT ![w] = "ready"]
    /\ init' = [init EXCEPT ![w] = FALSE]
    /\ nw' = [nw EXCEPT ![w] = FALSE]
    /\ left' = [left EXCEPT ![w] = Limit]
    /\ msg' = [msg EXCEPT ![w] = 0]
    /\ UNCHANGED <<pend, token, frame>>

\* limitedWriter.Write counts the bytes down first, and passes the Write on
\* only within the limit.
WithinLimit(w, n) == Limit > 0 => left[w] >= n

\* Mutant of CountDown: the limit is tested against each Write alone.
CountDown_Not(w, n) == n > 0 /\ w \in Writers /\ UNCHANGED left

CountDown(w, n) == left' = [left EXCEPT ![w] = IF Limit > 0 THEN @ - n ELSE @]

WriteRefused(w, n) ==
    /\ pc[w] = "ready"
    /\ ~WithinLimit(w, n)
    /\ CountDown(w, n)
    /\ pc' = [pc EXCEPT ![w] = "erred"]
    /\ UNCHANGED <<init, nw, pend, token, frame, msg>>

\* The first Write waits for the lock.
FirstWrite(w, n) ==
    /\ pc[w] = "ready"
    /\ WithinLimit(w, n)
    /\ ~init[w]
    /\ CountDown(w, n)
    /\ pend' = [pend EXCEPT ![w] = n]
    /\ pc' = [pc EXCEPT ![w] = "waiting"]
    /\ UNCHANGED <<init, nw, token, frame, msg>>

\* Mutant of LockTimeout: the writer starts its message without the lock.
LockTimeout_Proceeds(w) ==
    /\ pc[w] = "waiting"
    /\ w \in Timed
    /\ pc' = [pc EXCEPT ![w] = "ready"]
    /\ nw' = [nw EXCEPT ![w] = TRUE]
    /\ frame' = w
    /\ UNCHANGED <<init, left, pend, token, msg>>

\* ErrWriteLockTimeout
LockTimeout(w) ==
    /\ pc[w] = "waiting"
    /\ w \in Timed
    /\ pc' = [pc EXCEPT ![w] = "erred"]
    /\ UNCHANGED <<init, nw, left, pend, token, frame, msg>>

\* Mutant of Acquire: the token is looked at and not taken.
Acquire_Peeks(w) ==
    /\ pc[w] = "waiting"
    /\ token
    /\ init' = [init EXCEPT ![w] = TRUE]
    /\ nw' = [nw EXCEPT ![w] = TRUE]
    /\ frame' = w
    /\ pc' = [pc EXCEPT ![w] = "ready"]
    /\ msg' = [msg EXCEPT ![w] = pend[w]]
    /\ UNCHANGED <<left, pend, token>>

\* The token is received and NextWriter succeeds.  Starting a message ends
\* whatever message the connection was building.
Acquire(w) ==
    /\ pc[w] = "waiting"
    /\ token
    /\ token' = FALSE
    /\ init' = [init EXCEPT ![w] = TRUE]
    /\ nw' = [nw EXCEPT ![w] = TRUE]
    /\ frame' = w
    /\ \/ /\ pc' = [pc EXCEPT ![w] = "ready"]
          /\ msg' = [msg EXCEPT ![w] = pend[w]]
       \/ /\ pc' = [pc EXCEPT ![w] = "erred"]
          /\ UNCHANGED msg
    /\ UNCHANGED <<left, pend>>

\* The token is received and NextWriter fails: the writer has the lock but no
\* message to close.
AcquireFails(w) ==
    /\ pc[w] = "waiting"
    /\ token
    /\ token' = FALSE
    /\ init' = [init EXCEPT ![w] = TRUE]
    /\ pc' = [pc EXCEPT ![w] = "erred"]
    /\ UNCHANGED <<nw, left, pend, frame, msg>>

\* A later Write of the same message.
Write(w, n) ==
    /\ pc[w] = "ready"
    /\ WithinLimit(w, n)
    /\ init[w]
    /\ msg[w] + n <= MaxMsg
    /\ CountDown(w, n)
    /\ \/ /\ msg' = [msg EXCEPT ![w] = @ + n]
          /\ UNCHANGED pc
       \/ /\ pc' = [pc EXCEPT ![w] = "erred"]
          /\ UNCHANGED msg
    /\ UNCHANGED <<init, nw, pend, token, frame>>

\* Close of a writer that never took the lock.
CloseNoop(w) ==
    /\ pc[w] \in {"ready", "erred"}
    /\ ~init[w]
    /\ pc' = [pc EXCEPT ![w] = "idle"]
    /\ UNCHANGED <<init, nw, left, pend, token, frame, msg>>

\* Mutant of CloseMessage: without a message to close it returns early, and
\* the lock is not released.
CloseMessage_EarlyReturn(w) ==
    /\ pc[w] \in {"ready", "erred"}
    /\ init[w]
    /\ pc' = [pc EXCEPT ![w] = IF nw[w] THEN "closing" ELSE "idle"]
    /\ frame' = IF nw[w] THEN None ELSE frame
    /\ UNCHANGED <<init, nw, left, pend, token, msg>>

\* Close ends the websocket message, if there is one...
CloseMessage(w) ==
    /\ pc[w] \in {"ready", "erred"}
    /\ init[w]
    /\ pc' = [pc EXCEPT ![w] = "closing"]
    /\ frame' = IF nw[w] THEN None ELSE frame
    /\ UNCHANGED <<init, nw, left, pend, token, msg>>

\* ...and then releases the lock; the send blocks while the slot is taken.
Release(w) ==
    /\ pc[w] = "closing"
    /\ ~token
    /\ token' = TRUE
    /\ pc' = [pc EXCEPT ![w] = "idle"]
    /\ UNCHANGED <<init, nw, left, pend, frame, msg>>

-----------------------------------------------------------------------------
Step(w) ==
    \/ Exclusive(w)
    \/ \E n \in Sizes : WriteRefused(w, n) \/ FirstWrite(w, n) \/ Write(w, n)
    \/ LockTimeout(w)
    \/ Acquire(w)
    \/ AcquireFails(w)
    \/ CloseNoop(w)
    \/ CloseMessage(w)
    \/ Release(w)

Next == \E w \in Writers : Step(w)

Safety == Init /\ [][Next]_vars

\* writeMsg defers Close, so a writer is closed; and a channel serves the
\* goroutines that wait for a token in the order in which they came.
Fairness ==
    \A w \in Writers :
        /\ WF_vars(CloseNoop(w) \/ CloseMessage(w))
        /\ WF_vars(Release(w))
        /\ SF_vars(Acquire(w) \/ AcquireFails(w))

Spec == Safety /\ Fairness

-----------------------------------------------------------------------------
(* Properties.                                                             *)

\* The goroutine is between the receive of the token and its release.
Holds(w) == init[w] /\ pc[w] \in {"ready", "erred", "closing"}

\* The comment of Conn.Writer: "Only one writer can be active at any moment
\* for a given connection" - on every path, also when NextWriter or a Write
\* fails, and when another goroutine gives up waiting.
OneWriter == \A v, w \in Writers : Holds(v) /\ Holds(w) => v = w

\* The token is never lost or doubled: it is in the channel exactly when no
\* goroutine holds the lock.  So a lock timeout or an error never leaves the
\* connection locked for good, and the send in Close never blocks.
TokenConserved == token <=> ~\E w \in Writers : Holds(w)

\* A message that was started and not closed is still the one the connection
\* is building: no other goroutine's NextWriter has cut it short.
MessageIntact ==
    \A w \in Writers : nw[w] /\ Holds(w) /\ pc[w] # "closing" => frame = w

\* No message exceeds the write limit, however many Writes it is made of.
LimitRespected == Limit > 0 => \A w \in Writers : msg[w] <= Limit

\* The inductive invariant of the proofs: a writer has a message only with the
\* lock, the message on the connection is that of a goroutine that holds the
\* lock, a waiting writer does not have the lock, and what the limited writer
\* counted down covers the bytes written and the Write that waits.
IInv ==
    /\ TypeOK
    /\ OneWriter
    /\ TokenConserved
    /\ MessageIntact
    /\ \A w \in Writers :
          /\ pc[w] = "waiting" => ~init[w] /\ msg[w] = 0
          /\ pc[w] = "closing" => init[w]
          /\ pc[w] \in {"ready", "waiting"} /\ ~init[w] => ~nw[w]
          /\ pc[w] = "ready" /\ ~init[w] => msg[w] = 0
          /\ frame = w => nw[w] /\ Holds(w) /\ pc[w] # "closing"
          /\ Limit > 0 /\ pc[w] = "waiting" => pend[w] + left[w] <= Limit /\ left[w] >= 0
          /\ Limit > 0 /\ pc[w] = "ready" => msg[w] + left[w] <= Limit /\ left[w] >= 0
    /\ LimitRespected

\* A goroutine that waits for the lock gets it or gives up: nobody keeps the
\* lock and nobody is passed over forever.
NobodyWaitsForever == \A w \in Writers : pc[w] = "waiting" ~> pc[w] # "waiting"

-----------------------------------------------------------------------------
(* The abstract specification.                                             *)

Stream == INSTANCE MessageStream WITH
            current <- frame, size <- IF frame = None THEN 0 ELSE msg[frame]

\* The connection carries whole messages, one after the other, each of one
\* goroutine and within the limit: on every path through the lock, a message
\* is begun only when the one before it has been closed.
ImplementsStream == Stream!Spec

=============================================================================
