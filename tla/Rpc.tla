-------------------------------- MODULE Rpc --------------------------------
(***************************************************************************)
(* A call from the CALL handler of a server to the result it gets back:    *)
(* two queues of the redis broker (module RedisQueue), one for the calls   *)
(* of a URI and one for the results of a connection, and between them the  *)
(* callees.  A callee has a calls connection and a number of workers that  *)
(* receive from its one channel and run InvokeAndStoreResult               *)
(* (callee/callee.go): one worker is the loop of Callee.Listen, several    *)
(* are the loops of cmd/juggler-callee.  The queues share the clock and    *)
(* the items: a result has the message UUID of its call.                   *)
(***************************************************************************)
EXTENDS Integers, Sequences, FiniteSets

CONSTANTS
    Items,         \* calls, all of one URI and one client connection
    Callees,       \* calls connections, one per callee
    Workers,       \* the workers of each calls connection
    Server,        \* the results connection of the server
    Timeouts,      \* timeouts of the calls, in ticks
    CallCaps,      \* capacities of the queue of calls
    ResultCaps,    \* capacities of the queue of results
    Ms, DefaultMs, MaxTime, None

ASSUME TimeoutsAssumption == Timeouts \subseteq Int
ASSUME CapsAssumption == CallCaps \subseteq Nat /\ ResultCaps \subseteq Nat
ASSUME TimeAssumption == Ms \in Nat \ {0} /\ DefaultMs \in Nat \ {0} /\ MaxTime \in Nat
ASSUME NoneAssumption == None \notin Callees \cup {Server} \cup Items

\* The goroutines that run calls: every connection has as many.
Loops == Callees \X Workers

VARIABLES
    now,
    \* the queue of calls
    cList, cKeys, cExpiry, cDue, cReply, cOpen, cBlocked, cPoll,
    cWork, cOwner, cLeft, cDelivered,
    \* the queue of results
    rList, rKeys, rExpiry, rDue, rReply, rOpen, rBlocked, rPoll,
    rWork, rOwner, rLeft, rDelivered,
    \* the callees
    serving,   \* the call each worker runs, or None
    start,     \* when InvokeAndStoreResult was entered for each call, in ticks
    returned,  \* when its thunk had returned and the time was checked, in ticks
    outcome,   \* what became of each call at its callee
    readAt,    \* when the TTL of each call was read, in ticks (history)
    storedAt   \* when the result was registered, or failed to be (history)

C == INSTANCE RedisQueue WITH
        Conns <- Callees, Caps <- CallCaps,
        list <- cList, keys <- cKeys, expiry <- cExpiry, due <- cDue, reply <- cReply,
        open <- cOpen, blocked <- cBlocked, poll <- cPoll, work <- cWork, owner <- cOwner,
        left <- cLeft, delivered <- cDelivered

R == INSTANCE RedisQueue WITH
        Conns <- {Server}, Caps <- ResultCaps, Timeouts <- Int,
        list <- rList, keys <- rKeys, expiry <- rExpiry, due <- rDue, reply <- rReply,
        open <- rOpen, blocked <- rBlocked, poll <- rPoll, work <- rWork, owner <- rOwner,
        left <- rLeft, delivered <- rDelivered

callVars == <<cList, cKeys, cExpiry, cDue, cReply, cOpen, cBlocked, cPoll,
              cWork, cOwner, cLeft, cDelivered>>
resultVars == <<rList, rKeys, rExpiry, rDue, rReply, rOpen, rBlocked, rPoll,
                rWork, rOwner, rLeft, rDelivered>>
calleeVars == <<serving, start, returned, outcome, readAt, storedAt>>
vars == <<now, callVars, resultVars, calleeVars>>

TypeOK ==
    /\ C!TypeOK
    /\ R!TypeOK
    /\ serving \in [Loops -> Items \cup {None}]
    /\ start \in [Items -> 0..MaxTime]
    /\ returned \in [Items -> 0..MaxTime]
    /\ outcome \in [Items -> {"none", "running", "storing", "stored", "failed", "expired"}]
    /\ readAt \in [Items -> 0..MaxTime]
    /\ storedAt \in [Items -> 0..MaxTime]

Init ==
    /\ C!Init
    /\ R!Init
    /\ serving = [g \in Loops |-> None]
    /\ start = [i \in Items |-> 0]
    /\ returned = [i \in Items |-> 0]
    /\ outcome = [i \in Items |-> "none"]
    /\ readAt = [i \in Items |-> 0]
    /\ storedAt = [i \in Items |-> 0]

-----------------------------------------------------------------------------

\* The CALL handler of the server registers a call: ProcessMsg.
Call(i) == C!Caller(i) /\ UNCHANGED <<resultVars, calleeVars>>

\* A callee's connection: pollCalls, and sendCall up to its send.
PollCalls(k) ==
    /\ C!Poller(k) \/ C!PopLost(k) \/ C!Close(k)
    /\ UNCHANGED <<resultVars, calleeVars>>

SendCall(i) ==
    /\ C!ReadTTL(i) \/ C!ReadTTLFails(i)
    /\ readAt' = [readAt EXCEPT ![i] = now]
    /\ UNCHANGED <<resultVars, serving, start, returned, outcome, storedAt>>

\* Mutant of Invoke: the worker receives the next call while it runs one.
Invoke_Overlaps(i, w) ==
    LET g == <<cOwner[i], w>>
    IN  /\ C!Deliver(i)
        /\ serving' = [serving EXCEPT ![g] = i]
        /\ start' = [start EXCEPT ![i] = now]
        /\ outcome' = [outcome EXCEPT ![i] = "running"]
        /\ UNCHANGED <<resultVars, returned, readAt, storedAt>>

\* A worker of the connection that popped the call receives it when it is
\* through with the one before, and InvokeAndStoreResult starts the thunk.
Invoke(i, w) ==
    LET g == <<cOwner[i], w>>
    IN  /\ C!Deliver(i)
        /\ serving[g] = None
        /\ serving' = [serving EXCEPT ![g] = i]
        /\ start' = [start EXCEPT ![i] = now]
        /\ outcome' = [outcome EXCEPT ![i] = "running"]
        /\ UNCHANGED <<resultVars, returned, readAt, storedAt>>

\* Mutant of Remain: the time the thunk took is not subtracted.
Remain_IgnoresRun(i, t) == cLeft[i] * Ms

\* ttl - time.Now().Sub(start), in ticks, for a time t of the clock.
Remain(i, t) == cLeft[i] * Ms - (t - start[i])

\* The thunk returns with time left: InvokeAndStoreResult goes on to store the
\* result, with the time that remains now.
ThunkReturns(g) ==
    LET i == serving[g]
    IN  /\ i # None
        /\ outcome[i] = "running"
        /\ Remain(i, now) > 0
        /\ outcome' = [outcome EXCEPT ![i] = "storing"]
        /\ returned' = [returned EXCEPT ![i] = now]
        /\ UNCHANGED <<now, callVars, resultVars, serving, start, readAt, storedAt>>

\* The thunk returns with no time left, ErrCallExpired: the result is dropped.
CallExpired(g) ==
    LET i == serving[g]
    IN  /\ i # None
        /\ outcome[i] = "running"
        /\ Remain(i, now) <= 0
        /\ outcome' = [outcome EXCEPT ![i] = "expired"]
        /\ serving' = [serving EXCEPT ![g] = None]
        /\ UNCHANGED <<now, callVars, resultVars, start, returned, readAt, storedAt>>

\* Mutant of StoreResult: the worker waits until the result can be stored.
StoreResult_Waits(g) ==
    LET i == serving[g]
    IN  /\ i # None
        /\ outcome[i] = "storing"
        /\ \/ \E cap \in ResultCaps : R!Register(i, Remain(i, returned[i]), cap)
           \/ R!RegisterFails(i)
        /\ outcome' = [outcome EXCEPT ![i] = IF rReply'[i] = "ok" THEN "stored" ELSE @]
        /\ serving' = [serving EXCEPT ![g] = IF rReply'[i] = "ok" THEN None ELSE @]
        /\ storedAt' = [storedAt EXCEPT ![i] = now]
        /\ UNCHANGED <<callVars, start, returned, readAt>>

\* storeResult encodes the result, gets a connection and registers it, with
\* the time that remained when the thunk had returned.  The worker goes on
\* also after an error.
StoreResult(g) ==
    LET i == serving[g]
    IN  /\ i # None
        /\ outcome[i] = "storing"
        /\ \/ \E cap \in ResultCaps :
                \/ R!Register(i, Remain(i, returned[i]), cap)
                \/ R!RegisterNoReply(i, Remain(i, returned[i]), cap)
           \/ R!RegisterFails(i)
        /\ outcome' = [outcome EXCEPT ![i] = IF rReply'[i] = "ok" THEN "stored" ELSE "failed"]
        /\ serving' = [serving EXCEPT ![g] = None]
        /\ storedAt' = [storedAt EXCEPT ![i] = now]
        /\ UNCHANGED <<callVars, start, returned, readAt>>

\* The loop of a worker over the calls of its connection.
Worker(g) ==
    \/ \E i \in Items : cOwner[i] = g[1] /\ Invoke(i, g[2])
    \/ ThunkReturns(g)
    \/ CallExpired(g)
    \/ StoreResult(g)

\* The results connection of the server, and the loop of Conn.results.
PollResults ==
    /\ R!Poller(Server) \/ R!PopLost(Server) \/ R!Close(Server)
    /\ UNCHANGED <<callVars, calleeVars>>

SendResult(i) == R!Sender(i) /\ UNCHANGED <<callVars, calleeVars>>

Tick ==
    /\ C!Tick
    /\ R!Tick
    /\ UNCHANGED calleeVars

Next ==
    \/ \E i \in Items : Call(i) \/ SendCall(i) \/ SendResult(i)
    \/ \E k \in Callees : PollCalls(k)
    \/ \E g \in Loops : Worker(g)
    \/ PollResults
    \/ Tick

Safety == Init /\ [][Next]_vars

\* Goroutines run, redis answers and thunks return.  A send on a channel that
\* a callee receives from again and again is not passed over: the senders of
\* a channel queue up.
Fairness ==
    /\ \A i \in Items :
        /\ WF_vars(SendCall(i))
        /\ SF_vars(\E w \in Workers : Invoke(i, w))
        /\ WF_vars(SendResult(i))
    /\ \A k \in Callees :
        /\ WF_vars(C!Pop(k) /\ PollCalls(k))
        /\ WF_vars(((~cOpen[k] /\ C!PollFails(k)) \/ C!CloseChannel(k)) /\ PollCalls(k))
    /\ \A g \in Loops :
        /\ WF_vars(ThunkReturns(g) \/ CallExpired(g))
        /\ WF_vars(StoreResult(g))
    /\ WF_vars(R!Pop(Server) /\ PollResults)
    /\ WF_vars(((~rOpen[Server] /\ R!PollFails(Server)) \/ R!CloseChannel(Server)) /\ PollResults)

Spec == Safety /\ Fairness

-----------------------------------------------------------------------------
(* Properties.                                                             *)

\* A result comes back only for a call that a callee ran, and one result at
\* most: no reply that was lost, no connection that failed and no second
\* callee makes a call run twice or answers it twice.
OneResultPerCall ==
    /\ \A i \in Items : (\E n \in 1..Len(rDelivered) : rDelivered[n] = i) =>
            \E m \in 1..Len(cDelivered) : cDelivered[m] = i
    /\ C!NoDup(cDelivered)
    /\ C!NoDup(rDelivered)

\* A call the server refuses with a NACK because its queue is full is never
\* run: the client may safely make the call again.
NackedNotRun ==
    \A i \in Items : cReply[i] = "full" => outcome[i] = "none" /\ rReply[i] = "none"

\* The workers share one channel and each call is run by one of them, from its
\* receive to its end: no two workers have the same call, none has a call that
\* is over, none puts a call aside, and no result is stored before the end.
OneWorker ==
    /\ \A g \in Loops : serving[g] # None => outcome[serving[g]] \in {"running", "storing"}
    /\ \A g, h \in Loops : serving[g] = serving[h] /\ serving[g] # None => g = h
    /\ \A i \in Items : outcome[i] \in {"running", "storing"} => \E g \in Loops : serving[g] = i
    /\ \A i \in Items : outcome[i] \in {"none", "running", "storing"} => rReply[i] = "none"

\* How long a call was blocked on the channel of the calls connection, between
\* the read of its TTL and its receive: the TTL does not account for it.
Waited(i) == start[i] - readAt[i]

\* How long a result was on its way, at time t, from the check of the time that
\* remains to the script that registers it: the check does not account for it.
StoringFor(i, t) == t - returned[i]

\* A callee that stores a result after the timeout of the call is late by no
\* more than the time the call was blocked on the channel, the time it took to
\* store the result, and the millisecond to which the TTL is rounded.  How
\* long the thunk runs makes no result late.
StoredLateOnlyByWait ==
    [][\A i \in Items : rReply[i] = "none" /\ rReply'[i] # "none" =>
        now < cDue[i] + Ms + Waited(i) + StoringFor(i, now)]_vars

\* What the key of a result may live on after the time that remained: nothing,
\* but when this was under a millisecond the default timeout is put for it.
Default(i) == IF Remain(i, returned[i]) < Ms THEN DefaultMs * Ms ELSE 0

\* The same bound holds when the server reads the result, whatever time it
\* spent in the queue of results, but for a result that was stored with less
\* than a millisecond left, which can be read for the default timeout more.
AnsweredLateOnlyByWait ==
    [][\A i \in Items : rWork[i] = "popped" /\ rWork'[i] = "ready" =>
        now < cDue[i] + Ms + Waited(i) + StoringFor(i, storedAt[i]) + Default(i)]_vars

\* Where a call that was accepted can end: with a result that the server has
\* received, or at one of the places where it is given up.
Settled(i) ==
    \/ cWork[i] \in {"expired", "failed", "lost"}
    \/ outcome[i] \in {"failed", "expired"}
    \/ rWork[i] \in {"sent", "expired", "failed", "lost"}

\* A call that was accepted does not get stuck on the way through the two
\* queues and the callee, whatever other calls do, while a callee and the
\* server poll the queues.
CallsSettle ==
    \A i \in Items, k \in Callees :
        cReply[i] = "ok" ~> \/ Settled(i)
                            \/ ~(cOpen[k] /\ cPoll[k] = "polling")
                            \/ ~(rOpen[Server] /\ rPoll[Server] = "polling")

\* Once a connection is closed the channel of its calls or results is closed
\* too, and the loop of Listen or of Conn.results over it ends: the send
\* goroutines that are left are served first, also while a call is running.
StreamsEnd ==
    /\ \A k \in Callees : (~cOpen[k] /\ cPoll[k] # "new") ~> (cPoll[k] = "closed")
    /\ (~rOpen[Server] /\ rPoll[Server] # "new") ~> (rPoll[Server] = "closed")

-----------------------------------------------------------------------------
(* The abstract specification.                                             *)

\* Has a callee run the call?
run == [i \in Items |->
          CASE outcome[i] = "none" -> "no"
            [] outcome[i] \in {"running", "storing"} -> "running"
            [] OTHER -> "done"]

\* Where the result is.  After an error it may or may not be on the list.
result == [i \in Items |->
             CASE rReply[i] \in {"none", "full"} -> "none"
               [] rReply[i] \in {"ok", "error"} /\ rWork[i] \in {"none", "popped", "ready"} -> "pending"
               [] rReply[i] \in {"ok", "error"} /\ rWork[i] = "sent" -> "received"
               [] OTHER -> "lost"]

Promise == INSTANCE RpcPromise WITH answer <- cReply

\* Through two queues, any number of callees with any number of workers, lost
\* replies, failed connections and full lists, each call by itself is told
\* what became of it once, run at most once and not if it was refused, and
\* its result comes from that run and is received at most once.
ImplementsRpc == Promise!Spec

-----------------------------------------------------------------------------
(* What the documentation says, and the code does not do.                  *)

\* The comment of InvokeAndStoreResult: "If the call timeout is exceeded, the
\* result is dropped".  The time is that of the check, before the result is
\* stored.
NoLateResult ==
    [][\A i \in Items : outcome[i] = "running" /\ outcome'[i] = "storing" =>
        now < cDue[i] + Ms]_vars

=============================================================================
