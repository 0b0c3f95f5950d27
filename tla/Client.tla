------------------------------- MODULE Client -------------------------------
(***************************************************************************)
(* The juggler client (client/client.go): the goroutines that share one    *)
(* websocket connection, the map of pending calls and the error field.     *)
(*                                                                         *)
(*   - a goroutine per request, running Call, Sub, Unsb or Pub;            *)
(*   - the reader, running handleMessages until the connection fails;      *)
(*   - a timer goroutine per registered call, running handleExpiredCall;   *)
(*   - a handler goroutine per message handed to the Handler;              *)
(*   - goroutines running Close.                                           *)
(*                                                                         *)
(* A step of the model is what one goroutine does between two points where *)
(* another one can observe it: a critical section of c.mu, a read or a     *)
(* write of the connection, a select.  Timeouts have no length here: a     *)
(* timer may fire at any moment after it is started, because the answer    *)
(* may take any time.                                                      *)
(*                                                                         *)
(* The server is the environment.  It answers a request that reached it    *)
(* with one ACK or one NACK, and a call with at most one RES, in any order *)
(* and at any time: the results goroutine of the server writes the RES     *)
(* while its receive goroutine is still about to write the ACK, and a NACK *)
(* is sent when the broker reports an error, which does not tell whether   *)
(* the call was registered.  Because any order of sending is possible, the *)
(* messages in flight are a set and not a queue.                           *)
(***************************************************************************)
EXTENDS Naturals

CONSTANTS
    Calls,    \* requests made with Client.Call
    Others,   \* requests made with Client.Sub, Client.Unsb and Client.Pub
    Closers,  \* goroutines that run Client.Close
    OtherMsgs \* the kinds of messages that the server sends about Others

ASSUME DisjointRequests == Calls \cap Others = {}
ASSUME KindsAssumption == OtherMsgs \subseteq {"ACK", "NACK", "EVNT", "OTHER"}

VARIABLES
    reqState, \* where the goroutine of each request stands
    wire,     \* requests that reached the server
    sent,     \* messages the server sent (history)
    inbox,    \* messages sent and not read yet
    conn,     \* the websocket connection
    reader,   \* where handleMessages stands; c.stop is closed when it is done
    results,  \* c.results, the pending calls
    timer,    \* where handleExpiredCall stands for each call
    err,      \* c.err
    closer,   \* where each Close stands
    saved,    \* the copy of c.err each Close made on entry
    err2,     \* what c.conn.Close returned to each Close
    spawned,  \* messages whose handler goroutine has not run yet
    handled,  \* messages the Handler received
    dropped   \* calls whose RES handleMessages dropped (history)

connVars  == <<conn, inbox, sent>>
closeVars == <<closer, saved, err2>>
msgVars   == <<spawned, handled, dropped>>
vars == <<reqState, wire, connVars, reader, results, timer, err, closeVars, msgVars>>

Requests == Calls \cup Others

\* What the server can send: see ProcessMsg, Conn.results and Conn.pubSub.
\* "OTHER" is a message UnmarshalResponse refuses.
ServerMsgs == ({"ACK", "NACK", "RES"} \X Calls) \cup (OtherMsgs \X Others)

\* What the Handler can receive: also the EXP the client raises itself.
Msgs == ServerMsgs \cup ({"EXP"} \X Calls)

Errs == {"none", "write", "read", "conn", "closed"}

TypeOK ==
    /\ reqState \in [Requests -> {"idle", "checked", "written", "returned", "failed"}]
    /\ wire \subseteq Requests
    /\ sent \subseteq ServerMsgs
    /\ inbox \subseteq sent
    /\ conn \in {"open", "broken", "closed"}
    /\ reader \in {"reading", "returning", "done"}
    /\ results \subseteq Calls
    /\ timer \in [Calls -> {"none", "waiting", "fired", "done"}]
    /\ err \in Errs
    /\ closer \in [Closers -> {"idle", "entered", "closed", "returned"}]
    /\ saved \in [Closers -> Errs]
    /\ err2 \in [Closers -> Errs]
    /\ spawned \subseteq Msgs
    /\ handled \subseteq Msgs
    /\ dropped \subseteq Calls

Init ==
    /\ reqState = [r \in Requests |-> "idle"]
    /\ wire = {}
    /\ sent = {}
    /\ inbox = {}
    /\ conn = "open"
    /\ reader = "reading"
    /\ results = {}
    /\ timer = [c \in Calls |-> "none"]
    /\ err = "none"
    /\ closer = [k \in Closers |-> "idle"]
    /\ saved = [k \in Closers |-> "none"]
    /\ err2 = [k \in Closers |-> "none"]
    /\ spawned = {}
    /\ handled = {}
    /\ dropped = {}

stopped == reader = "done"

\* if c.err == nil { c.err = e }, under c.mu
SetErr(e) == err' = IF err = "none" THEN e ELSE err

-----------------------------------------------------------------------------
(* Requests: Call, Sub, Unsb and Pub.                                      *)

\* The request reads c.err under c.mu and gives up when it is set.
CheckErr(r) ==
    /\ reqState[r] = "idle"
    /\ reqState' = [reqState EXCEPT ![r] = IF err = "none" THEN "checked" ELSE "failed"]
    /\ UNCHANGED <<wire, connVars, reader, results, timer, err, closeVars, msgVars>>

\* doWrite succeeds.  A call is registered only in a later step; any other
\* request returns its UUID.  The message leaves the buffer of the connection
\* when the writer is closed, and writeMsg ignores the error of that: doWrite
\* succeeds on a closed connection too.
WriteOK(r) ==
    /\ reqState[r] = "checked"
    /\ reqState' = [reqState EXCEPT ![r] = IF r \in Calls THEN "written" ELSE "returned"]
    /\ wire' = IF conn = "closed" THEN wire ELSE wire \cup {r}
    /\ UNCHANGED <<connVars, reader, results, timer, err, closeVars, msgVars>>

\* doWrite fails with ErrWriteLimitExceeded or ErrWriteLockTimeout: nothing
\* was written, and the client is marked as failed.
WriteRefused(r) ==
    /\ reqState[r] = "checked"
    /\ reqState' = [reqState EXCEPT ![r] = "failed"]
    /\ SetErr("write")
    /\ UNCHANGED <<wire, connVars, reader, results, timer, closeVars, msgVars>>

\* Encoding the message or writing it fails in another way: c.err is not
\* set, and the server may have the message although the request failed.
WriteFails(r) ==
    /\ reqState[r] = "checked"
    /\ reqState' = [reqState EXCEPT ![r] = "failed"]
    /\ \/ wire' = wire
       \/ /\ conn # "closed"
          /\ wire' = wire \cup {r}
    /\ UNCHANGED <<connVars, reader, results, timer, err, closeVars, msgVars>>

\* Mutant of AddPending: the timer goroutine is not started.
AddPending_NoTimer(c) ==
    /\ reqState[c] = "written"
    /\ reqState' = [reqState EXCEPT ![c] = "returned"]
    /\ results' = results \cup {c}
    /\ UNCHANGED <<wire, connVars, reader, timer, err, closeVars, msgVars>>

\* Call adds the call to the pending ones, after the message is written, and
\* starts the goroutine that waits for its timeout.
AddPending(c) ==
    /\ reqState[c] = "written"
    /\ reqState' = [reqState EXCEPT ![c] = "returned"]
    /\ results' = results \cup {c}
    /\ timer' = [timer EXCEPT ![c] = "waiting"]
    /\ UNCHANGED <<wire, connVars, reader, err, closeVars, msgVars>>

-----------------------------------------------------------------------------
(* The reader: handleMessages.                                             *)

\* delete(c.results, key), under c.mu
DeletePending(c) == results' = results \ {c}

\* Mutant of ReadRes: the RES is handed over without looking for its entry.
ReadRes_Unchecked(c) ==
    /\ DeletePending(c)
    /\ spawned' = spawned \cup {<<"RES", c>>}
    /\ UNCHANGED dropped

\* A RES for a pending call is handed to the Handler; any other RES is
\* dropped.
ReadRes(c) ==
    /\ DeletePending(c)
    /\ IF c \in results
         THEN spawned' = spawned \cup {<<"RES", c>>} /\ UNCHANGED dropped
         ELSE dropped' = dropped \cup {c} /\ UNCHANGED spawned

\* A NACK of a call removes the call from the pending ones, and is handed to
\* the Handler whether it was pending or not.
ReadNack(r) ==
    /\ IF r \in Calls THEN DeletePending(r) ELSE UNCHANGED results
    /\ spawned' = spawned \cup {<<"NACK", r>>}
    /\ UNCHANGED dropped

\* An ACK or an EVNT goes straight to the Handler.
ReadAny(m) ==
    /\ m[1] \in {"ACK", "EVNT"}
    /\ spawned' = spawned \cup {m}
    /\ UNCHANGED <<results, dropped>>

\* UnmarshalResponse fails: the message is skipped.
ReadBad(m) ==
    /\ m[1] = "OTHER"
    /\ UNCHANGED <<results, spawned, dropped>>

\* One iteration of the loop.  Frames the connection has buffered can still
\* be read after it is broken or closed.
HandleMessage(m) ==
    /\ reader = "reading"
    /\ m \in inbox
    /\ inbox' = inbox \ {m}
    /\ \/ m[1] = "RES" /\ ReadRes(m[2])
       \/ m[1] = "NACK" /\ ReadNack(m[2])
       \/ ReadAny(m)
       \/ ReadBad(m)
    /\ UNCHANGED <<reqState, wire, sent, conn, reader, timer, err, closeVars, handled>>

\* Mutant of ReadError: the error is not stored.
ReadError_Unstored ==
    /\ reader = "reading"
    /\ conn # "open"
    /\ reader' = "returning"
    /\ UNCHANGED <<reqState, wire, connVars, results, timer, err, closeVars, msgVars>>

\* Mutant of ReadError: the loop goes on after an error.
ReadError_Continues ==
    /\ reader = "reading"
    /\ conn # "open"
    /\ SetErr("read")
    /\ UNCHANGED <<reqState, wire, connVars, reader, results, timer, closeVars, msgVars>>

\* NextReader returns an error: the reader keeps it if it is the first one.
ReadError ==
    /\ reader = "reading"
    /\ conn # "open"
    /\ reader' = "returning"
    /\ SetErr("read")
    /\ UNCHANGED <<reqState, wire, connVars, results, timer, closeVars, msgVars>>

\* The deferred close(c.stop).
CloseStop ==
    /\ reader = "returning"
    /\ reader' = "done"
    /\ UNCHANGED <<reqState, wire, connVars, results, timer, err, closeVars, msgVars>>

-----------------------------------------------------------------------------
(* The timer goroutine of a call: handleExpiredCall.                       *)

\* The select takes the branch of c.stop.
TimerStops(c) ==
    /\ timer[c] = "waiting"
    /\ stopped
    /\ timer' = [timer EXCEPT ![c] = "done"]
    /\ UNCHANGED <<reqState, wire, connVars, reader, results, err, closeVars, msgVars>>

\* The select takes the branch of time.After; it may, even when c.stop is
\* closed too.
TimerFires(c) ==
    /\ timer[c] = "waiting"
    /\ timer' = [timer EXCEPT ![c] = "fired"]
    /\ UNCHANGED <<reqState, wire, connVars, reader, results, err, closeVars, msgVars>>

\* Mutant of Expire: the expired call stays in the map.
Expire_Keeps(c) ==
    /\ timer[c] = "fired"
    /\ timer' = [timer EXCEPT ![c] = "done"]
    /\ spawned' = IF c \in results THEN spawned \cup {<<"EXP", c>>} ELSE spawned
    /\ UNCHANGED <<reqState, wire, connVars, reader, results, err, closeVars, handled, dropped>>

\* A call that is still pending when its timer fired gets an EXP.
Expire(c) ==
    /\ timer[c] = "fired"
    /\ timer' = [timer EXCEPT ![c] = "done"]
    /\ DeletePending(c)
    /\ spawned' = IF c \in results THEN spawned \cup {<<"EXP", c>>} ELSE spawned
    /\ UNCHANGED <<reqState, wire, connVars, reader, err, closeVars, handled, dropped>>

\* The handler goroutine of a message gets to run.
Handle(m) ==
    /\ m \in spawned
    /\ spawned' = spawned \ {m}
    /\ handled' = handled \cup {m}
    /\ UNCHANGED <<reqState, wire, connVars, reader, results, timer, err, closeVars, dropped>>

-----------------------------------------------------------------------------
(* Close.                                                                  *)

CloseEnter(k) ==
    /\ closer[k] = "idle"
    /\ closer' = [closer EXCEPT ![k] = "entered"]
    /\ saved' = [saved EXCEPT ![k] = err]
    /\ UNCHANGED <<reqState, wire, connVars, reader, results, timer, err, err2, msgVars>>

\* c.conn.Close fails when the connection is already closed, and may fail
\* otherwise.
CloseConn(k) ==
    /\ closer[k] = "entered"
    /\ closer' = [closer EXCEPT ![k] = "closed"]
    /\ conn' = "closed"
    /\ \E e \in {"none", "conn"} :
          /\ conn = "closed" => e = "conn"
          /\ err2' = [err2 EXCEPT ![k] = e]
    /\ UNCHANGED <<reqState, wire, inbox, sent, reader, results, timer, err, saved, msgVars>>

\* Close waits for the reader, then stores its own error if c.err was nil
\* when it was called.
CloseReturn(k) ==
    /\ closer[k] = "closed"
    /\ stopped
    /\ closer' = [closer EXCEPT ![k] = "returned"]
    /\ err' = IF saved[k] # "none" THEN err
              ELSE IF err2[k] # "none" THEN err2[k] ELSE "closed"
    /\ UNCHANGED <<reqState, wire, connVars, reader, results, timer, saved, err2, msgVars>>

-----------------------------------------------------------------------------
(* The environment: the server and the network.                            *)

\* The server sends message m for a request that reached it, once.  It
\* acknowledges a request with one of ACK and NACK.
ServerSends(m) ==
    /\ conn = "open"
    /\ m \in ServerMsgs \ sent
    /\ m[2] \in wire
    /\ m[1] = "ACK" => <<"NACK", m[2]>> \notin sent
    /\ m[1] = "NACK" => <<"ACK", m[2]>> \notin sent
    /\ sent' = sent \cup {m}
    /\ inbox' = inbox \cup {m}
    /\ UNCHANGED <<reqState, wire, conn, reader, results, timer, err, closeVars, msgVars>>

\* The server closes the connection, the network fails, or a message is over
\* the read limit.
ConnBreaks ==
    /\ conn = "open"
    /\ conn' = "broken"
    /\ UNCHANGED <<reqState, wire, inbox, sent, reader, results, timer, err, closeVars, msgVars>>

-----------------------------------------------------------------------------
Next ==
    \/ \E r \in Requests : CheckErr(r) \/ WriteOK(r) \/ WriteRefused(r) \/ WriteFails(r)
    \/ \E c \in Calls : AddPending(c) \/ TimerStops(c) \/ TimerFires(c) \/ Expire(c)
    \/ \E m \in ServerMsgs : HandleMessage(m) \/ ServerSends(m)
    \/ ReadError
    \/ CloseStop
    \/ \E m \in Msgs : Handle(m)
    \/ \E k \in Closers : CloseEnter(k) \/ CloseConn(k) \/ CloseReturn(k)
    \/ ConnBreaks

Safety == Init /\ [][Next]_vars

\* A goroutine that can take a step takes it: the Go scheduler is fair, a
\* timer fires, and NextReader returns once there is a message or an error.
\* Nothing obliges the application to make a request or to call Close, the
\* server to answer or the network to fail.
Fairness ==
    /\ \A c \in Calls : WF_vars(AddPending(c)) /\ WF_vars(TimerFires(c)) /\ WF_vars(Expire(c))
    /\ WF_vars(\E m \in ServerMsgs : HandleMessage(m))
    /\ WF_vars(ReadError)
    /\ WF_vars(CloseStop)
    /\ \A m \in Msgs : WF_vars(Handle(m))
    /\ \A k \in Closers : WF_vars(CloseConn(k)) /\ WF_vars(CloseReturn(k))

Spec == Safety /\ Fairness

-----------------------------------------------------------------------------
(* Properties.                                                             *)

\* Message t about call c was handed to the Handler.
Got(t, c) == <<t, c>> \in spawned \cup handled

\* The package comment's "never both": handleMessages (RES) and
\* handleExpiredCall (EXP) race for the entry of c.results, and at most one
\* of them reports the call to the Handler.
NeverBoth == \A c \in Calls : ~(Got("RES", c) /\ Got("EXP", c))

\* No leak of c.results while the client runs: every pending call has a
\* timer goroutine that will remove it.  It also says that a call is never
\* added again after handleExpiredCall is through with it.
PendingHasTimer ==
    \A c \in results : timer[c] \in {"waiting", "fired"} \/ stopped

\* A RES or a NACK that was read, or an EXP that was raised, leaves no entry
\* of the call in c.results: nothing can resolve the call again.
ResolvedNotPending ==
    \A c \in results : ~Got("RES", c) /\ ~Got("EXP", c)

\* A call that has not been registered by addPending is not pending, has no
\* timer and was not resolved: a RES read that early is dropped.
UnregisteredUntouched ==
    \A c \in Calls : reqState[c] # "returned" =>
        c \notin results /\ timer[c] = "none" /\ ~Got("RES", c) /\ ~Got("EXP", c)

\* The reader leaves its loop with c.err set, and nothing resets it.
StoppedHasErr == reader # "reading" => err # "none"

\* The inductive invariant of the proofs.
IInv ==
    /\ TypeOK
    /\ NeverBoth
    /\ PendingHasTimer
    /\ ResolvedNotPending
    /\ UnregisteredUntouched
    /\ StoppedHasErr

\* Once the stop channel is closed (CloseNotify), no Call, Sub, Unsb or Pub
\* gets past its check of c.err: the reader sets c.err before it closes the
\* channel and Close never resets it.
NoRequestAfterStop ==
    [][\A r \in Requests : stopped /\ reqState[r] = "idle" => reqState'[r] \in {"idle", "failed"}]_vars

\* A call that returned its UUID is eventually answered to the Handler by a
\* RES, an EXP or a NACK, unless the client stops.
EveryCallAnswered ==
    \A c \in Calls :
        reqState[c] = "returned" ~> \/ \E t \in {"RES", "EXP", "NACK"} : <<t, c>> \in handled
                                    \/ stopped

\* Close returns: closing the connection makes the reader fail and close the
\* channel Close waits for, whatever the handlers and the other goroutines do.
CloseTerminates ==
    \A k \in Closers : closer[k] = "entered" ~> closer[k] = "returned"

\* The phase of a call in CallPromise.  A call that got both a RES and an EXP
\* would be in no phase CallPromise knows.
callPhase ==
    [c \in Calls |->
        CASE Got("RES", c) /\ Got("EXP", c) -> "both"
          [] Got("RES", c) /\ ~Got("EXP", c) -> "res"
          [] Got("EXP", c) /\ ~Got("RES", c) -> "exp"
          [] OTHER -> IF c \in results THEN "open"
                      ELSE IF reqState[c] = "returned" THEN "cancelled" ELSE "new"]

Promise == INSTANCE CallPromise WITH phase <- callPhase, closed <- stopped

\* The client implements the promise of the package comment: one RES or one
\* EXP per call, never both, and not none while the client is running.
ImplementsPromise == Promise!Spec

-----------------------------------------------------------------------------
(* What a comment says, and the code does not do.                          *)

\* The comment in handleMessages on a RES without pending entry: "if an
\* expired message got here first, then drop the result, client treated this
\* call as expired already."
DropsOnlyExpired == \A c \in dropped : Got("EXP", c)

=============================================================================
