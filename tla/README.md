# Verification of juggler in TLA+

juggler offers remote calls and publish-subscribe to clients over websocket
connections. A server passes calls and events through a broker on redis, and
callees take the calls from the broker and put the results back. This directory
holds TLA+ models of these parts, configurations that check them with TLC on
small instances, and proofs of their main safety properties, checked by TLAPS.
`PROJECT.json` maps every definition to the lines it models.

## The system

| Part | Source | State | Operations | Module |
|---|---|---|---|---|
| client | `client/client.go` | pending calls, error, stop channel, connection | Call, Sub, Unsb, Pub, handleMessages, handleExpiredCall, Close | `Client` |
| promise of the client package | `client/client.go`, package comment | phase of each call | issue, resolve, cancel | `CallPromise` |
| websocket writers | `internal/wswriter` | write lock, current message, bytes left | Exclusive, Limit, Write, Close | `WsWriter` |
| promise of `Conn.Writer` | `conn.go`, comment of Writer | the message on the connection, its size | begin, extend, end | `MessageStream` |
| server connection | `server.go`, `conn.go`, `handler.go` | broker connections, close-once, kill channel, callbacks | ServeConn, Upgrade, receive, results, pubSub, ProcessMsg, Close | `Conn` |
| queues of the broker | `broker/redisbroker/{broker,calls,results}.go` | redis list and timeout keys, poll and send goroutines | Call, Result, Calls, Results, Close | `RedisQueue` |
| promise of the broker's queues | `broker/broker.go`, interfaces | the queue, the answers, where each item is | put, take, give | `QueuePromise` |
| callee, and a call end to end | `callee/callee.go`, with the queues | the call being run | Listen, InvokeAndStoreResult, storeResult | `Rpc` |
| promise of a remote call | `callee/callee.go`, comments | the answer, run and result of each call | answer, run, finish, receive | `RpcPromise` |
| pub-sub of the broker | `broker/redisbroker/pubsub.go`, `handler.go` | commands on their way, subscriptions, events in flight | Publish, Subscribe, Unsubscribe, Events, listen, sendEvent, Close | `PubSub` |
| commands: workers, handler | `cmd/juggler-callee`, `cmd/juggler-server`, `internal/srvhandler` | | the workers of a calls connection; the handler that closes or panics, PanicRecover | `Rpc`, `Conn` |
| load generator | `cmd/juggler-load` | channel next, WaitGroup, stop | main, runClient, its Handler | `Load` |
| messages | `message`, header in `server.go` | registered types, messages made | Register, constructors, decoders | `Messages` |

How they interact: `Rpc` composes two instances of `RedisQueue`, for the calls of
a URI and for the results of a connection, with the callees between them.
`Load` extends `Client`: the load generator is a user of the client package, and
its handler runs in the client's handler goroutines.
`Client` has the server as its environment, `Conn` the broker connections, whose
channels are closed some time after the connection is closed: this is
`StreamsEnd` of `Rpc` and `EventsEnd` of `PubSub`. A write of `Client` or
`Conn` is one step, which succeeds or fails; `WsWriter` shows that writes exclude
each other, so that it can be one.

### What is hard here

Goroutines share little state, but they race for it: a result and a timeout for
the entry of a call, several callers of `Close`, send goroutines and the end of
their channel, a subscription and a publication on different redis connections.
Redis executes a script whose reply is lost. Times are rounded to milliseconds,
and a TTL that was read is used later. `PROJECT.json` lists these hazards at
their lines, each with the properties that would show them.

## The models

A step is what one goroutine does between two points where another can see it:
a critical section, a redis command or script, a channel operation, a read or a
write of the connection.

* **Client.** `reqState`, `timer`, `reader` and `closer` say where the
  goroutines stand. `Call` is three steps (`CheckErr`, `WriteOK`, `AddPending`)
  because the code writes the request before it registers the call. Timeouts
  have no length: a timer may fire at any time. The messages in flight are a
  set, since the server sends ACK, NACK, RES and EVNT from several goroutines.
  `WriteOK` is possible on a closed connection: `writeMsg` ignores the error of
  the deferred `Close`, which is what sends the buffered message.
* **WsWriter.** The lock is a token in a channel. `Acquire` and `AcquireFails`
  are the receive of the token with the `NextWriter` after it.
* **Conn.** `pc` has the place of each goroutine; `Close` is split at the
  closing of each broker connection, because other goroutines see it half done.
  With `Command` the handler is the one of `cmd/juggler-server`: besides calling
  ProcessMsg it can send a close frame, or panic inside `PanicRecover`, which
  closes the Conn while receive goes on. `ReadRequest` is possible after the
  connection was closed: the reader of the websocket may have the frame buffered.
* **RedisQueue.** The script of `Call` and `Result` is atomic, and its reply may
  be lost (`RegisterNoReply`). `PopLost` is redis serving a BRPOP whose client
  is gone. Time is in ticks, `Ms` of them to the millisecond, so that the
  truncations of the code are visible.
* **Rpc.** A callee has a calls connection and workers that receive from its one
  channel, each a call at a time: one worker is the loop of `Listen`, several are
  those of `cmd/juggler-callee`. `start` and `readAt` are the times at which a
  worker received a call and at which its TTL was read. The end of
  InvokeAndStoreResult is two steps, with time between them: in `ThunkReturns` the
  worker checks how much of the TTL remains, at the time `returned`, and in
  `StoreResult` redis runs the script with that remainder, at the time `storedAt`.
* **Load.** One connection of the load generator; the others share with it only
  counters of the report. Every action of `Client` is an action of a goroutine
  here, together with what runClient or its Handler does at that point. A handler
  is two steps: the message is counted, and then `next` is filled and the
  WaitGroup counted down. Init is the state after `Dial`.
* **PubSub.** `cmds` are the SUBSCRIBE and UNSUBSCRIBE commands that were written
  and that redis has not executed. Events in flight are a set, because each has
  its goroutine. `Foreign` publications are those other programs make, whose
  payload cannot be decoded.
* **Messages.** A message is a record of UUID, type, subject and the request it
  is for. Decoders are the sets of types they accept. The registry of names holds
  the standard ones from the start, as the table in the code does, so `Register`
  refuses them like a custom name that is taken.

Four small modules say what a component promises and leave out how it does it:
`CallPromise`, `MessageStream`, `QueuePromise` and `RpcPromise`. Each is
instantiated in the module that implements it, with a mapping of the state:

* `Client` shows a call as its phase: new, open, resolved or cancelled.
* `WsWriter` shows the writer whose message is on the connection and the bytes of
  that message. The lock, the timeouts and the failures disappear; a message must
  begin and end with one writer, within the limit, before the next begins.
* `RedisQueue` shows the list, the answers and the place of each item. What is
  left of a full list are its oldest items; an error leaves open whether the item
  went in; the oldest is taken out, never again, and given once or dropped. Keys,
  clocks, connections and goroutines disappear.
* `Rpc` shows of each call what the server was told, whether it was run, and where
  its result is. The queues disappear: their order, capacity and connections no
  longer matter.

## Runs

| Run | Instance | Shows |
|---|---|---|
| `client` | 1 call, 1 other request, 2 closers | `NeverBoth`, `NoRequestAfterStop`, the invariant with `PendingHasTimer`; `EveryCallAnswered`, `CloseTerminates`, `ImplementsPromise` |
| `wswriter` | 3 writers, 2 with a timeout, limit 2 | `MessageIntact`, the invariant with `OneWriter`, `TokenConserved` and `LimitRespected`; `ImplementsStream`, `NobodyWaitsForever` |
| `redisqueue` | 2 items, 2 connections, capacity 1, timeouts -1, 0 and 1.5 ms | `AcceptedKept`, `DroppedOnlyIfExpired`, `TTLWithinTimeout`, the invariant with `AtMostOnce`, `RefusedNeverTaken` and `NoSendOnClosed`; `ImplementsQueue` |
| `rpc` | 2 calls, 1 callee with 2 workers, capacities 1; with time, 1 call with a timeout of 2.5 ms, 3.5 ms of time | `OneWorker`; `ImplementsRpc`, `CallsSettle`, `StreamsEnd`, `StoredLateOnlyByWait`, `AnsweredLateOnlyByWait` |
| `conn` | all sets of request types, the handler of juggler-server, 1 message per loop | `CallbackOrder`, `NoBrokerConnLeft`, `NoNilConn`, `CloseErrKept`, the invariant; `AllEnd` |
| `pubsub` | 1 connection, 2 channels, 1 pattern, 3 commands, 2 events | `AckedTakesEffect`, `EventOnce`, the invariant with `NoSendOnClosed`; `EventsArrive`, `EventsEnd` |
| `messages` | 4 messages, 2 subjects, 5 headers, 2 custom names and a standard one | `Correlated`, `HeaderRestricts`, the invariant with `OnePeer` and `CustomDistinct` |
| `load` | 2 calls, with and without a rate | `NextHasRoom`, `WaitsForCalls`, `OneAtATime`; `StopEnds` |

Why the bounds are enough to be of use: the calls of a client share nothing but
`c.err`, so one call with another request meets every race of the reader, the
timer and two callers of Close. The messages for other requests (`OtherMsgs`)
are all handled alike, so one kind stands for them. A third writer waits while a
second one times out. Two items on a list of capacity one make it full, and two
connections compete for them. Two calls are run by two workers at once, or one
waits for the worker that runs the other. `MCSpec` of `MCRpc` joins two kinds of
behaviours of `Rpc` in one run: those in which the clock stands still, with all
interleavings and failures of connections, and those in which it moves, with one
call (`Timed`) on connections that stay open. It leaves out steps of clients, of
the clock and of failures only, to which no fairness applies, so a behaviour of
`MCSpec` is one of `Rpc`, and what is fair there is never blocked. Of the 3.5 ms
a call can spend some blocked on the channel, some running and some between the
check and the script, and the remainder can be below a millisecond; the default
timeout is 2 ms instead of a minute. One message per loop is enough for
a loop to be in the middle of a send when the connection is closed. Three
commands are enough to subscribe, unsubscribe and subscribe again with all of
them still on their way. Four messages are a request, an answer and two NACKs in
a chain. With two calls the load generator can make the second while the first
is pending, answered, expired or nacked, and be stopped at any of these points.
The proofs do without any of these bounds.

Deadlock is checked for the writers, who can always go on. All other systems may
stop: clients, connections and queues end.

### What documents say and the code does not do

Each of these runs checks one sentence of a comment and ends with a
counterexample. `PROJECT.json` quotes the lines.

| Run | The code |
|---|---|
| `early_result` | drops a RES that is read before `Call` registered the call; the call expires |
| `late_result` | does not drop the result of a thunk that returns after the timeout of its call, if the call had waited for the callee |
| `close_in_callback` | leaves broker connections open after a `Close` during the set-up |
| `unknown_header` | allows all requests if the header is non-empty, not `*`, and names no request |

The models show more of what the code does and a reader may not expect, and no
property excludes it: handlers of the client run after its `Close` returned; a
`Close` of the client replaces the error of a write that failed meanwhile; a
timeout below a millisecond becomes the default of a minute; the error of a
stream can be read before its channel is closed; items are received in another
order than they were popped; requests are handled that are read after the server
closed the connection; a list of types that is given to ServeConn without a
request type stands for all requests; a result is stored after the timeout when
the callee was slow between its check and the script. SUB and UNSB are acknowledged before redis has executed them,
so an event that is published right after the ACK, over another connection, can
miss the subscription; `AckedTakesEffect` says only that redis gets there.

In the load generator, a NACK with a negative rate does not start the next call
(the comment speaks of a response "received (or expired)"), so that nothing more
is called until the run is over. `NextHasRoom` rests on this: if a NACK did, the
EXP of the same call would find `next` full. A NACK that comes besides the RES or
EXP of its call counts as the end of two calls, and `Wait` returns early or
`Done` panics; `WaitsForCalls` makes this its exception, and says that nothing
else leads to either. When the connection breaks before runClient closes the
client, the timers of the client stop, calls are left without an end, and only
the watchdog ends the program. `StopEnds` has this one exception, in which
runClient waits for ever: a connection that breaks elsewhere does not keep the
program from its end.

`StoredLateOnlyByWait` and `AnsweredLateOnlyByWait` say how late a result can be,
and name each cause: the time the call was blocked on the channel, the time from
the check of the remainder to the script (`StoringFor`), the rounding to
milliseconds and, for the answer, the default timeout if less than a millisecond
remained (`Default`). Without `Waited`, `StoringFor` or `Default` TLC finds a counterexample
in the same instance.

### Fairness

Weak fairness of a goroutine's step: the Go scheduler runs what can run, timers
fire, redis answers. Strong fairness in two places: a writer that waits for the
token, and a call that waits to be received, are in the queue of a Go channel,
which serves them in order. Nothing is assumed of users, servers, connections
and the network: a request may never be made or answered, and a connection need
not fail. A read of a connection that is closed returns an error. In `Rpc`
thunks return. In `Load` one condition covers all goroutines of the program,
which come to an end one by one: as long as one can go on, one does, and the
duration of the run passes; the watchdog need not fire. In `Conn` a write
returns: because of the write timeout of the server, or, where that is zero and
there is none, because the network gives up in the end. With a peer that keeps
its connection alive and never reads, and no write timeout, this fails, and then
`AllEnd` does not follow. The channel of a broker connection that is closed is closed
too, as shown in `Rpc` and `PubSub`. `StopEnds` makes the same assumption of the
writes of the client.

## Proofs

Eight modules hold proofs, for every value of the constants.

| Module | Theorems |
|---|---|
| `ClientProofs` | `ClientInvariant`, `NeverBothHolds`, `PendingHasTimerHolds`, `NoRequestAfterStopHolds`, `ImplementsPromiseSafety` |
| `WsWriterProofs` | `WriterInvariant`, `OneWriterHolds`, `TokenConservedHolds`, `MessageIntactHolds`, `LimitRespectedHolds`, `ImplementsStreamHolds` |
| `RedisQueueProofs` | `QueueInvariant`, `AtMostOnceHolds`, `RefusedNeverTakenHolds`, `NoSendOnClosedHolds`, `AcceptedKeptHolds`, `CapRespectedHolds`, `ImplementsQueueHolds`, `DroppedOnlyIfExpiredHolds`, `TTLWithinTimeoutHolds` |
| `ConnProofs` | `ConnInvariant`, `NoBrokerConnLeftHolds`, `CallbackOrderHolds`, `CloseErrKeptHolds`, `NoNilConnHolds` |
| `PubSubProofs` | `PubSubInvariant`, `AckedTakesEffectHolds`, `EventOnceHolds`, `NoSendOnClosedHolds` |
| `MessagesProofs` | `MessagesInvariant`, `CorrelatedHolds`, `HeaderRestrictsHolds` |
| `RpcProofs` | `RpcInvariant`, `QueuesImplement`, `RpcTypeOK`, `OneResultPerCallHolds`, `NackedNotRunHolds`, `OneWorkerHolds`, `LateOnlyByWait`, `ImplementsRpcHolds`, `QueuesKeepPromise` |
| `LoadProofs` | `LoadInvariant`, `LoadUsesClient`, `LoadKeepsPromise`, `NextHasRoomHolds`, `OneAtATimeHolds`, `WaitsForCallsHolds` |

Each goes along an inductive invariant with a step per action. For a component
it is `IInv` of its module, which its run checks too; the compositions `Rpc` and
`Load` build theirs from the `IInv` of what they compose. What it adds to the
properties:

* **Client**: a call that was resolved has no pending entry, one that is not
  registered has no entry, no timer and no answer, and a reader that left its
  loop has stored an error. `NeverBoth` alone is not inductive: with an entry
  left behind by a RES, the timer would raise an EXP. The refinement of
  `CallPromise` maps a call to its phase and shows that each step is a step of
  one call there, or none.
* **WsWriter**: who waits does not have the lock, the bytes written and those
  left add up to the limit at most, and the message on the connection is that of
  the goroutine that holds the lock and has not begun to close it. The last is
  what the refinement of `MessageStream` needs: a message begins only when the
  lock was free, so there is none on the connection (`NextStream`).
* **RedisQueue**: an item that was not registered is nowhere, and only items that
  were sent are received. `AcceptedKeptHolds` and `CapRespectedHolds` assume that
  all brokers use one capacity (`SameCap`); without it a broker with a smaller
  capacity drops items that were accepted, and one with a larger lets the list
  grow. What remains true then is in `QueuePromise`: the oldest items stay. The
  refinement of `QueuePromise` assumes nothing: `ScriptEnters` shows, from what
  LPUSH, LLEN and LTRIM do to a sequence, that the script enters an item or keeps
  the oldest, for every length and capacity, and `NextQueue` that every other step
  moves at most one item from one place to the next. The timing theorems add `TimeInv`: an item that waits for the
  read of its TTL still has its key, and the key expires less than two
  milliseconds before the timeout is over. `TTLWithinTimeoutHolds` assumes that
  a timeout is a millisecond at least or not positive (`WholeMs`): a shorter one is
  truncated to zero and becomes the default of a minute. The run has the same
  hypothesis in its timeouts; what the default does to a result is in
  `AnsweredLateOnlyByWait`.
* **Conn**: the place of ServeConn determines the callbacks and the loops that
  run, and the place of the close function which broker connections are closed.
  `ConnInvariant` and `NoBrokerConnLeftHolds` assume that the application closes a
  connection only after the Connected callback (`AppCloses # "any"`);
  `close_in_callback` shows what happens otherwise. `CallbackOrderHolds` and
  `CloseErrKeptHolds` need no such assumption: only ServeConn makes callbacks, the
  last one after c.kill is closed (`CallbackInv`), and CloseErr is written only by
  who enters closeOnce. `NoNilConnHolds` follows the set-up along
  ServeConn (`SetupInv`) and assumes that every list of allowed messages is empty
  or names a request type (`RequestLists`): for any other list ServeConn prepares
  nothing and UnmarshalRequest accepts everything.
* **PubSub**: an event is at one place only, and only for a subscription it was
  published to. `AckedTakesEffect` is stated with the subscriptions that redis
  will have when the commands on their way are executed; the lemmas
  `PendingAppend` and `PendingTail` say how writing and executing a command
  change them.
* **Messages**: custom types are beyond the standard ones and below the next, and
  what is acknowledged is what the decoder of the server accepts for the header.
  `HeaderRestrictsHolds` assumes headers that are empty, `*` or name a request
  (`NamesRequests`); `unknown_header` shows the others.
* **Rpc**: the invariants of the two queues, and `Link`: only calls that were
  received are run, and results are registered only for calls that ran; and
  `OneWorker`: a call that runs has exactly one worker and no result yet. Without
  it a call could be finished twice, so the refinement of `RpcPromise` rests on
  it. A step of
  the composition is a step of each queue or leaves it alone (`QueuesImplement`),
  so the lemmas of `RedisQueueProofs` are used for both, through INSTANCE, and the
  proofs of `Rpc` are about the callees only; both queues also implement
  `QueuePromise` (`QueuesKeepPromise`). The refinement of `RpcPromise` has one
  lemma for each kind of step that it sees (`CallAnswers`, `InvokeRuns`,
  `WorkerFinishes`, `ResultMoves`) and one for those it does not (`SameCalls`);
  where a result is follows from the place of its item in the results queue, and
  only a result that was stored can be taken from there (`TakenWasStored`). `LateOnlyByWait` proves
  `StoredLateOnlyByWait` and `AnsweredLateOnlyByWait`, where the timeouts of calls
  are under `WholeMs`, from `TimeLink`: the time a call was given, counted from
  the read of its TTL, ends within a millisecond of its timeout; the remainder,
  counted from the check, ends when that time does; and the key of a result
  expires at the end of the remainder, counted from the script, or of the default
  if the remainder is below a millisecond (`RemainTime`, `ReadInTime`). The
  remainder itself is under no such hypothesis.
* **Load**: the invariant of `Client`, where each message is (`FlightInv`), one
  call at a time in runClient (`RunnerInv`), one value for `next` that is in the
  channel or owed by one call (`OneToken`), and the counter of the WaitGroup as
  the calls made less the ends counted (`CountInv`). `ZeroMeansEnded` concludes
  from a counter of zero that every call has been counted or one has two ends, by
  counting an injection; then the wait is over for a good reason, and one more
  `Done`, which would panic, would be the second end of a call. `LoadUsesClient`
  makes the theorems on the client hold here, `LoadKeepsPromise` its refinement.

Only model-checked, as out of reach of the provers: the liveness properties
`EveryCallAnswered`, `CloseTerminates`, `NobodyWaitsForever`, `CallsSettle`,
`StreamsEnd`, `AllEnd`, `EventsArrive`, `EventsEnd`, `StopEnds`, and the fairness
part of `ImplementsPromise`. The other three abstract specifications have no
fairness, so their refinements are proved as they are checked. Every safety
property a run checks is proved. `OneWriter`, `AtMostOnce`, `OneResultPerCall` and
`NackedNotRun` are proved as properties of their own and follow in the runs from
the invariants and refinements checked there.

## Not modelled

* `cmd/juggler-client`: a terminal where one goroutine reads a line, makes one
  request with the client package and prints. `cmd/juggler-direct-call` and
  `cmd/redis-direct` are loops that send and print rates.
* The rest of the commands: flags, configuration, which set fields before
  anything runs concurrently, the thunks of juggler-callee, and the latencies,
  server variables and report of juggler-load. A RES that is handled before
  runClient noted the start of its call gives a latency from the zero time.
* The expvar metrics, which are never read back, and the logging handlers.
* The redirections of a redis cluster, which are those of the `redisc` library.
* The JSON encoding of messages (`encoding/json` on plain structures), the
  websocket handshake, and the helpers of the tests.
* Using a writer after its `Close`, or from two goroutines, which is against the
  documentation of `Conn.Writer`; and a custom `Handler` of the server other than
  that of juggler-server is taken to call `ProcessMsg`.
* A composition of `Client` with `Conn` and `Rpc` in one state space is out of
  reach of TLC. They meet at interfaces that both sides keep to: the client
  assumes nothing of the server, and `Conn` assumes of its broker connections
  what `StreamsEnd` and `EventsEnd` show.
