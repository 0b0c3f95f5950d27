-------------------------------- MODULE Conn --------------------------------
(***************************************************************************)
(* The life of one connection of the server (server.go, conn.go and        *)
(* handler.go): ServeConn sets up the broker connections and starts the    *)
(* loops, receive handles the requests of the client, results and pubSub   *)
(* forward what comes from the broker, and any of them, a failed write or  *)
(* the application can close the connection.                               *)
(*                                                                         *)
(* The goroutines are "serve" (ServeConn), "recv" (receive), "res"         *)
(* (results), "ps" (pubSub) and "app" (an application goroutine that calls *)
(* Conn.Close).  "res" and "ps" also name the broker connections of these  *)
(* loops, c.resc and c.psc.  The channel of a broker connection is closed  *)
(* some time after the connection is closed or fails: StreamsEnd of module *)
(* Rpc shows it for results, EventsEnd of module PubSub for events.        *)
(***************************************************************************)
EXTENDS Naturals, Sequences

CONSTANTS
    AllowedSets,  \* the sets of message types that ServeConn may be given
    Upgraded,     \* is ServeConn called by Upgrade, which closes the websocket?
    AppCloses,    \* when the application may call Close: "connected", "any"
    Command,      \* is the Handler the one of cmd/juggler-server?
    MaxMsgs       \* bound of the model: messages handled by each loop

ASSUME BoundAssumption == Upgraded \in BOOLEAN /\ Command \in BOOLEAN /\ MaxMsgs \in Nat

RequestTypes == {"call", "sub", "unsb", "pub"}
Types == RequestTypes \cup {"res", "evnt", "ack", "nack"}
Streams == {"res", "ps"}
Loops == {"recv"} \cup Streams
Goroutines == Loops \cup {"serve", "app"}

ASSUME AllowedAssumption == AllowedSets \subseteq SUBSET Types

VARIABLES
    given,     \* the message types ServeConn was given
    pc,        \* where each goroutine stands
    req,       \* the type of the request that receive handles
    states,    \* the ConnState callbacks so far
    bconn,     \* the broker connections c.resc and c.psc
    chan,      \* the channels of the broker connections
    ws,        \* the websocket connection
    once,      \* where the function of closeOnce stands
    closeErr,  \* CloseErr: the goroutine whose error it is, or "nil"
    count      \* messages each loop has handled

vars == <<given, pc, req, states, bconn, chan, ws, once, closeErr, count>>

TypeOK ==
    /\ given \in AllowedSets
    /\ pc \in [Goroutines -> {"off", "setup", "resOK", "psOK", "connected", "waiting", "returned",
                              "loop", "process", "send", "closeLoop", "close", "done"}]
    /\ req \in RequestTypes
    /\ states \in Seq({"Accepting", "Connected", "Closed"})
    /\ bconn \in [Streams -> {"nil", "open", "closed"}]
    /\ chan \in [Streams -> {"open", "closed"}]
    /\ ws \in {"open", "broken", "closed"}
    /\ once \in {"free", "psc", "resc", "kill", "done"}
    /\ closeErr \in Goroutines \cup {"nil"}
    /\ count \in [Loops -> 0..MaxMsgs]

Init ==
    /\ given \in AllowedSets
    /\ pc = [g \in Goroutines |-> "off"]
    /\ req = "call"
    /\ states = <<>>
    /\ bconn = [s \in Streams |-> "nil"]
    /\ chan = [s \in Streams |-> "open"]
    /\ ws = "open"
    /\ once = "free"
    /\ closeErr = "nil"
    /\ count = [g \in Loops |-> 0]

\* The channel c.kill is closed.
killed == once = "done"

Goto(g, to) == pc' = [pc EXCEPT ![g] = to]

-----------------------------------------------------------------------------
(* Which messages are allowed.                                             *)

\* The types ServeConn sets the connection up for.
ServeTypes == IF given = {} THEN RequestTypes ELSE given

\* The types UnmarshalRequest accepts, from the list kept in the Conn.
ReadTypes == IF given \cap RequestTypes = {} THEN RequestTypes ELSE given \cap RequestTypes

-----------------------------------------------------------------------------
(* ServeConn and Upgrade.                                                  *)

Accept ==
    /\ pc["serve"] = "off"
    /\ Goto("serve", "setup")
    /\ states' = Append(states, "Accepting")
    /\ UNCHANGED <<given, req, bconn, chan, ws, once, closeErr, count>>

\* One broker connection is opened if it is needed.  If this fails ServeConn
\* closes the Conn and returns.
Setup(s, needed, from, to) ==
    /\ pc["serve"] = from
    /\ \/ ~needed /\ Goto("serve", to) /\ UNCHANGED bconn
       \/ needed /\ Goto("serve", to) /\ bconn' = [bconn EXCEPT ![s] = "open"]
       \/ needed /\ Goto("serve", "close") /\ UNCHANGED bconn
    /\ UNCHANGED <<given, req, states, chan, ws, once, closeErr, count>>

SetupResults == Setup("res", "call" \in ServeTypes, "setup", "resOK")

\* Mutant of SetupPubSub: no connection is opened when only UNSB is allowed.
SetupPubSub_SubOnly == Setup("ps", "sub" \in ServeTypes, "resOK", "psOK")

SetupPubSub == Setup("ps", {"sub", "unsb"} \cap ServeTypes # {}, "resOK", "psOK")

Connect ==
    /\ pc["serve"] = "psOK"
    /\ Goto("serve", "connected")
    /\ states' = Append(states, "Connected")
    /\ UNCHANGED <<given, req, bconn, chan, ws, once, closeErr, count>>

\* The loops that apply: events can be received only if SUB is allowed.
Started(g) ==
    CASE g = "ps" -> "sub" \in ServeTypes
      [] g = "res" -> "call" \in ServeTypes
      [] g = "recv" -> TRUE
      [] OTHER -> FALSE

StartLoops ==
    /\ pc["serve"] = "connected"
    /\ pc' = [g \in Goroutines |-> IF g = "serve" THEN "waiting"
                                   ELSE IF Started(g) THEN "loop" ELSE pc[g]]
    /\ UNCHANGED <<given, req, states, bconn, chan, ws, once, closeErr, count>>

\* Mutant of ServeReturns: ServeConn does not wait for c.kill.
ServeReturns_NoWait ==
    /\ pc["serve"] \in {"waiting", "done"}
    /\ Goto("serve", "returned")
    /\ states' = Append(states, "Closed")
    /\ UNCHANGED <<given, req, bconn, chan, ws, once, closeErr, count>>

\* ServeConn returns when c.kill is closed, or after the Close of a failed
\* setup; the deferred callback runs.
ServeReturns ==
    /\ pc["serve"] \in {"waiting", "done"}
    /\ killed
    /\ Goto("serve", "returned")
    /\ states' = Append(states, "Closed")
    /\ UNCHANGED <<given, req, bconn, chan, ws, once, closeErr, count>>

\* Mutant of UpgradeReturns: the websocket is not closed.
UpgradeReturns_LeavesOpen ==
    /\ Upgraded
    /\ pc["serve"] = "returned"
    /\ UNCHANGED vars

\* The deferred wsConn.Close of Upgrade.
UpgradeReturns ==
    /\ Upgraded
    /\ pc["serve"] = "returned"
    /\ ws # "closed"
    /\ ws' = "closed"
    /\ UNCHANGED <<given, pc, req, states, bconn, chan, once, closeErr, count>>

-----------------------------------------------------------------------------
(* Conn.Close: closeOnce runs its function once, in the first goroutine to *)
(* come, and the others wait until it is through.                          *)

\* Mutant of CloseEnter: every caller of Close sets CloseErr.
CloseEnter_NotOnce(g) ==
    /\ pc[g] \in {"close", "closeLoop"}
    /\ closeErr' = g
    /\ once' = IF once = "free" THEN "psc" ELSE once
    /\ UNCHANGED <<given, pc, req, states, bconn, chan, ws, count>>

CloseEnter(g) ==
    /\ pc[g] \in {"close", "closeLoop"}
    /\ once = "free"
    /\ closeErr' = g
    /\ once' = "psc"
    /\ UNCHANGED <<given, pc, req, states, bconn, chan, ws, count>>

CloseBroker(s, from, to) ==
    /\ once = from
    /\ bconn' = [bconn EXCEPT ![s] = IF @ = "open" THEN "closed" ELSE @]
    /\ once' = to
    /\ UNCHANGED <<given, pc, req, states, chan, ws, closeErr, count>>

ClosePsc == CloseBroker("ps", "psc", "resc")

\* Mutant of CloseResc: the results connection is not closed.
CloseResc_Skips ==
    /\ once = "resc"
    /\ once' = "kill"
    /\ UNCHANGED <<given, pc, req, states, bconn, chan, ws, closeErr, count>>

CloseResc == CloseBroker("res", "resc", "kill")

CloseKill ==
    /\ once = "kill"
    /\ once' = "done"
    /\ UNCHANGED <<given, pc, req, states, bconn, chan, ws, closeErr, count>>

\* Close returns to a goroutine that ends, or to the loop of a goroutine whose
\* write failed.
CloseReturns(g) ==
    /\ pc[g] \in {"close", "closeLoop"}
    /\ killed
    /\ Goto(g, IF pc[g] = "close" THEN "done" ELSE "loop")
    /\ UNCHANGED <<given, req, states, bconn, chan, ws, once, closeErr, count>>

\* The application closes the connection, which it knows from a callback.
AppClose ==
    /\ pc["app"] = "off"
    /\ Len(states) >= IF AppCloses = "any" THEN 1 ELSE 2
    /\ Goto("app", "close")
    /\ UNCHANGED <<given, req, states, bconn, chan, ws, once, closeErr, count>>

-----------------------------------------------------------------------------
(* The receive loop and ProcessMsg.                                        *)

\* NextReader returns a message and UnmarshalRequest accepts it.  A message
\* that is buffered can be read after the client is gone, and after the
\* connection is closed.
ReadRequest(t) ==
    /\ pc["recv"] = "loop"
    /\ count["recv"] < MaxMsgs
    /\ t \in ReadTypes
    /\ req' = t
    /\ count' = [count EXCEPT !["recv"] = @ + 1]
    /\ Goto("recv", "process")
    /\ UNCHANGED <<given, states, bconn, chan, ws, once, closeErr>>

\* The message is not text, is not a request, is of a type that is not
\* allowed, or exceeds the read limit or the read timeout.
ReadInvalid ==
    /\ pc["recv"] = "loop"
    /\ Goto("recv", "close")
    /\ UNCHANGED <<given, req, states, bconn, chan, ws, once, closeErr, count>>

\* NextReader fails.
ReadFails ==
    /\ pc["recv"] = "loop"
    /\ ws # "open"
    /\ Goto("recv", "close")
    /\ UNCHANGED <<given, req, states, bconn, chan, ws, once, closeErr, count>>

\* ProcessMsg calls the broker, and sends an ACK or, on an error, a NACK.  It
\* would panic on a broker connection that was not set up.
ProcessRequest ==
    /\ pc["recv"] = "process"
    /\ req \in {"sub", "unsb"} => bconn["ps"] # "nil"
    /\ Goto("recv", "send")
    /\ UNCHANGED <<given, req, states, bconn, chan, ws, once, closeErr, count>>

\* The Handler of cmd/juggler-server answers a call of its close URI with a
\* close frame and nothing else: receive goes on until the client is gone.
HandlerSaysBye ==
    /\ Command
    /\ pc["recv"] = "process" /\ req = "call"
    /\ Goto("recv", "loop")
    /\ UNCHANGED <<given, req, states, bconn, chan, ws, once, closeErr, count>>

\* A call of its panic URI panics: PanicRecover closes the Conn, and receive
\* goes on.
HandlerPanics ==
    /\ Command
    /\ pc["recv"] = "process" /\ req = "call"
    /\ Goto("recv", "closeLoop")
    /\ UNCHANGED <<given, req, states, bconn, chan, ws, once, closeErr, count>>

-----------------------------------------------------------------------------
(* The results and pubSub loops.                                           *)

\* A result or an event comes out of the channel of the broker connection.
\* Send goroutines that were waiting are served after it is closed.
StreamNext(s) ==
    /\ pc[s] = "loop"
    /\ chan[s] = "open"
    /\ count[s] < MaxMsgs
    /\ count' = [count EXCEPT ![s] = @ + 1]
    /\ Goto(s, "send")
    /\ UNCHANGED <<given, req, states, bconn, chan, ws, once, closeErr>>

\* The channel is closed: the loop ends and closes the Conn.
StreamEnds(s) ==
    /\ pc[s] = "loop"
    /\ chan[s] = "closed"
    /\ Goto(s, "close")
    /\ UNCHANGED <<given, req, states, bconn, chan, ws, once, closeErr, count>>

\* The broker closes the channel, because the broker connection is closed or
\* because it fails.
BrokerEnds(s) ==
    /\ bconn[s] # "nil"
    /\ pc[s] # "off"
    /\ chan[s] = "open"
    /\ chan' = [chan EXCEPT ![s] = "closed"]
    /\ UNCHANGED <<given, pc, req, states, bconn, ws, once, closeErr, count>>

-----------------------------------------------------------------------------
(* doWrite: any error closes the Conn, and the loop goes on.               *)

\* Also on a closed websocket: writeMsg ignores the error of the Close that
\* sends the message.
SendOK(g) ==
    /\ pc[g] = "send"
    /\ Goto(g, "loop")
    /\ UNCHANGED <<given, req, states, bconn, chan, ws, once, closeErr, count>>

SendFails(g) ==
    /\ pc[g] = "send"
    /\ Goto(g, "closeLoop")
    /\ UNCHANGED <<given, req, states, bconn, chan, ws, once, closeErr, count>>

\* The client goes away.
ClientGone ==
    /\ ws = "open"
    /\ ws' = "broken"
    /\ UNCHANGED <<given, pc, req, states, bconn, chan, once, closeErr, count>>

-----------------------------------------------------------------------------
Serve == \/ Accept \/ SetupResults \/ SetupPubSub \/ Connect \/ StartLoops
         \/ ServeReturns \/ UpgradeReturns

CloseOnce == ClosePsc \/ CloseResc \/ CloseKill

Receive == ReadFails \/ ProcessRequest \/ HandlerSaysBye \/ HandlerPanics

Next ==
    \/ Serve
    \/ \E g \in Goroutines : CloseEnter(g) \/ CloseReturns(g)
    \/ CloseOnce
    \/ AppClose
    \/ \E t \in RequestTypes : ReadRequest(t)
    \/ ReadInvalid
    \/ Receive
    \/ \E s \in Streams : StreamNext(s) \/ StreamEnds(s) \/ BrokerEnds(s)
    \/ \E g \in Loops : SendOK(g) \/ SendFails(g)
    \/ ClientGone

Safety == Init /\ [][Next]_vars

\* A goroutine that can go on does; a write returns, because the connection
\* has a write timeout or the network fails in the end; the channel of a
\* closed broker connection is closed.  Nothing makes the client send or go
\* away, a broker connection fail, or the application close the connection.
Fairness ==
    /\ WF_vars(Serve)
    /\ WF_vars(CloseOnce)
    /\ WF_vars(Receive)
    /\ \A g \in Goroutines : WF_vars(CloseEnter(g)) /\ WF_vars(CloseReturns(g))
    /\ \A g \in Loops : WF_vars(SendOK(g) \/ SendFails(g))
    /\ \A s \in Streams : WF_vars(StreamEnds(s)) /\ WF_vars(bconn[s] = "closed" /\ BrokerEnds(s))

Spec == Safety /\ Fairness

-----------------------------------------------------------------------------
(* Properties.                                                             *)

\* The callbacks are called in the order the comment of Server.ConnState
\* gives, Closed exactly once and last, and then CloseErr is set and every
\* goroutine sees c.kill closed.
CallbackOrder ==
    /\ states \in {<<>>, <<"Accepting">>, <<"Accepting", "Closed">>,
                   <<"Accepting", "Connected">>, <<"Accepting", "Connected", "Closed">>}
    /\ states # <<>> /\ states[Len(states)] = "Closed" => killed /\ closeErr # "nil"

\* CloseErr is the error of the first goroutine that called Close, and no
\* later one replaces it, however many loops fail at the same time.
CloseErrKept == [][closeErr # "nil" => closeErr' = closeErr]_vars

\* No broker connection outlives the Conn: when ServeConn returns, after a
\* failed setup or after the connection is closed, c.resc and c.psc are closed.
NoBrokerConnLeft ==
    pc["serve"] = "returned" => \A s \in Streams : bconn[s] # "open"

\* No goroutine uses a broker connection that ServeConn did not set up: the
\* loops it starts have theirs, and the types UnmarshalRequest accepts are
\* types it prepared for, if the list names a request type or is empty.
NoNilConn ==
    /\ \A s \in Streams : pc[s] # "off" => bconn[s] # "nil"
    /\ pc["recv"] = "process" /\ req \in {"sub", "unsb"} => bconn["ps"] # "nil"

\* The inductive invariant of the proofs.  How far ServeConn is determines the
\* callbacks, whenever the application closes the connection.
CallbackInv ==
    LET at == pc["serve"]
    IN  /\ at = "off" => states = <<>>
        /\ at \in {"setup", "resOK", "psOK", "close", "done"} => states = <<"Accepting">>
        /\ at \in {"connected", "waiting"} => states = <<"Accepting", "Connected">>
        /\ at = "returned" => states \in {<<"Accepting", "Closed">>,
                                          <<"Accepting", "Connected", "Closed">>}
        /\ at \in {"off", "setup", "resOK", "psOK", "connected", "waiting", "close", "done",
                   "returned"}
        /\ at \in {"done", "returned"} => killed

\* For an application that does not close a connection before the Connected
\* callback, it determines which goroutines run and whether a broker
\* connection can still be opened, and how far closeOnce is which are closed.
ServeInv ==
    LET at == pc["serve"]
    IN  /\ CallbackInv
        /\ \A g \in Loops : pc[g] # "off" => at \in {"waiting", "returned"}
        /\ pc["app"] # "off" => at \in {"connected", "waiting", "returned"}

CloseInv ==
    /\ once # "free" => /\ closeErr # "nil"
                        /\ pc["serve"] \in {"close", "done", "connected", "waiting", "returned"}
    /\ once \in {"resc", "kill", "done"} => bconn["ps"] # "open"
    /\ once \in {"kill", "done"} => bconn["res"] # "open"

IInv == TypeOK /\ ServeInv /\ CloseInv

\* Once the Conn is closed all its goroutines end and ServeConn returns: no
\* loop waits for a channel, for closeOnce or for the websocket for good.
AllEnd ==
    killed ~> /\ pc["serve"] = "returned"
              /\ \A g \in Loops : pc[g] \in {"off", "done"}

=============================================================================
