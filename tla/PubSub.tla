------------------------------- MODULE PubSub -------------------------------
(***************************************************************************)
(* Publish and subscribe through redis: the PUB, SUB and UNSB cases of     *)
(* ProcessMsg (handler.go), Broker.Publish and pubSubConn                  *)
(* (broker/redisbroker/pubsub.go).                                         *)
(*                                                                         *)
(* A pub-sub connection is used in both directions at once.  Subscribe and *)
(* Unsubscribe write a command and do not wait for redis: cmds are the     *)
(* commands that redis has not executed yet.  Redis sends an event to each *)
(* connection for each of its subscriptions that matches; the listen       *)
(* goroutine reads the events and starts a sendEvent goroutine for each,   *)
(* so that they reach the channel in any order, and the events in flight   *)
(* are a set.                                                              *)
(***************************************************************************)
EXTENDS Naturals, Sequences

CONSTANTS
    Pubs,      \* PUB requests; their message UUIDs are unique
    Conns,     \* pub-sub connections
    Channels,  \* names of channels
    Patterns,  \* patterns
    Covers,    \* the pairs of a pattern and a channel that match
    Foreign,   \* the Pubs of other programs, whose payloads are not a PubPayload
    MaxCmds    \* bound of the model: SUB and UNSB requests per connection

ASSUME NamesAssumption == Channels \cap Patterns = {} /\ Covers \subseteq Patterns \X Channels
ASSUME ForeignAssumption == Foreign \subseteq Pubs
ASSUME BoundAssumption == MaxCmds \in Nat

VARIABLES
    answer,    \* how each PUB was answered
    target,    \* who got each event from redis: connection and subscription (history)
    cmds,      \* commands written on each connection and not executed
    subs,      \* the subscriptions of each connection in redis
    acked,     \* the subscriptions that ACKs told the client it has (history)
    count,     \* SUB and UNSB requests of each connection
    open,      \* can the broker still use each connection?
    alive,     \* does redis still know each connection?
    out,       \* events redis sent and listen has not read
    loop,      \* where the listen goroutine of each connection stands
    sending,   \* events whose sendEvent goroutine has not returned
    received   \* events received from each channel, in order (history)

pubVars == <<answer, target>>
subVars == <<acked, count>>
listenVars == <<loop, sending, received>>
vars == <<pubVars, cmds, subs, subVars, open, alive, out, listenVars>>

Filters == Channels \cup Patterns
Events == Pubs \X Filters
Commands == {"sub", "unsub"} \X Filters

TypeOK ==
    /\ answer \in [Pubs -> {"none", "ack", "nack"}]
    /\ target \in [Pubs -> SUBSET (Conns \X Filters)]
    /\ cmds \in [Conns -> Seq(Commands)]
    /\ subs \in [Conns -> SUBSET Filters]
    /\ acked \in [Conns -> SUBSET Filters]
    /\ count \in [Conns -> 0..MaxCmds]
    /\ open \in [Conns -> BOOLEAN]
    /\ alive \in [Conns -> BOOLEAN]
    /\ out \in [Conns -> SUBSET Events]
    /\ loop \in [Conns -> {"new", "listening", "waiting", "closed"}]
    /\ sending \in [Conns -> SUBSET Events]
    /\ received \in [Conns -> Seq(Events)]

Init ==
    /\ answer = [m \in Pubs |-> "none"]
    /\ target = [m \in Pubs |-> {}]
    /\ cmds = [k \in Conns |-> <<>>]
    /\ subs = [k \in Conns |-> {}]
    /\ acked = [k \in Conns |-> {}]
    /\ count = [k \in Conns |-> 0]
    /\ open = [k \in Conns |-> TRUE]
    /\ alive = [k \in Conns |-> TRUE]
    /\ out = [k \in Conns |-> {}]
    /\ loop = [k \in Conns |-> "new"]
    /\ sending = [k \in Conns |-> {}]
    /\ received = [k \in Conns |-> <<>>]

-----------------------------------------------------------------------------
(* SUB and UNSB.                                                           *)

\* Mutant of Command: PSUBSCRIBE is used for patterns in both cases.
Command_PSubscribe(sub, f) == <<IF sub \/ f \in Patterns THEN "sub" ELSE "unsub", f>>

\* The command that a request writes: SUBSCRIBE or PSUBSCRIBE, UNSUBSCRIBE or
\* PUNSUBSCRIBE.
Command(sub, f) == <<IF sub THEN "sub" ELSE "unsub", f>>

\* subUnsub writes a command, under wmu, and returns.
SubUnsub(k, sub, f) ==
    /\ open[k]
    /\ cmds' = [cmds EXCEPT ![k] = Append(@, Command(sub, f))]

\* The command cannot be written: the connection is lost, if it was not
\* before.  Redis may have got the command all the same.
SubUnsubFails(k, sub, f) ==
    /\ open' = [open EXCEPT ![k] = FALSE]
    /\ \/ UNCHANGED cmds
       \/ open[k] /\ cmds' = [cmds EXCEPT ![k] = Append(@, Command(sub, f))]

\* The SUB and UNSB cases of ProcessMsg: an ACK, or a NACK for an error.
ProcessSub(k, f) ==
    /\ count[k] < MaxCmds
    /\ count' = [count EXCEPT ![k] = @ + 1]
    /\ \/ /\ SubUnsub(k, TRUE, f)
          /\ acked' = [acked EXCEPT ![k] = @ \cup {f}]
          /\ UNCHANGED open
       \/ /\ SubUnsubFails(k, TRUE, f)
          /\ UNCHANGED acked
    /\ UNCHANGED <<pubVars, subs, alive, out, listenVars>>

ProcessUnsb(k, f) ==
    /\ count[k] < MaxCmds
    /\ count' = [count EXCEPT ![k] = @ + 1]
    /\ \/ /\ SubUnsub(k, FALSE, f)
          /\ acked' = [acked EXCEPT ![k] = @ \ {f}]
          /\ UNCHANGED open
       \/ /\ SubUnsubFails(k, FALSE, f)
          /\ UNCHANGED acked
    /\ UNCHANGED <<pubVars, subs, alive, out, listenVars>>

-----------------------------------------------------------------------------
(* PUB.                                                                    *)

Matching(k, c) == {f \in subs[k] : f = c \/ <<f, c>> \in Covers}

\* PUBLISH in redis: an event per connection and matching subscription.
Publish(m, c) ==
    /\ target' = [target EXCEPT ![m] = {kf \in Conns \X Filters : kf[2] \in Matching(kf[1], c)}]
    /\ out' = [k \in Conns |-> out[k] \cup ({m} \X Matching(k, c))]

\* The PUB case of ProcessMsg.  The answer is a NACK when Publish fails: then
\* redis may have run the command or not.
ProcessPub(m, c) ==
    /\ answer[m] = "none"
    /\ \/ Publish(m, c) /\ answer' = [answer EXCEPT ![m] = "ack"]
       \/ Publish(m, c) /\ answer' = [answer EXCEPT ![m] = "nack"]
       \/ UNCHANGED <<target, out>> /\ answer' = [answer EXCEPT ![m] = "nack"]
    /\ UNCHANGED <<cmds, subs, subVars, open, alive, listenVars>>

-----------------------------------------------------------------------------
(* Redis.                                                                  *)

\* The effect of a command on a set of subscriptions.
Apply(cmd, s) == IF cmd[1] = "sub" THEN s \cup {cmd[2]} ELSE s \ {cmd[2]}

\* Redis executes the commands of a connection in order.
RedisExecutes(k) ==
    /\ alive[k]
    /\ cmds[k] # <<>>
    /\ subs' = [subs EXCEPT ![k] = Apply(Head(cmds[k]), @)]
    /\ cmds' = [cmds EXCEPT ![k] = Tail(@)]
    /\ UNCHANGED <<pubVars, subVars, open, alive, out, listenVars>>

\* Redis finds out that the connection is closed, or closes it itself.
RedisDrops(k) ==
    /\ alive[k]
    /\ alive' = [alive EXCEPT ![k] = FALSE]
    /\ subs' = [subs EXCEPT ![k] = {}]
    /\ UNCHANGED <<pubVars, cmds, subVars, open, out, listenVars>>

-----------------------------------------------------------------------------
(* The events: Events, listen, sendEvent, Close.                           *)

\* The first call of Events starts listen.
StartListen(k) ==
    /\ loop[k] = "new"
    /\ loop' = [loop EXCEPT ![k] = "listening"]
    /\ UNCHANGED <<pubVars, cmds, subs, subVars, open, alive, out, sending, received>>

\* Mutant of Receive: the case of redis.PMessage is missing.
Receive_NoPMessage(k, e) ==
    /\ loop[k] = "listening"
    /\ e \in out[k]
    /\ out' = [out EXCEPT ![k] = @ \ {e}]
    /\ sending' = [sending EXCEPT ![k] = IF e[2] \in Patterns THEN @ ELSE @ \cup {e}]
    /\ UNCHANGED <<pubVars, cmds, subs, subVars, open, alive, loop, received>>

\* Receive returns a Message or a PMessage.  What is buffered can be read
\* after the connection is closed.  A Subscription, the confirmation of a
\* command, is skipped, and not modelled.
Receive(k, e) ==
    /\ loop[k] = "listening"
    /\ e \in out[k]
    /\ out' = [out EXCEPT ![k] = @ \ {e}]
    /\ sending' = [sending EXCEPT ![k] = @ \cup {e}]
    /\ UNCHANGED <<pubVars, cmds, subs, subVars, open, alive, loop, received>>

\* Mutant of ReceiveFails: listen goes on after an error.
ReceiveFails_Continues(k) ==
    /\ loop[k] = "listening"
    /\ open' = [open EXCEPT ![k] = FALSE]
    /\ UNCHANGED <<pubVars, cmds, subs, subVars, alive, out, listenVars>>

\* Receive returns an error: listen stores it and waits for the goroutines it
\* started.
ReceiveFails(k) ==
    /\ loop[k] = "listening"
    /\ loop' = [loop EXCEPT ![k] = "waiting"]
    /\ open' = [open EXCEPT ![k] = FALSE]
    /\ UNCHANGED <<pubVars, cmds, subs, subVars, alive, out, sending, received>>

\* Mutant of CloseEvents: the wait for the sendEvent goroutines is missing.
CloseEvents_NoWait(k) ==
    /\ loop[k] = "waiting"
    /\ loop' = [loop EXCEPT ![k] = "closed"]
    /\ UNCHANGED <<pubVars, cmds, subs, subVars, open, alive, out, sending, received>>

\* wg.Wait returns and the channel is closed.
CloseEvents(k) ==
    /\ loop[k] = "waiting"
    /\ sending[k] = {}
    /\ loop' = [loop EXCEPT ![k] = "closed"]
    /\ UNCHANGED <<pubVars, cmds, subs, subVars, open, alive, out, sending, received>>

\* Mutant of SendEvent: the goroutine uses the variable of the loop, which
\* may hold another event by then.
SendEvent_Captures(k, e) ==
    /\ e \in sending[k]
    /\ sending' = [sending EXCEPT ![k] = @ \ {e}]
    /\ \E d \in sending[k] : received' = [received EXCEPT ![k] = Append(@, d)]
    /\ UNCHANGED <<pubVars, cmds, subs, subVars, open, alive, out, loop>>

\* The send of sendEvent meets a receive of the pubSub loop.
SendEvent(k, e) ==
    /\ e \in sending[k]
    /\ e[1] \notin Foreign
    /\ sending' = [sending EXCEPT ![k] = @ \ {e}]
    /\ received' = [received EXCEPT ![k] = Append(@, e)]
    /\ UNCHANGED <<pubVars, cmds, subs, subVars, open, alive, out, loop>>

\* newEvntPayload fails: the event is dropped.
SendEventFails(k, e) ==
    /\ e \in sending[k]
    /\ e[1] \in Foreign
    /\ sending' = [sending EXCEPT ![k] = @ \ {e}]
    /\ UNCHANGED <<pubVars, cmds, subs, subVars, open, alive, out, loop, received>>

\* Close closes the redis connection.
Close(k) ==
    /\ open[k]
    /\ open' = [open EXCEPT ![k] = FALSE]
    /\ UNCHANGED <<pubVars, cmds, subs, subVars, alive, out, listenVars>>

-----------------------------------------------------------------------------
Next ==
    \/ \E k \in Conns, f \in Filters : ProcessSub(k, f) \/ ProcessUnsb(k, f)
    \/ \E m \in Pubs, c \in Channels : ProcessPub(m, c)
    \/ \E k \in Conns :
        \/ RedisExecutes(k) \/ RedisDrops(k) \/ StartListen(k) \/ ReceiveFails(k)
        \/ CloseEvents(k) \/ Close(k)
        \/ \E e \in Events : Receive(k, e) \/ SendEvent(k, e) \/ SendEventFails(k, e)

Safety == Init /\ [][Next]_vars

\* Redis executes what it is sent, goroutines run, and the pubSub loop ranges
\* over the channel until it is closed.  Receive fails on a connection that
\* either side closed.
Fairness ==
    \A k \in Conns :
        /\ WF_vars(RedisExecutes(k))
        /\ WF_vars(\E e \in Events : Receive(k, e))
        /\ WF_vars((~open[k] \/ ~alive[k]) /\ ReceiveFails(k))
        /\ WF_vars(CloseEvents(k))
        /\ \A e \in Events : WF_vars(SendEvent(k, e) \/ SendEventFails(k, e))

Spec == Safety /\ Fairness

-----------------------------------------------------------------------------
(* Properties.                                                             *)

\* The subscriptions that redis will have when it has executed the commands
\* that are on their way: the last command about a name decides.
PendingSubs(k) ==
    {f \in Filters :
        \/ \E n \in 1..Len(cmds[k]) :
              cmds[k][n] = <<"sub", f>> /\ \A p \in (n + 1)..Len(cmds[k]) : cmds[k][p][2] # f
        \/ f \in subs[k] /\ \A p \in 1..Len(cmds[k]) : cmds[k][p][2] # f}

\* While a connection works, redis ends up with the subscriptions that the
\* ACKs of SUB and UNSB announced, in whatever order and however often a
\* client subscribes and unsubscribes, also when a command is still on its
\* way when the next one is written.
AckedTakesEffect == \A k \in Conns : open[k] /\ alive[k] => PendingSubs(k) = acked[k]

\* The pubSub loop receives an event at most once for each subscription of
\* the connection that matched when it was published, and no other event:
\* listen and the sendEvent goroutines neither repeat nor exchange events.
EventOnce ==
    \A k \in Conns :
        /\ \A n \in 1..Len(received[k]) :
              LET e == received[k][n]
              IN  <<k, e[2]>> \in target[e[1]] /\ e[1] \notin Foreign
        /\ \A m, n \in 1..Len(received[k]) : received[k][m] = received[k][n] => m = n

\* No sendEvent goroutine is left when the channel is closed, so none panics
\* with a send on a closed channel: listen waits for them.
NoSendOnClosed == \A k \in Conns : loop[k] = "closed" => sending[k] = {}

\* What EventOnce needs besides: an event is in flight only for a subscription
\* it was published to, and is at one place only.
InFlightOnce ==
    \A k \in Conns, e \in Events : e \in out[k] \cup sending[k] =>
        /\ <<k, e[2]>> \in target[e[1]]
        /\ ~(e \in out[k] /\ e \in sending[k])
        /\ \A n \in 1..Len(received[k]) : received[k][n] # e

NotYetPublished == \A m \in Pubs : answer[m] = "none" => target[m] = {}

\* The inductive invariant of the properties above.
IInv ==
    /\ TypeOK
    /\ AckedTakesEffect
    /\ EventOnce
    /\ NoSendOnClosed
    /\ InFlightOnce
    /\ NotYetPublished

\* An event that redis sent to a connection comes out of its channel, unless
\* its listen goroutine was never started or the connection fails.
EventsArrive ==
    \A m \in Pubs \ Foreign, k \in Conns, f \in Filters :
        <<k, f>> \in target[m] ~> \/ \E n \in 1..Len(received[k]) : received[k][n] = <<m, f>>
                                 \/ loop[k] # "listening"

\* Once the connection is closed, or redis dropped it, the channel is closed
\* and the pubSub loop ends.
EventsEnd ==
    \A k \in Conns : ((~open[k] \/ ~alive[k]) /\ loop[k] # "new") ~> loop[k] = "closed"

=============================================================================
