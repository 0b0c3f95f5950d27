-------------------------------- MODULE Load --------------------------------
(***************************************************************************)
(* The load generator (cmd/juggler-load/main.go): runClient makes calls    *)
(* with a client of package client, counts its answers and waits for them, *)
(* and main starts it, stops it and collects its latencies.  This module   *)
(* extends Client: every step of it is a step of the client, or leaves the *)
(* client alone.  One connection is modelled; the others of a run share    *)
(* with it only the counters of the report.                                *)
(*                                                                         *)
(* The goroutines are main, its watchdog, runClient, those of the client,  *)
(* and the handler goroutines, which run the Handler that runClient sets.  *)
(* A counter of the report is the number of messages of its type that are  *)
(* in handled, and Calls the number of calls that are not idle.  The       *)
(* latencies are left out.                                                 *)
(***************************************************************************)
EXTENDS Client, Integers

CONSTANT Runner  \* the goroutine of runClient, which closes the client

ASSUME OneClient == Others = {} /\ Closers = {Runner}

VARIABLES
    negative,    \* is stats.Rate negative?
    main,        \* where the program stands, or how it ended
    loop,        \* where runClient stands
    next,        \* the number of values in the channel next, of capacity one
    wgResults,   \* the counter of the WaitGroup
    finishing    \* messages whose handler goroutine has not come to its end

loadVars == <<negative, main, loop, next, wgResults, finishing>>
lvars == <<vars, loadVars>>

LoadTypeOK ==
    /\ negative \in BOOLEAN
    /\ main \in {"starting", "running", "stopping", "done", "fatal", "panic"}
    /\ loop \in {"starting", "select", "calling", "waiting", "closing", "sending", "returned"}
    /\ next \in 0..1
    /\ wgResults \in Int
    /\ finishing \subseteq handled

\* Dial has returned; if it fails the program ends there.
LoadInit ==
    /\ Init
    /\ negative \in BOOLEAN
    /\ main = "starting"
    /\ loop = "starting"
    /\ next = IF negative THEN 1 ELSE 0
    /\ wgResults = 0
    /\ finishing = {}

\* The process runs until main returns, log.Fatalf exits or a panic ends it.
alive == main \in {"starting", "running", "stopping"}

Made(c) == reqState[c] # "idle"

-----------------------------------------------------------------------------
(* The goroutines main and its watchdog.                                   *)

\* The client is dialed, and main receives from clientStarted.
Started ==
    /\ main = "starting" /\ loop = "starting"
    /\ main' = "running" /\ loop' = "select"
    /\ UNCHANGED <<vars, negative, next, wgResults, finishing>>

\* The duration is over: close(stop).
Stop ==
    /\ main = "running"
    /\ main' = "stopping"
    /\ UNCHANGED <<vars, negative, loop, next, wgResults, finishing>>

\* main receives the latencies, closes done and prints the report.
Collect ==
    /\ main = "stopping" /\ loop = "sending"
    /\ main' = "done" /\ loop' = "returned"
    /\ UNCHANGED <<vars, negative, next, wgResults, finishing>>

\* "failed to stop clients"
Watchdog ==
    /\ main = "stopping"
    /\ main' = "fatal"
    /\ UNCHANGED <<vars, negative, loop, next, wgResults, finishing>>

-----------------------------------------------------------------------------
(* runClient.                                                              *)

\* Mutant of BeginCall: the value stays in the channel next.
BeginCall_KeepsNext(c) ==
    /\ loop = "select"
    /\ negative => next = 1
    /\ CheckErr(c)
    /\ wgResults' = wgResults + 1
    /\ IF err = "none" THEN loop' = "calling" /\ UNCHANGED main
                       ELSE main' = "fatal" /\ UNCHANGED loop
    /\ UNCHANGED <<negative, next, finishing>>

\* The select takes a value of next, or the timer of a rate fires, and a call
\* begins.  It may, even when stop is closed too.
BeginCall(c) ==
    /\ loop = "select"
    /\ negative => next = 1
    /\ next' = 0
    /\ CheckErr(c)
    /\ wgResults' = wgResults + 1
    /\ IF err = "none" THEN loop' = "calling" /\ UNCHANGED main
                       ELSE main' = "fatal" /\ UNCHANGED loop
    /\ UNCHANGED <<negative, finishing>>

CallWritten(c) == WriteOK(c) /\ UNCHANGED loadVars

\* Call returns its UUID, and runClient is back at the select.
CallReturns(c) ==
    /\ AddPending(c)
    /\ loop' = "select"
    /\ UNCHANGED <<negative, main, next, wgResults, finishing>>

\* "Call failed"
CallFails(c) ==
    /\ WriteRefused(c) \/ WriteFails(c)
    /\ main' = "fatal"
    /\ UNCHANGED <<negative, loop, next, wgResults, finishing>>

\* The select takes the branch of stop.
BreakLoop ==
    /\ loop = "select"
    /\ main = "stopping"
    /\ loop' = "waiting"
    /\ UNCHANGED <<vars, negative, main, next, wgResults, finishing>>

\* wgResults.Wait returns, and Close is called.
WaitReturns ==
    /\ loop = "waiting"
    /\ wgResults = 0
    /\ loop' = "closing"
    /\ CloseEnter(Runner)
    /\ UNCHANGED <<negative, main, next, wgResults, finishing>>

Closing == CloseConn(Runner) /\ UNCHANGED loadVars

\* Close returns the error the client had, or the one of the connection: any
\* error is fatal.
CloseReturned ==
    /\ CloseReturn(Runner)
    /\ IF saved[Runner] = "none" /\ err2[Runner] = "none"
         THEN loop' = "sending" /\ UNCHANGED main
         ELSE main' = "fatal" /\ UNCHANGED loop
    /\ UNCHANGED <<negative, next, wgResults, finishing>>

-----------------------------------------------------------------------------
(* The Handler.                                                            *)

\* Mutant of Final: there is no return after an ACK.
Final_Ack(m) == TRUE

\* Mutant of Final: the handler returns after a NACK too.
Final_NotNack(m) == m[1] \in {"RES", "EXP"}

\* An ACK returns, every other message counts as the end of its call.
Final(m) == m[1] # "ACK"

\* Mutant of Refills: a NACK lets the next call begin.
Refills_Nack(m) == negative /\ Final(m)

\* With a negative rate, a RES or an EXP lets the next call begin; a NACK
\* does not.
Refills(m) == negative /\ m[1] \in {"RES", "EXP"}

\* The handler goroutine of a message counts it.
HandlerRuns(m) ==
    /\ Handle(m)
    /\ finishing' = IF Final(m) THEN finishing \cup {m} ELSE finishing
    /\ UNCHANGED <<negative, main, loop, next, wgResults>>

\* It sends on next, for which it needs room, and calls wgResults.Done, which
\* panics below zero.
HandlerEnds(m) ==
    /\ m \in finishing
    /\ finishing' = finishing \ {m}
    /\ IF Refills(m) THEN next = 0 /\ next' = 1 ELSE UNCHANGED next
    /\ wgResults' = wgResults - 1
    /\ main' = IF wgResults = 0 THEN "panic" ELSE main
    /\ UNCHANGED <<vars, negative, loop>>

-----------------------------------------------------------------------------
\* The goroutines of the client.
ClientRuns ==
    /\ \/ \E c \in Calls : TimerStops(c) \/ TimerFires(c) \/ Expire(c)
       \/ \E m \in ServerMsgs : HandleMessage(m)
       \/ ReadError \/ CloseStop
    /\ UNCHANGED loadVars

\* The server and the network.
Environment == ((\E m \in ServerMsgs : ServerSends(m)) \/ ConnBreaks) /\ UNCHANGED loadVars

RunClient ==
    \/ Started \/ BreakLoop \/ WaitReturns \/ Closing \/ CloseReturned \/ Collect
    \/ \E c \in Calls : BeginCall(c) \/ CallWritten(c) \/ CallReturns(c) \/ CallFails(c)

Handlers == \E m \in Msgs : HandlerRuns(m) \/ HandlerEnds(m)

LoadNext == alive /\ (RunClient \/ Stop \/ Watchdog \/ Handlers \/ ClientRuns \/ Environment)

LoadSafety == LoadInit /\ [][LoadNext]_lvars

\* While the process runs its goroutines do, timers fire and the duration of
\* the run passes.  They all come to an end, so that it is enough that some
\* goroutine that can go on does.  Nothing makes the server answer, the
\* network fail or the watchdog fire.
LoadFairness == WF_lvars(alive /\ (RunClient \/ Stop \/ Handlers \/ ClientRuns))

LoadSpec == LoadSafety /\ LoadFairness

-----------------------------------------------------------------------------
(* Properties.                                                             *)

\* A handler goroutine never waits for room in the channel next, so it comes
\* to its wgResults.Done: there is one value for all the calls, which a call
\* takes along and which comes back with its RES or its EXP.  It rests on
\* NeverBoth of the client, and on a NACK not sending a value: a NACK can
\* follow an EXP of the same call.
NextHasRoom ==
    \A m \in finishing : Refills(m) =>
        next = 0 /\ \A n \in finishing : Refills(n) => n = m

\* The value that call c took from next has not come back.
Owes(c) == Made(c) /\ \A t \in {"RES", "EXP"} : <<t, c>> \notin handled \ finishing

\* What keeps NextHasRoom and OneAtATime inductive: either the value is in the
\* channel, or one call owes it.
OneToken ==
    negative => /\ \A c, d \in Calls : Owes(c) /\ Owes(d) => c = d
                /\ next = 1 => \A c \in Calls : ~Owes(c)

\* The comment of runClient on a negative rate, "send another message once the
\* previous response is received (or expired)": no call begins before every
\* call made has its RES or its EXP.
OneAtATime ==
    [][\A c, d \in Calls :
        negative /\ ~Made(c) /\ Made(c)' /\ Made(d) =>
            \E t \in {"RES", "EXP"} : <<t, d>> \in handled]_lvars

\* Call c came to an end twice: an EXP and a NACK, or a RES and a NACK, were
\* both handed to the Handler.
EndedTwice(c) == <<"NACK", c>> \in handled /\ \E t \in {"RES", "EXP"} : <<t, c>> \in handled

\* The comment of runClient on wgResults.Wait, "wait for sent calls to return
\* or expire": when it closes the client every call it made has its RES, EXP
\* or NACK, unless some call came to an end twice, which the WaitGroup counts
\* as the end of two calls.  And wgResults.Done panics only then: it is called
\* at most once for every wgResults.Add.
WaitsForCalls ==
    /\ loop \in {"closing", "sending", "returned"} =>
          \/ \A c \in Calls : Made(c) => \E t \in {"RES", "EXP", "NACK"} : <<t, c>> \in handled
          \/ \E c \in Calls : EndedTwice(c)
    /\ main = "panic" => \E c \in Calls : EndedTwice(c)

\* The program comes to its end: the duration passes, runClient leaves its
\* loop and its wait and closes the client, and the report is printed, or an
\* error is fatal.  The one exception is a connection that breaks before
\* runClient closes the client: then the timers of the client stop, calls are
\* left without an end, and only the watchdog ends the wait.
StopEnds == <>(~alive) \/ <>[](stopped /\ loop = "waiting")

=============================================================================
