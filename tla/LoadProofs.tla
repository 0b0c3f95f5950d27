----------------------------- MODULE LoadProofs -----------------------------
(***************************************************************************)
(* Proofs about Load, for any number of calls.  Every step of the load     *)
(* generator is a step of its client, so that the invariant of             *)
(* ClientProofs holds of it.                                               *)
(***************************************************************************)
EXTENDS Load, ClientProofs, FiniteSetTheorems, TLAPS

-----------------------------------------------------------------------------
(* The client.                                                             *)

\* Every step of the program is a step of the client, or leaves it alone.
LEMMA LoadStep == ASSUME [LoadNext]_lvars PROVE [Next]_vars
<1>1. Runner \in Closers /\ Calls \subseteq Requests
  BY OneClient DEF Requests
<1>2. CASE Started \/ BreakLoop \/ Collect \/ Stop \/ Watchdog
  BY <1>2 DEF Started, BreakLoop, Collect, Stop, Watchdog
<1>3. CASE WaitReturns \/ Closing \/ CloseReturned
  BY <1>1, <1>3 DEF WaitReturns, Closing, CloseReturned, Next
<1>4. ASSUME NEW c \in Calls, BeginCall(c) \/ CallWritten(c) \/ CallReturns(c) \/ CallFails(c)
      PROVE  Next
  BY <1>1, <1>4 DEF BeginCall, CallWritten, CallReturns, CallFails, Next
<1>5. ASSUME NEW m \in Msgs, HandlerRuns(m) \/ HandlerEnds(m) PROVE [Next]_vars
  BY <1>5 DEF HandlerRuns, HandlerEnds, Next
<1>6. CASE ClientRuns \/ Environment
  BY <1>6 DEF ClientRuns, Environment, Next
<1>7. CASE UNCHANGED lvars
  BY <1>7 DEF lvars
<1>. QED  BY <1>2, <1>3, <1>4, <1>5, <1>6, <1>7 DEF LoadNext, RunClient, Handlers

\* Where a message is: the server sends it once, for a request it got, and it
\* is either not read yet, or about to be handled, or handled.
FlightInv ==
    /\ inbox \cap (spawned \cup handled) = {}
    /\ spawned \cap handled = {}
    /\ \A m \in spawned \cup handled : m[1] # "EXP" => m \in sent
    /\ \A m \in sent : m[2] \in wire
    /\ \A r \in wire : reqState[r] # "idle"

\* A message of the server is a pair and is not an EXP.
LEMMA ServerPairs ==
    ASSUME NEW m \in ServerMsgs
    PROVE  m = <<m[1], m[2]>> /\ m[1] # "EXP" /\ m[2] \in Requests
BY KindsAssumption DEF ServerMsgs, Requests

\* Every step of the client keeps a message in one place.
LEMMA NextFlight == ASSUME IInv, FlightInv, [Next]_vars PROVE FlightInv'
<1> USE DEF connVars, closeVars, msgVars
<1>0. TypeOK /\ ResolvedNotPending
  BY DEF IInv
<1>1. ASSUME NEW r \in Requests, CheckErr(r) \/ WriteOK(r) \/ WriteRefused(r) \/ WriteFails(r)
      PROVE  FlightInv'
  BY <1>0, <1>1 DEF CheckErr, WriteOK, WriteRefused, WriteFails, FlightInv, TypeOK
<1>2. ASSUME NEW c \in Calls, AddPending(c) \/ TimerStops(c) \/ TimerFires(c) PROVE FlightInv'
  BY <1>0, <1>2 DEF AddPending, TimerStops, TimerFires, FlightInv, TypeOK, Requests
<1>3. ASSUME NEW c \in Calls, Expire(c) PROVE FlightInv'
  <2>1. <<"EXP", c>> \notin inbox
    BY <1>0, ServerPairs DEF TypeOK
  <2>2. c \in results => <<"EXP", c>> \notin handled
    BY Zenon, <1>0 DEF ResolvedNotPending, Got
  <2>. QED  BY <1>3, <2>1, <2>2 DEF Expire, FlightInv
<1>4. ASSUME NEW m \in ServerMsgs, HandleMessage(m) PROVE FlightInv'
  <2>1. m = <<m[1], m[2]>>
    BY ServerPairs
  <2>2. /\ m \in inbox /\ inbox' = inbox \ {m} /\ UNCHANGED <<sent, wire, reqState, handled>>
        /\ spawned' = spawned \/ spawned' = spawned \cup {m}
    BY <1>4, <2>1 DEF HandleMessage, ReadRes, ReadNack, ReadAny, ReadBad
  <2>. QED  BY <1>0, <2>2 DEF FlightInv, TypeOK
<1>5. ASSUME NEW m \in ServerMsgs, ServerSends(m) PROVE FlightInv'
  <2>1. m \notin spawned \cup handled
    BY <1>5, ServerPairs DEF ServerSends, FlightInv
  <2>. QED  BY <1>5, <2>1 DEF ServerSends, FlightInv
<1>6. ASSUME NEW m \in Msgs, Handle(m) PROVE FlightInv'
  BY <1>6 DEF Handle, FlightInv
<1>7. CASE ReadError \/ CloseStop \/ ConnBreaks
  BY <1>7 DEF ReadError, CloseStop, ConnBreaks, FlightInv
<1>8. ASSUME NEW k \in Closers, CloseEnter(k) \/ CloseConn(k) \/ CloseReturn(k) PROVE FlightInv'
  BY <1>8 DEF CloseEnter, CloseConn, CloseReturn, FlightInv
<1>9. CASE UNCHANGED vars
  BY <1>9 DEF vars, FlightInv
<1>. QED  BY <1>1, <1>2, <1>3, <1>4, <1>5, <1>6, <1>7, <1>8, <1>9 DEF Next

-----------------------------------------------------------------------------
(* The steps of the program.                                               *)

Ending == loop \in {"closing", "sending", "returned"}

InCall(c) == reqState[c] \in {"checked", "written"}

\* runClient is in one call at a time, and in none when it closes the client.
RunnerInv ==
    /\ \A c \in Calls : InCall(c) => loop = "calling"
    /\ \A c, d \in Calls : InCall(c) /\ InCall(d) => c = d
    /\ closer[Runner] # "idle" => Ending

\* What a step does that neither begins a call nor runs a handler.
Quiet ==
    /\ UNCHANGED <<negative, handled, finishing, next, wgResults>>
    /\ \A c \in Calls : Made(c)' <=> Made(c)
    /\ Ending' => Ending \/ wgResults = 0
    /\ main' = "panic" => main = "panic"

\* The steps that change what the program counts, and the others.
LEMMA LoadEffect ==
    ASSUME TypeOK, RunnerInv, [LoadNext]_lvars
    PROVE  /\ RunnerInv'
           /\ \/ Quiet
              \/ \E c \in Calls : BeginCall(c)
              \/ \E m \in Msgs : HandlerRuns(m) \/ HandlerEnds(m)
<1> USE DEF loadVars, closeVars, msgVars, connVars
<1>0. /\ reqState \in [Requests -> {"idle", "checked", "written", "returned", "failed"}]
      /\ Calls \subseteq Requests
      /\ closer \in [Closers -> {"idle", "entered", "closed", "returned"}] /\ Closers = {Runner}
  BY OneClient DEF TypeOK, Requests
<1>1. ASSUME Started \/ BreakLoop \/ Collect \/ Stop \/ Watchdog PROVE Quiet /\ RunnerInv'
  BY <1>1 DEF Started, BreakLoop, Collect, Stop, Watchdog, Quiet, Ending, Made, vars, RunnerInv, InCall
<1>2. ASSUME WaitReturns PROVE Quiet /\ RunnerInv'
  BY <1>0, <1>2 DEF WaitReturns, CloseEnter, Quiet, Ending, Made, RunnerInv, InCall
<1>3. ASSUME Closing PROVE Quiet /\ RunnerInv'
  BY <1>0, <1>3 DEF Closing, CloseConn, Quiet, Ending, Made, RunnerInv, InCall
<1>4. ASSUME CloseReturned PROVE Quiet /\ RunnerInv'
  <2>1. Ending /\ Ending' /\ \A c \in Calls : ~InCall(c)
    BY <1>4 DEF CloseReturned, CloseReturn, Ending, RunnerInv
  <2>. QED  BY <1>4, <2>1 DEF CloseReturned, CloseReturn, Quiet, Made, RunnerInv, InCall
<1>5. ASSUME NEW c \in Calls, CallWritten(c) PROVE Quiet /\ RunnerInv'
  BY <1>0, <1>5 DEF CallWritten, WriteOK, Quiet, Ending, Made, RunnerInv, InCall
<1>6. ASSUME NEW c \in Calls, CallReturns(c) PROVE Quiet /\ RunnerInv'
  <2>1. InCall(c) /\ ~InCall(c)'
    BY <1>0, <1>6 DEF CallReturns, AddPending, InCall
  <2>2. \A d \in Calls : ~InCall(d)'
    BY <1>0, <1>6, <2>1 DEF CallReturns, AddPending, InCall, RunnerInv
  <2>3. closer' = closer /\ closer[Runner] = "idle" /\ loop' = "select"
    BY <1>6, <2>1 DEF CallReturns, AddPending, RunnerInv, Ending
  <2>4. RunnerInv'
    BY <2>2, <2>3 DEF RunnerInv
  <2>5. Quiet
    BY <1>0, <1>6, <2>3 DEF CallReturns, AddPending, Quiet, Ending, Made
  <2>. QED  BY <2>4, <2>5
<1>7. ASSUME NEW c \in Calls, CallFails(c) PROVE Quiet /\ RunnerInv'
  BY <1>0, <1>7 DEF CallFails, WriteRefused, WriteFails, Quiet, Ending, Made, RunnerInv, InCall
<1>8. ASSUME ClientRuns PROVE Quiet /\ RunnerInv'
  <2>1. UNCHANGED <<reqState, closer, handled, loadVars>>
    BY <1>8 DEF ClientRuns, TimerStops, TimerFires, Expire, HandleMessage, ReadError, CloseStop
  <2>. QED  BY <2>1 DEF Quiet, Ending, Made, RunnerInv, InCall
<1>9. ASSUME Environment PROVE Quiet /\ RunnerInv'
  <2>1. UNCHANGED <<reqState, closer, handled, loadVars>>
    BY Zenon, <1>9 DEF Environment, ServerSends, ConnBreaks
  <2>. QED  BY <2>1 DEF Quiet, Ending, Made, RunnerInv, InCall
<1>10. ASSUME NEW c \in Calls, BeginCall(c) PROVE RunnerInv'
  <2>1. /\ \A d \in Calls : ~InCall(d)
        /\ \A d \in Calls : InCall(d)' => d = c /\ loop' = "calling"
        /\ closer[Runner] = "idle" /\ closer' = closer
    BY <1>0, <1>10 DEF BeginCall, CheckErr, RunnerInv, InCall, Ending
  <2>. QED  BY <2>1 DEF RunnerInv
<1>11. ASSUME NEW m \in Msgs, HandlerRuns(m) \/ HandlerEnds(m) PROVE RunnerInv'
  BY <1>11 DEF HandlerRuns, HandlerEnds, Handle, vars, RunnerInv, InCall, Ending
<1>12. ASSUME UNCHANGED lvars PROVE Quiet /\ RunnerInv'
  BY <1>12 DEF lvars, vars, Quiet, Ending, Made, RunnerInv, InCall
<1>. QED
  BY <1>1, <1>2, <1>3, <1>4, <1>5, <1>6, <1>7, <1>8, <1>9, <1>10, <1>11, <1>12
  DEF LoadNext, RunClient, Handlers

\* What the Handler receives is about a call that was made.
LEMMA HandledPairs ==
    ASSUME IInv, FlightInv, NEW m \in spawned \cup handled
    PROVE  m = <<m[1], m[2]>> /\ m[1] \in {"ACK", "NACK", "RES", "EXP"} /\ m[2] \in Calls /\ Made(m[2])
<1>1. m = <<m[1], m[2]>> /\ m[1] \in {"ACK", "NACK", "RES", "EXP"} /\ m[2] \in Calls
  BY OneClient DEF IInv, TypeOK, Msgs, ServerMsgs
<1>2. CASE m[1] = "EXP"
  BY Zenon, <1>1, <1>2 DEF IInv, UnregisteredUntouched, Got, Made
<1>3. CASE m[1] # "EXP"
  BY <1>1, <1>3 DEF FlightInv, Made
<1>. QED  BY <1>2, <1>3

\* A message with which a call is over, and that sends a value on next, is
\* about the one call that owes the value.
LEMMA RefillOwes ==
    ASSUME IInv, FlightInv, LoadTypeOK, NEW m \in finishing, Refills(m)
    PROVE  m[2] \in Calls /\ m = <<m[1], m[2]>> /\ Owes(m[2])
<1>1. /\ m \in handled /\ m = <<m[1], m[2]>> /\ m[2] \in Calls /\ Made(m[2])
      /\ m[1] \in {"RES", "EXP"}
  BY HandledPairs DEF LoadTypeOK, Refills
<1>2. \A t \in {"RES", "EXP"} : <<t, m[2]>> \in handled => t = m[1]
  BY <1>1 DEF IInv, NeverBoth, Got
<1>. QED  BY <1>1, <1>2 DEF Owes

-----------------------------------------------------------------------------
(* The channel next.                                                       *)

\* The types are kept.
LEMMA NextLoadTypes ==
    ASSUME LoadTypeOK, [LoadNext]_lvars
    PROVE  LoadTypeOK'
<1> USE DEF LoadTypeOK, loadVars, msgVars, connVars, closeVars
<1>1. CASE Started \/ BreakLoop \/ Collect \/ Stop \/ Watchdog
  BY <1>1 DEF Started, BreakLoop, Collect, Stop, Watchdog, vars
<1>2. CASE WaitReturns \/ Closing \/ CloseReturned
  BY <1>2 DEF WaitReturns, Closing, CloseReturned, CloseEnter, CloseConn, CloseReturn
<1>3. ASSUME NEW c \in Calls, BeginCall(c) PROVE LoadTypeOK'
  BY <1>3 DEF BeginCall, CheckErr
<1>4. ASSUME NEW c \in Calls, CallWritten(c) \/ CallReturns(c) \/ CallFails(c) PROVE LoadTypeOK'
  BY <1>4 DEF CallWritten, CallReturns, CallFails, WriteOK, AddPending, WriteRefused, WriteFails
<1>5. ASSUME NEW m \in Msgs, HandlerRuns(m) PROVE LoadTypeOK'
  BY <1>5 DEF HandlerRuns, Handle
<1>6. ASSUME NEW m \in Msgs, HandlerEnds(m) PROVE LoadTypeOK'
  BY <1>6 DEF HandlerEnds, vars
<1>7. CASE ClientRuns
  BY <1>7 DEF ClientRuns, TimerStops, TimerFires, Expire, HandleMessage, ReadError, CloseStop
<1>8. CASE Environment
  BY Zenon, <1>8 DEF Environment, ServerSends, ConnBreaks
<1>9. CASE UNCHANGED lvars
  BY <1>9 DEF lvars, vars
<1>. QED
  BY <1>1, <1>2, <1>3, <1>4, <1>5, <1>6, <1>7, <1>8, <1>9 DEF LoadNext, RunClient, Handlers

\* The value of next is in the channel, or one call owes it: a call takes it
\* from the channel, and the RES or the EXP of that call brings it back.
LEMMA NextToken ==
    ASSUME IInv, FlightInv, LoadTypeOK, RunnerInv, OneToken, [LoadNext]_lvars
    PROVE  OneToken'
<1>0. TypeOK /\ reqState \in [Requests -> {"idle", "checked", "written", "returned", "failed"}]
      /\ Calls \subseteq Requests
  BY DEF IInv, TypeOK, Requests
<1>1. CASE Quiet
  <2>1. negative' = negative /\ next' = next /\ \A c \in Calls : Owes(c)' <=> Owes(c)
    BY <1>1 DEF Quiet, Owes
  <2>. QED  BY <2>1 DEF OneToken
<1>2. ASSUME NEW c \in Calls, BeginCall(c) PROVE OneToken'
  <2>1. /\ UNCHANGED <<negative, handled, finishing>> /\ next' = 0 /\ (negative => next = 1)
        /\ \A d \in Calls : d # c => (Made(d)' <=> Made(d))
    BY <1>0, <1>2 DEF BeginCall, CheckErr, Made, msgVars
  <2>2. \A d \in Calls : d # c => (Owes(d)' <=> Owes(d))
    BY <2>1 DEF Owes
  <2>. QED  BY <2>1, <2>2 DEF OneToken
<1>3. ASSUME NEW m \in Msgs, HandlerRuns(m) PROVE OneToken'
  <2>1. /\ UNCHANGED <<negative, next, reqState>> /\ m \notin handled /\ handled' = handled \cup {m}
        /\ finishing' = IF Final(m) THEN finishing \cup {m} ELSE finishing
    BY <1>3 DEF HandlerRuns, Handle, FlightInv
  <2>2. \A t \in {"RES", "EXP"}, c \in Calls :
            <<t, c>> \in handled' \ finishing' <=> <<t, c>> \in handled \ finishing
    BY <2>1 DEF LoadTypeOK, Final
  <2>3. \A c \in Calls : Owes(c)' <=> Owes(c)
    BY Zenon, <2>1, <2>2 DEF Owes, Made
  <2>. QED  BY <2>1, <2>3 DEF OneToken
<1>4. ASSUME NEW m \in Msgs, HandlerEnds(m) PROVE OneToken'
  <2>1. /\ UNCHANGED <<negative, handled, reqState>> /\ m \in finishing /\ finishing' = finishing \ {m}
        /\ IF Refills(m) THEN next = 0 /\ next' = 1 ELSE next' = next
    BY <1>4 DEF HandlerEnds, vars, msgVars
  <2>2. \A c \in Calls : Owes(c)' => Owes(c)
    BY <2>1 DEF Owes, Made
  <2>3. ASSUME Refills(m) PROVE \A c \in Calls : negative => ~Owes(c)'
    <3>1. m[2] \in Calls /\ m = <<m[1], m[2]>> /\ Owes(m[2])
      BY <2>1, <2>3, RefillOwes
    <3>2. <<m[1], m[2]>> \in handled' \ finishing' /\ m[1] \in {"RES", "EXP"}
      BY <2>1, <2>3, <3>1 DEF Refills, LoadTypeOK
    <3>3. ~Owes(m[2])'
      BY <3>2 DEF Owes
    <3>. QED  BY <2>2, <3>1, <3>3 DEF OneToken
  <2>. QED  BY <2>1, <2>2, <2>3 DEF OneToken
<1>. QED  BY <1>0, <1>1, <1>2, <1>3, <1>4, LoadEffect

\* The invariant leaves room for the value of a handler.
LEMMA TokenRoom == ASSUME IInv, FlightInv, LoadTypeOK, OneToken PROVE NextHasRoom
<1> SUFFICES ASSUME NEW m \in finishing, Refills(m)
             PROVE  next = 0 /\ \A n \in finishing : Refills(n) => n = m
  BY DEF NextHasRoom
<1>1. m[2] \in Calls /\ m = <<m[1], m[2]>> /\ Owes(m[2]) /\ negative
  BY RefillOwes DEF Refills
<1>2. next = 0
  BY <1>1 DEF OneToken, LoadTypeOK
<1>3. ASSUME NEW n \in finishing, Refills(n) PROVE n = m
  <2>1. n[2] \in Calls /\ n = <<n[1], n[2]>> /\ Owes(n[2])
    BY <1>3, RefillOwes
  <2>2. n[2] = m[2]
    BY <1>1, <2>1 DEF OneToken
  <2>3. n \in handled /\ m \in handled /\ n[1] \in {"RES", "EXP"} /\ m[1] \in {"RES", "EXP"}
    BY <1>3 DEF LoadTypeOK, Refills
  <2>4. n[1] = m[1]
    BY <1>1, <2>1, <2>2, <2>3 DEF IInv, NeverBoth, Got
  <2>. QED  BY <1>1, <2>1, <2>2, <2>4
<1>. QED  BY <1>2, <1>3

\* A call begins when the calls before it have given the value back.
LEMMA TokenOrder ==
    ASSUME IInv, LoadTypeOK, RunnerInv, OneToken, [LoadNext]_lvars,
           NEW c \in Calls, NEW d \in Calls, negative, ~Made(c), Made(c)', Made(d)
    PROVE  \E t \in {"RES", "EXP"} : <<t, d>> \in handled
<1>1. TypeOK
  BY DEF IInv
<1>2. PICK e \in Calls : BeginCall(e)
  <2>1. ASSUME NEW m \in Msgs, HandlerRuns(m) \/ HandlerEnds(m) PROVE FALSE
    BY Zenon, <2>1 DEF HandlerRuns, HandlerEnds, Handle, vars, Made
  <2>2. ~Quiet
    BY Zenon DEF Quiet
  <2>. QED  BY <1>1, <2>1, <2>2, LoadEffect
<1>3. next = 1
  BY <1>2 DEF BeginCall
<1>4. ~Owes(d)
  BY <1>3 DEF OneToken
<1>. QED  BY <1>4 DEF Owes

-----------------------------------------------------------------------------
(* The WaitGroup.                                                          *)

MadeCalls == {c \in Calls : Made(c)}

Ends == {m \in handled \ finishing : Final(m)}

\* The counter of the WaitGroup is the number of calls made, less the number
\* of messages that counted as the end of a call.
CountInv ==
    /\ IsFiniteSet(MadeCalls) /\ IsFiniteSet(Ends)
    /\ wgResults = Cardinality(MadeCalls) - Cardinality(Ends)
    /\ \A m \in finishing : Final(m)

\* If no call came to an end twice, a call has at most one message that counts
\* as its end.
LEMMA OneEnd ==
    ASSUME IInv, FlightInv, \A c \in Calls : ~EndedTwice(c),
           NEW m \in handled, NEW n \in handled, Final(m), Final(n), m[2] = n[2]
    PROVE  m = n
<1>1. /\ m = <<m[1], m[2]>> /\ m[2] \in Calls /\ m[1] \in {"RES", "EXP", "NACK"}
      /\ n = <<n[1], m[2]>> /\ n[1] \in {"RES", "EXP", "NACK"}
  BY HandledPairs DEF Final
<1>2. /\ <<"RES", m[2]>> \notin handled \/ <<"EXP", m[2]>> \notin handled
      /\ <<"NACK", m[2]>> \notin handled \/ <<"RES", m[2]>> \notin handled
      /\ <<"NACK", m[2]>> \notin handled \/ <<"EXP", m[2]>> \notin handled
  BY <1>1 DEF IInv, NeverBoth, Got, EndedTwice
<1>3. <<m[1], m[2]>> \in handled /\ <<n[1], m[2]>> \in handled
  BY <1>1
<1>4. m[1] = n[1]
  BY <1>1, <1>2, <1>3
<1>. QED  BY <1>1, <1>4

\* When the counter is zero and no call came to an end twice, every call made
\* has been counted: as many ends as calls, each of a call of its own, are ends
\* of all the calls.
LEMMA ZeroMeansEnded ==
    ASSUME IInv, FlightInv, LoadTypeOK, CountInv, wgResults = 0,
           \A c \in Calls : ~EndedTwice(c), NEW c \in Calls, Made(c)
    PROVE  \E m \in Ends : m = <<m[1], c>> /\ m[1] \in {"RES", "EXP", "NACK"}
<1> DEFINE f == [m \in Ends |-> m[2]]
<1>1. \A m \in Ends : /\ m \in handled /\ m = <<m[1], m[2]>> /\ m[2] \in MadeCalls
                       /\ m[1] \in {"RES", "EXP", "NACK"}
  BY HandledPairs DEF Ends, Final, MadeCalls
<1>2. ASSUME NEW m \in Ends, NEW n \in Ends, m[2] = n[2] PROVE m = n
  BY <1>2, OneEnd DEF Ends
<1>3. f \in Injection(Ends, MadeCalls)
  BY <1>1, <1>2 DEF Injection, IsInjective
<1>4. Cardinality(Ends) \in Nat /\ Cardinality(MadeCalls) \in Nat
  BY FS_CardinalityType DEF CountInv
<1>5. Cardinality(Ends) = Cardinality(MadeCalls) /\ IsFiniteSet(MadeCalls)
  BY <1>4 DEF CountInv
<1>6. f \in Surjection(Ends, MadeCalls)
  <2> HIDE DEF f
  <2>. QED  BY <1>3, <1>5, FS_Injection
<1>7. c \in MadeCalls
  BY DEF MadeCalls
<1>8. PICK m \in Ends : f[m] = c
  <2> HIDE DEF f
  <2>. QED  BY <1>6, <1>7 DEF Surjection
<1>9. m[2] = c
  BY <1>8
<1>. QED  BY <1>1, <1>9

\* The counter is kept, and so is what the wait for it gives.
LEMMA NextCount ==
    ASSUME IInv, FlightInv, LoadTypeOK, RunnerInv, CountInv, WaitsForCalls, [LoadNext]_lvars
    PROVE  CountInv' /\ WaitsForCalls'
<1>0. TypeOK /\ reqState \in [Requests -> {"idle", "checked", "written", "returned", "failed"}]
      /\ Calls \subseteq Requests
  BY DEF IInv, TypeOK, Requests
<1>1. CASE Quiet
  <2>1. MadeCalls' = MadeCalls /\ Ends' = Ends /\ UNCHANGED <<wgResults, finishing>>
    BY <1>1 DEF Quiet, MadeCalls, Ends, Final
  <2>2. CountInv'
    BY <2>1 DEF CountInv, Final
  <2>3. CASE Ending
    BY Zenon, <1>1, <2>2, <2>3 DEF Quiet, WaitsForCalls, EndedTwice, Ending
  <2>4. CASE wgResults = 0
    <3>1. \/ \A c \in Calls : Made(c) => \E t \in {"RES", "EXP", "NACK"} : <<t, c>> \in handled
          \/ \E c \in Calls : EndedTwice(c)
      BY <2>4, ZeroMeansEnded DEF Ends
    <3>. QED  BY <1>1, <2>2, <3>1 DEF Quiet, WaitsForCalls, EndedTwice
  <2>5. CASE ~Ending'
    BY <1>1, <2>2, <2>5 DEF Quiet, WaitsForCalls, EndedTwice, Ending
  <2>. QED  BY <1>1, <2>2, <2>3, <2>4, <2>5 DEF Quiet
<1>2. ASSUME NEW c \in Calls, BeginCall(c) PROVE CountInv' /\ WaitsForCalls'
  <2>1. /\ wgResults' = wgResults + 1 /\ UNCHANGED <<handled, finishing>> /\ c \notin MadeCalls
        /\ loop' \in {"select", "calling"} /\ MadeCalls' = MadeCalls \cup {c}
        /\ main' = main \/ main' = "fatal"
    BY <1>0, <1>2 DEF BeginCall, CheckErr, Made, MadeCalls, msgVars
  <2>2. Ends' = Ends
    BY <2>1 DEF Ends, Final
  <2>3. IsFiniteSet(MadeCalls') /\ Cardinality(MadeCalls') = Cardinality(MadeCalls) + 1
    BY <2>1, FS_AddElement DEF CountInv
  <2>4. Cardinality(Ends) \in Nat /\ Cardinality(MadeCalls) \in Nat
    BY FS_CardinalityType DEF CountInv
  <2>5. CountInv'
    BY <2>1, <2>2, <2>3, <2>4 DEF CountInv, Final
  <2>. QED  BY <2>1, <2>5 DEF WaitsForCalls, EndedTwice
<1>3. ASSUME NEW m \in Msgs, HandlerRuns(m) PROVE CountInv' /\ WaitsForCalls'
  <2>1. /\ UNCHANGED <<wgResults, reqState, loop, main>> /\ m \notin handled /\ handled' = handled \cup {m}
        /\ finishing' = IF Final(m) THEN finishing \cup {m} ELSE finishing
    BY <1>3 DEF HandlerRuns, Handle, FlightInv
  <2>2. Ends' = Ends
    BY <2>1 DEF Ends, LoadTypeOK, Final
  <2>3. MadeCalls' = MadeCalls
    BY <2>1 DEF MadeCalls, Made
  <2>4. WaitsForCalls'
    BY Zenon, <2>1 DEF WaitsForCalls, Made, EndedTwice
  <2>5. \A n \in finishing' : Final(n)'
    BY <2>1 DEF CountInv, Final
  <2>. QED  BY <2>1, <2>2, <2>3, <2>4, <2>5 DEF CountInv
<1>4. ASSUME NEW m \in Msgs, HandlerEnds(m) PROVE CountInv' /\ WaitsForCalls'
  <2>1. /\ UNCHANGED <<handled, reqState, loop>> /\ m \in finishing /\ finishing' = finishing \ {m}
        /\ wgResults' = wgResults - 1 /\ (main' = "panic" => main = "panic" \/ wgResults = 0)
    BY <1>4 DEF HandlerEnds, vars, msgVars
  <2>2. m \in handled /\ Final(m)
    BY <2>1 DEF LoadTypeOK, CountInv
  <2>3. Ends' = Ends \cup {m} /\ m \notin Ends
    BY <2>1, <2>2 DEF Ends, Final
  <2>4. IsFiniteSet(Ends') /\ Cardinality(Ends') = Cardinality(Ends) + 1
    BY <2>3, FS_AddElement DEF CountInv
  <2>5. Cardinality(Ends) \in Nat /\ Cardinality(MadeCalls) \in Nat
    BY FS_CardinalityType DEF CountInv
  <2>6. MadeCalls' = MadeCalls
    BY <2>1 DEF MadeCalls, Made
  <2>7. CountInv'
    BY <2>1, <2>4, <2>5, <2>6 DEF CountInv, Final
  <2>8. ASSUME wgResults = 0 PROVE \E c \in Calls : EndedTwice(c)
    <3>1. m[2] \in Calls /\ Made(m[2])
      BY <2>2, HandledPairs
    <3>2. ASSUME \A c \in Calls : ~EndedTwice(c) PROVE FALSE
      <4>1. PICK n \in Ends : n = <<n[1], m[2]>>
        BY <2>8, <3>1, <3>2, ZeroMeansEnded
      <4>2. n = m
        BY <2>2, <3>2, <4>1, OneEnd DEF Ends
      <4>. QED  BY <2>3, <4>2
    <3>. QED  BY <3>2
  <2>9. WaitsForCalls'
    BY <2>1, <2>8 DEF WaitsForCalls, Made, EndedTwice
  <2>. QED  BY <2>7, <2>9
<1>. QED  BY <1>0, <1>1, <1>2, <1>3, <1>4, LoadEffect

-----------------------------------------------------------------------------
(* The theorems.                                                           *)

\* The inductive invariant: that of the client, and of the load generator.
LoadInv ==
    /\ IInv /\ FlightInv /\ LoadTypeOK /\ RunnerInv
    /\ OneToken /\ CountInv /\ WaitsForCalls

\* Nothing is made, sent or handled in the beginning.
LEMMA InitLoad == LoadInit => LoadInv
<1> SUFFICES ASSUME LoadInit PROVE LoadInv
  OBVIOUS
<1>1. IInv
  BY InitIInv DEF LoadInit
<1>2. FlightInv /\ LoadTypeOK
  BY DEF LoadInit, Init, FlightInv, LoadTypeOK
<1>3. MadeCalls = {} /\ Ends = {}
  BY DEF LoadInit, Init, MadeCalls, Ends, Made, Requests
<1>4. CountInv
  BY <1>3, FS_EmptySet DEF CountInv, LoadInit
<1>5. RunnerInv /\ WaitsForCalls
  BY OneClient DEF LoadInit, Init, RunnerInv, InCall, WaitsForCalls, Requests
<1>6. OneToken
  BY DEF LoadInit, Init, OneToken, Owes, Made, Requests
<1>. QED  BY <1>1, <1>2, <1>4, <1>5, <1>6 DEF LoadInv

\* Every step of the program keeps the invariant.
LEMMA NextLoad == ASSUME LoadInv, [LoadNext]_lvars PROVE LoadInv'
<1>0. TypeOK
  BY DEF LoadInv, IInv
<1>1. [Next]_vars
  BY LoadStep
<1>2. IInv'
  BY <1>1, NextTypeOK, NextCallInv, NextStoppedHasErr DEF LoadInv, IInv, CallInv
<1>3. FlightInv'
  BY <1>1, NextFlight DEF LoadInv
<1>4. LoadTypeOK'
  BY NextLoadTypes DEF LoadInv
<1>5. RunnerInv'
  BY <1>0, LoadEffect DEF LoadInv
<1>6. OneToken'
  BY NextToken DEF LoadInv
<1>7. CountInv' /\ WaitsForCalls'
  BY NextCount DEF LoadInv
<1>. QED  BY <1>2, <1>3, <1>4, <1>5, <1>6, <1>7 DEF LoadInv

\* The invariant of the load generator, for any number of calls.
THEOREM LoadInvariant == LoadSafety => []LoadInv
<1>1. LoadInv /\ [LoadNext]_lvars => LoadInv'
  BY NextLoad
<1>. QED  BY <1>1, InitLoad, PTL DEF LoadSafety

\* runClient and its Handler use the client as its goroutines allow: what is
\* proved of the client holds in the load generator.
THEOREM LoadUsesClient == LoadSafety => Safety
<1>1. LoadInit => Init
  BY DEF LoadInit
<1>2. [LoadNext]_lvars => [Next]_vars
  BY LoadStep
<1>. QED  BY <1>1, <1>2, PTL DEF LoadSafety, Safety

\* So every call of the load generator goes through the phases of CallPromise:
\* its one RES or its one EXP ends it, unless a NACK cancels it.
THEOREM LoadKeepsPromise == LoadSafety => Promise!Safety
BY LoadUsesClient, ImplementsPromiseSafety, PTL

\* No handler goroutine waits for room in the channel next, however many calls
\* are made, expire or are answered late.
THEOREM NextHasRoomHolds == LoadSafety => []NextHasRoom
<1>1. LoadInv => NextHasRoom
  BY TokenRoom DEF LoadInv
<1>. QED  BY <1>1, LoadInvariant, PTL

\* With a negative rate a call begins only when every call before it has its
\* RES or its EXP.
THEOREM OneAtATimeHolds == LoadSafety => OneAtATime
<1>1. LoadInv /\ [LoadNext]_lvars =>
        [\A c, d \in Calls :
            negative /\ ~Made(c) /\ Made(c)' /\ Made(d) =>
                \E t \in {"RES", "EXP"} : <<t, d>> \in handled]_lvars
  BY TokenOrder DEF LoadInv
<1>. QED  BY <1>1, LoadInvariant, PTL DEF LoadSafety, OneAtATime

\* When the wait for the WaitGroup is over every call that was made has come to
\* an end, or one has come to two, and the counter is never below zero unless
\* one has.
THEOREM WaitsForCallsHolds == LoadSafety => []WaitsForCalls
<1>1. LoadInv => WaitsForCalls
  BY DEF LoadInv
<1>. QED  BY <1>1, LoadInvariant, PTL
=============================================================================
