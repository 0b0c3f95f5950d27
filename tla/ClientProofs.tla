---------------------------- MODULE ClientProofs ----------------------------
(***************************************************************************)
(* Proofs about Client, for any sets of calls, other requests and closers. *)
(***************************************************************************)
EXTENDS Client, TLAPS

\* The client starts in a state of the inductive invariant.
LEMMA InitIInv == Init => IInv
  BY DEF Init, IInv, TypeOK, NeverBoth, PendingHasTimer, ResolvedNotPending,
         UnregisteredUntouched, StoppedHasErr, Got, Errs, Requests, Msgs

\* Every step of every goroutine, and of the environment, preserves the types.
LEMMA NextTypeOK == TypeOK /\ [Next]_vars => TypeOK'
  <1> SUFFICES ASSUME TypeOK, [Next]_vars PROVE TypeOK'
    OBVIOUS
  <1> USE DEF TypeOK, Requests, Errs, connVars, closeVars, msgVars
  <1>1. ASSUME NEW r \in Requests, CheckErr(r) PROVE TypeOK'
    BY <1>1 DEF CheckErr
  <1>2. ASSUME NEW r \in Requests, WriteOK(r) PROVE TypeOK'
    BY <1>2 DEF WriteOK
  <1>3. ASSUME NEW r \in Requests, WriteRefused(r) PROVE TypeOK'
    BY <1>3 DEF WriteRefused, SetErr
  <1>4. ASSUME NEW r \in Requests, WriteFails(r) PROVE TypeOK'
    BY <1>4 DEF WriteFails
  <1>5. ASSUME NEW c \in Calls, AddPending(c) PROVE TypeOK'
    BY <1>5 DEF AddPending
  <1>6. ASSUME NEW c \in Calls, TimerStops(c) PROVE TypeOK'
    BY <1>6 DEF TimerStops
  <1>7. ASSUME NEW c \in Calls, TimerFires(c) PROVE TypeOK'
    BY <1>7 DEF TimerFires
  <1>8. ASSUME NEW c \in Calls, Expire(c) PROVE TypeOK'
    BY <1>8 DEF Expire, DeletePending, Msgs
  <1>9. ASSUME NEW m \in ServerMsgs, HandleMessage(m) PROVE TypeOK'
    <2>1. m = <<m[1], m[2]>> /\ (m[1] = "RES" => m[2] \in Calls)
      BY KindsAssumption DEF ServerMsgs
    <2>2. m \in Msgs
      BY DEF Msgs
    <2>3. QED
      BY <1>9, <2>1, <2>2 DEF HandleMessage, ReadRes, ReadNack, ReadAny, ReadBad, DeletePending
  <1>10. ASSUME NEW m \in ServerMsgs, ServerSends(m) PROVE TypeOK'
    BY <1>10 DEF ServerSends
  <1>11. CASE ReadError
    BY <1>11 DEF ReadError, SetErr
  <1>12. CASE CloseStop
    BY <1>12 DEF CloseStop
  <1>13. ASSUME NEW m \in Msgs, Handle(m) PROVE TypeOK'
    BY <1>13 DEF Handle
  <1>14. ASSUME NEW k \in Closers, CloseEnter(k) PROVE TypeOK'
    BY <1>14 DEF CloseEnter
  <1>15. ASSUME NEW k \in Closers, CloseConn(k) PROVE TypeOK'
    BY <1>15 DEF CloseConn
  <1>16. ASSUME NEW k \in Closers, CloseReturn(k) PROVE TypeOK'
    BY <1>16 DEF CloseReturn
  <1>17. CASE ConnBreaks
    BY <1>17 DEF ConnBreaks
  <1>18. CASE UNCHANGED vars
    BY <1>18 DEF vars
  <1> QED
    BY Zenon, <1>1, <1>2, <1>3, <1>4, <1>5, <1>6, <1>7, <1>8, <1>9, <1>10, <1>11, <1>12,
       <1>13, <1>14, <1>15, <1>16, <1>17, <1>18 DEF Next

\* What is said of each call.
CallInv == NeverBoth /\ PendingHasTimer /\ ResolvedNotPending /\ UnregisteredUntouched

\* Every step preserves what is said of each call.  The steps that matter are
\* AddPending, which needs UnregisteredUntouched, and HandleMessage and
\* Expire, which need ResolvedNotPending.
LEMMA NextCallInv == TypeOK /\ CallInv /\ [Next]_vars => CallInv'
  <1> SUFFICES ASSUME TypeOK, CallInv, [Next]_vars PROVE CallInv'
    OBVIOUS
  <1> USE DEF TypeOK, CallInv, NeverBoth, PendingHasTimer, ResolvedNotPending, UnregisteredUntouched,
              Got, stopped, Requests, connVars, closeVars, msgVars
  <1>1. ASSUME NEW r \in Requests, CheckErr(r) PROVE CallInv'
    BY <1>1 DEF CheckErr
  <1>2. ASSUME NEW r \in Requests, WriteOK(r) PROVE CallInv'
    BY <1>2 DEF WriteOK
  <1>3. ASSUME NEW r \in Requests, WriteRefused(r) PROVE CallInv'
    BY <1>3 DEF WriteRefused, SetErr
  <1>4. ASSUME NEW r \in Requests, WriteFails(r) PROVE CallInv'
    BY <1>4 DEF WriteFails
  <1>5. ASSUME NEW c \in Calls, AddPending(c) PROVE CallInv'
    BY <1>5 DEF AddPending
  <1>6. ASSUME NEW c \in Calls, TimerStops(c) PROVE CallInv'
    BY <1>6 DEF TimerStops
  <1>7. ASSUME NEW c \in Calls, TimerFires(c) PROVE CallInv'
    BY <1>7 DEF TimerFires
  <1>8. ASSUME NEW c \in Calls, Expire(c) PROVE CallInv'
    BY <1>8 DEF Expire, DeletePending
  <1>9. ASSUME NEW m \in ServerMsgs, HandleMessage(m) PROVE CallInv'
    <2>1. /\ UNCHANGED <<reqState, reader, timer, handled>>
          /\ results' \subseteq results
      BY <1>9 DEF HandleMessage, ReadRes, ReadNack, ReadAny, ReadBad, DeletePending
    <2>2. \A c \in Calls : Got("EXP", c)' <=> Got("EXP", c)
      <3>1. spawned \subseteq spawned' /\ \A e \in spawned' : e \in spawned \/ e[1] # "EXP"
        BY <1>9 DEF HandleMessage, ReadRes, ReadNack, ReadAny, ReadBad
      <3>2. \A c \in Calls : <<"EXP", c>>[1] = "EXP"
        OBVIOUS
      <3> QED
        BY Zenon, <2>1, <3>1, <3>2
    <2>3. \A c \in Calls : Got("RES", c)' => Got("RES", c) \/ (c \in results /\ c \notin results')
      BY <1>9 DEF HandleMessage, ReadRes, ReadNack, ReadAny, ReadBad, DeletePending
    <2> QED
      BY <2>1, <2>2, <2>3
  <1>10. ASSUME NEW m \in ServerMsgs, ServerSends(m) PROVE CallInv'
    BY <1>10 DEF ServerSends
  <1>11. CASE ReadError
    BY <1>11 DEF ReadError, SetErr
  <1>12. CASE CloseStop
    BY <1>12 DEF CloseStop
  <1>13. ASSUME NEW m \in Msgs, Handle(m) PROVE CallInv'
    BY <1>13 DEF Handle
  <1>14. ASSUME NEW k \in Closers, CloseEnter(k) PROVE CallInv'
    BY <1>14 DEF CloseEnter
  <1>15. ASSUME NEW k \in Closers, CloseConn(k) PROVE CallInv'
    BY <1>15 DEF CloseConn
  <1>16. ASSUME NEW k \in Closers, CloseReturn(k) PROVE CallInv'
    BY <1>16 DEF CloseReturn
  <1>17. CASE ConnBreaks
    BY <1>17 DEF ConnBreaks
  <1>18. CASE UNCHANGED vars
    BY <1>18 DEF vars
  <1> QED
    BY Zenon, <1>1, <1>2, <1>3, <1>4, <1>5, <1>6, <1>7, <1>8, <1>9, <1>10, <1>11, <1>12,
       <1>13, <1>14, <1>15, <1>16, <1>17, <1>18 DEF Next

\* The reader sets c.err before it leaves, and no step resets c.err.
LEMMA NextStoppedHasErr == TypeOK /\ StoppedHasErr /\ [Next]_vars => StoppedHasErr'
  <1> SUFFICES ASSUME TypeOK, StoppedHasErr, [Next]_vars PROVE StoppedHasErr'
    OBVIOUS
  <1> USE DEF TypeOK, StoppedHasErr, connVars, closeVars, msgVars
  <1>1. ASSUME NEW r \in Requests, CheckErr(r) PROVE StoppedHasErr'
    BY <1>1 DEF CheckErr
  <1>2. ASSUME NEW r \in Requests, WriteOK(r) PROVE StoppedHasErr'
    BY <1>2 DEF WriteOK
  <1>3. ASSUME NEW r \in Requests, WriteRefused(r) PROVE StoppedHasErr'
    BY <1>3 DEF WriteRefused, SetErr
  <1>4. ASSUME NEW r \in Requests, WriteFails(r) PROVE StoppedHasErr'
    BY <1>4 DEF WriteFails
  <1>5. ASSUME NEW c \in Calls, AddPending(c) PROVE StoppedHasErr'
    BY <1>5 DEF AddPending
  <1>6. ASSUME NEW c \in Calls, TimerStops(c) PROVE StoppedHasErr'
    BY <1>6 DEF TimerStops
  <1>7. ASSUME NEW c \in Calls, TimerFires(c) PROVE StoppedHasErr'
    BY <1>7 DEF TimerFires
  <1>8. ASSUME NEW c \in Calls, Expire(c) PROVE StoppedHasErr'
    BY <1>8 DEF Expire, DeletePending
  <1>9. ASSUME NEW m \in ServerMsgs, HandleMessage(m) PROVE StoppedHasErr'
    BY <1>9 DEF HandleMessage, ReadRes, ReadNack, ReadAny, ReadBad, DeletePending, ServerMsgs
  <1>10. ASSUME NEW m \in ServerMsgs, ServerSends(m) PROVE StoppedHasErr'
    BY <1>10 DEF ServerSends
  <1>11. CASE ReadError
    BY <1>11 DEF ReadError, SetErr
  <1>12. CASE CloseStop
    BY <1>12 DEF CloseStop
  <1>13. ASSUME NEW m \in Msgs, Handle(m) PROVE StoppedHasErr'
    BY <1>13 DEF Handle
  <1>14. ASSUME NEW k \in Closers, CloseEnter(k) PROVE StoppedHasErr'
    BY <1>14 DEF CloseEnter
  <1>15. ASSUME NEW k \in Closers, CloseConn(k) PROVE StoppedHasErr'
    BY <1>15 DEF CloseConn
  <1>16. ASSUME NEW k \in Closers, CloseReturn(k) PROVE StoppedHasErr'
    BY <1>16 DEF CloseReturn
  <1>17. CASE ConnBreaks
    BY <1>17 DEF ConnBreaks
  <1>18. CASE UNCHANGED vars
    BY <1>18 DEF vars
  <1> QED
    BY <1>1, <1>2, <1>3, <1>4, <1>5, <1>6, <1>7, <1>8, <1>9, <1>10, <1>11, <1>12,
       <1>13, <1>14, <1>15, <1>16, <1>17, <1>18 DEF Next

\* The inductive invariant holds in every state the client can reach.
THEOREM ClientInvariant == Safety => []IInv
  <1>1. IInv /\ [Next]_vars => IInv'
    BY NextTypeOK, NextCallInv, NextStoppedHasErr DEF IInv, CallInv
  <1> QED
    BY InitIInv, <1>1, PTL DEF Safety

\* A call is never reported both by a RES and by an EXP, whatever the order
\* in which the reader, the timer, Call and Close get c.mu.
THEOREM NeverBothHolds == Safety => []NeverBoth
  <1>1. IInv => NeverBoth
    BY DEF IInv
  <1> QED
    BY ClientInvariant, <1>1, PTL

\* No pending call is left without a timer while the client runs.
THEOREM PendingHasTimerHolds == Safety => []PendingHasTimer
  <1>1. IInv => PendingHasTimer
    BY DEF IInv
  <1> QED
    BY ClientInvariant, <1>1, PTL

\* No request gets past its check of c.err once the stop channel is closed.
THEOREM NoRequestAfterStopHolds == Safety => NoRequestAfterStop
  <1> DEFINE A == \A r \in Requests : stopped /\ reqState[r] = "idle" => reqState'[r] \in {"idle", "failed"}
  <1>1. IInv /\ [Next]_vars => [A]_vars
    <2> SUFFICES ASSUME IInv, Next PROVE A
      OBVIOUS
    <2> USE DEF IInv, TypeOK, Requests
    <2>1. ASSUME NEW r \in Requests, CheckErr(r) PROVE A
      BY <2>1 DEF CheckErr, StoppedHasErr, stopped
    <2>2. ASSUME NEW r \in Requests, WriteOK(r) \/ WriteRefused(r) \/ WriteFails(r) PROVE A
      BY <2>2 DEF WriteOK, WriteRefused, WriteFails
    <2>3. ASSUME NEW c \in Calls, AddPending(c) PROVE A
      BY <2>3 DEF AddPending
    <2>4. CASE UNCHANGED reqState
      BY <2>4
    <2> QED
      BY Zenon, <2>1, <2>2, <2>3, <2>4 DEF Next, TimerStops, TimerFires, Expire, HandleMessage, ServerSends,
         ReadError, CloseStop, Handle, CloseEnter, CloseConn, CloseReturn, ConnBreaks
  <1>2. IInv /\ [Next]_vars => [\A r \in Requests : stopped /\ reqState[r] = "idle" => reqState'[r] \in {"idle", "failed"}]_vars
    BY <1>1
  <1> QED
    BY ClientInvariant, <1>2, PTL DEF Safety, NoRequestAfterStop

-----------------------------------------------------------------------------
(* The client implements CallPromise.                                      *)

\* The phase of the calls depends only on the pending map, on what was handed
\* to the Handler and on which calls are registered.
LEMMA SamePhase ==
    ASSUME results' = results,
           (spawned \cup handled)' = spawned \cup handled,
           \A c \in Calls : (reqState[c] = "returned")' <=> reqState[c] = "returned"
    PROVE  callPhase' = callPhase
  BY DEF callPhase, Got

\* A step that concerns one call c changes the phase of no other call.
LEMMA OtherPhases ==
    ASSUME NEW c \in Calls,
           \A d \in Calls \ {c} : /\ (d \in results)' <=> d \in results
                                  /\ Got("RES", d)' <=> Got("RES", d)
                                  /\ Got("EXP", d)' <=> Got("EXP", d)
                                  /\ (reqState[d] = "returned")' <=> reqState[d] = "returned"
    PROVE  callPhase' = [callPhase EXCEPT ![c] = callPhase'[c]]
  BY Zenon DEF callPhase

\* While the invariant holds, an unregistered call is new and a pending call
\* is open.
LEMMA PhaseOf ==
    ASSUME IInv, NEW c \in Calls
    PROVE  /\ reqState[c] # "returned" => callPhase[c] = "new"
           /\ c \in results => callPhase[c] = "open"
  BY DEF IInv, UnregisteredUntouched, ResolvedNotPending, callPhase

\* Every step of the client is a step of CallPromise or leaves it unchanged.
LEMMA StepSimulates ==
    ASSUME IInv, IInv', [Next]_vars
    PROVE  [Promise!Next]_(Promise!vars)
  <1> USE DEF connVars, closeVars, msgVars
  <1> DEFINE Sim == Promise!Next \/ UNCHANGED <<callPhase, stopped>>
  <1> SUFFICES Sim
    BY DEF Promise!vars
  <1>1. ASSUME NEW r \in Requests, CheckErr(r) PROVE Sim
    <2>1. reqState \in [Requests -> {"idle", "checked", "written", "returned", "failed"}]
      BY DEF IInv, TypeOK
    <2>2. \A c \in Calls : (reqState[c] = "returned")' <=> reqState[c] = "returned"
      BY <1>1, <2>1 DEF CheckErr, Requests
    <2>3. results' = results /\ (spawned \cup handled)' = spawned \cup handled /\ stopped' = stopped
      BY <1>1 DEF CheckErr, stopped
    <2> QED
      BY <2>2, <2>3, SamePhase
  <1>2. ASSUME NEW r \in Requests, WriteOK(r) PROVE Sim
    <2>1. reqState \in [Requests -> {"idle", "checked", "written", "returned", "failed"}]
      BY DEF IInv, TypeOK
    <2>2. \A c \in Calls : (reqState[c] = "returned")' <=> reqState[c] = "returned"
      BY <1>2, <2>1 DEF WriteOK, Requests
    <2>3. results' = results /\ (spawned \cup handled)' = spawned \cup handled /\ stopped' = stopped
      BY <1>2 DEF WriteOK, stopped
    <2> QED
      BY <2>2, <2>3, SamePhase
  <1>3. ASSUME NEW r \in Requests, WriteRefused(r) \/ WriteFails(r) PROVE Sim
    <2>1. reqState \in [Requests -> {"idle", "checked", "written", "returned", "failed"}]
      BY DEF IInv, TypeOK
    <2>2. \A c \in Calls : (reqState[c] = "returned")' <=> reqState[c] = "returned"
      BY <1>3, <2>1 DEF WriteRefused, WriteFails, Requests
    <2>3. results' = results /\ (spawned \cup handled)' = spawned \cup handled /\ stopped' = stopped
      BY <1>3 DEF WriteRefused, WriteFails, stopped
    <2> QED
      BY <2>2, <2>3, SamePhase
  <1>4. ASSUME NEW c \in Calls, AddPending(c) PROVE Sim
    <2>1. callPhase[c] = "new"
      BY <1>4, PhaseOf DEF AddPending
    <2>2. callPhase'[c] = "open"
      BY <1>4 DEF AddPending, IInv, ResolvedNotPending, callPhase
    <2>3. callPhase' = [callPhase EXCEPT ![c] = callPhase'[c]]
      BY <1>4, OtherPhases DEF AddPending, Got, IInv, TypeOK, Requests
    <2>4. Promise!Issue(c)
      BY <1>4, <2>1, <2>2, <2>3 DEF AddPending, Promise!Issue, stopped
    <2> QED
      BY <2>4 DEF Promise!Next
  <1>5. ASSUME NEW c \in Calls, TimerStops(c) \/ TimerFires(c) PROVE Sim
    BY <1>5, SamePhase DEF TimerStops, TimerFires, stopped
  <1>6. ASSUME NEW c \in Calls, Expire(c) PROVE Sim
    <2>1. CASE c \notin results
      BY <1>6, <2>1, SamePhase DEF Expire, DeletePending, stopped
    <2>2. CASE c \in results
      <3>1. callPhase[c] = "open"
        BY <2>2, PhaseOf
      <3>2. callPhase'[c] = "exp"
        BY Zenon, <1>6, <2>2 DEF Expire, IInv, NeverBoth, callPhase, Got
      <3>3. callPhase' = [callPhase EXCEPT ![c] = callPhase'[c]]
        BY <1>6, OtherPhases DEF Expire, DeletePending, Got
      <3>4. Promise!Resolve(c)
        BY <1>6, <3>1, <3>2, <3>3 DEF Expire, Promise!Resolve, stopped
      <3> QED
        BY <3>4 DEF Promise!Next
    <2> QED
      BY <2>1, <2>2
  <1>7. ASSUME NEW m \in ServerMsgs, HandleMessage(m) PROVE Sim
    <2> USE <1>7 DEF HandleMessage
    <2>1. ASSUME m[1] = "RES", ReadRes(m[2]), m[2] \in results PROVE Sim
      <3> DEFINE c == m[2]
      <3>0. c \in Calls
        BY <2>1 DEF IInv, TypeOK
      <3>1. callPhase[c] = "open"
        BY <2>1, <3>0, PhaseOf
      <3>2. callPhase'[c] = "res"
        BY <2>1, <3>0 DEF ReadRes, IInv, NeverBoth, callPhase, Got
      <3>3. callPhase' = [callPhase EXCEPT ![c] = callPhase'[c]]
        BY <2>1, <3>0, OtherPhases DEF ReadRes, DeletePending, Got
      <3>4. Promise!Resolve(c)
        BY <3>1, <3>2, <3>3 DEF Promise!Resolve, stopped
      <3> QED
        BY <3>0, <3>4 DEF Promise!Next
    <2>2. ASSUME m[1] = "NACK", ReadNack(m[2]), m[2] \in results PROVE Sim
      <3> DEFINE c == m[2]
      <3>0. c \in Calls
        BY <2>2 DEF IInv, TypeOK
      <3>1. callPhase[c] = "open" /\ reqState[c] = "returned"
        BY <2>2, <3>0, PhaseOf DEF IInv, UnregisteredUntouched
      <3>2. callPhase'[c] = "cancelled"
        BY <2>2, <3>0, <3>1 DEF ReadNack, DeletePending, IInv, ResolvedNotPending, callPhase, Got
      <3>3. callPhase' = [callPhase EXCEPT ![c] = callPhase'[c]]
        BY <2>2, <3>0, OtherPhases DEF ReadNack, DeletePending, Got
      <3>4. Promise!Cancel(c)
        BY <3>1, <3>2, <3>3 DEF Promise!Cancel, stopped
      <3> QED
        BY <3>0, <3>4 DEF Promise!Next
    <2>3. ASSUME results' = results, \A c \in Calls : /\ Got("RES", c)' <=> Got("RES", c)
                                                      /\ Got("EXP", c)' <=> Got("EXP", c)
          PROVE Sim
      BY <2>3 DEF callPhase, stopped
    <2>4. ASSUME m[1] = "RES", ReadRes(m[2]), m[2] \notin results PROVE Sim
      BY <2>3, <2>4 DEF ReadRes, DeletePending, Got
    <2>5. ASSUME m[1] = "NACK", ReadNack(m[2]), m[2] \notin results PROVE Sim
      BY <2>3, <2>5 DEF ReadNack, DeletePending, Got
    <2>6. ASSUME ReadAny(m) \/ ReadBad(m) PROVE Sim
      BY <2>3, <2>6 DEF ReadAny, ReadBad, Got
    <2> QED
      BY <2>1, <2>2, <2>4, <2>5, <2>6
  <1>8. ASSUME NEW m \in ServerMsgs, ServerSends(m) PROVE Sim
    BY <1>8, SamePhase DEF ServerSends, stopped
  <1>9. CASE ReadError
    BY <1>9, SamePhase DEF ReadError, stopped
  <1>10. CASE CloseStop
    <2>1. Promise!Close
      BY <1>10, SamePhase DEF CloseStop, stopped, Promise!Close
    <2> QED
      BY <2>1 DEF Promise!Next
  <1>11. ASSUME NEW m \in Msgs, Handle(m) PROVE Sim
    BY <1>11, SamePhase DEF Handle, stopped
  <1>12. ASSUME NEW k \in Closers, CloseEnter(k) \/ CloseConn(k) \/ CloseReturn(k) PROVE Sim
    BY <1>12, SamePhase DEF CloseEnter, CloseConn, CloseReturn, stopped
  <1>13. CASE ConnBreaks
    BY <1>13, SamePhase DEF ConnBreaks, stopped
  <1>14. CASE UNCHANGED vars
    BY <1>14, SamePhase DEF vars, stopped
  <1> QED
    BY <1>1, <1>2, <1>3, <1>4, <1>5, <1>6, <1>7, <1>8, <1>9, <1>10, <1>11, <1>12, <1>13, <1>14
    DEF Next

\* The client implements the safety part of CallPromise: the calls go through
\* its phases in its order and a call that is resolved stays as it is.
THEOREM ImplementsPromiseSafety == Safety => Promise!Safety
  <1>1. Init => Promise!Init
    BY DEF Init, Promise!Init, callPhase, Got, stopped, Requests
  <1>2. IInv /\ IInv' /\ [Next]_vars => [Promise!Next]_(Promise!vars)
    BY StepSimulates
  <1> QED
    BY ClientInvariant, <1>1, <1>2, PTL DEF Safety, Promise!Safety

=============================================================================
