------------------------------ MODULE RpcProofs ------------------------------
(***************************************************************************)
(* Proofs about Rpc, for any number of calls, callees and workers.  The    *)
(* two queues implement RedisQueue, so what RedisQueueProofs establishes   *)
(* holds of both; what is left to prove is how the callees relate them.    *)
(***************************************************************************)
EXTENDS Rpc, TLAPS

-----------------------------------------------------------------------------
(* Every step is a step of the queues.                                     *)

\* Every step of the whole is a step of the queue of calls, or leaves it.
LEMMA CallsStep == ASSUME [Next]_vars PROVE [C!Next]_(C!vars)
<1> USE DEF callVars
<1>0. UNCHANGED <<now, callVars>> => UNCHANGED C!vars
  BY DEF C!vars, C!redisVars, C!sendVars
<1>1. ASSUME NEW i \in Items, Call(i) \/ SendCall(i) PROVE C!Next
  BY <1>1 DEF Call, SendCall, C!Next, C!Sender
<1>2. ASSUME NEW k \in Callees, PollCalls(k) PROVE C!Next
  BY <1>2 DEF PollCalls, C!Next
<1>3. ASSUME NEW i \in Items, NEW w, Invoke(i, w) PROVE C!Next
  BY <1>3 DEF Invoke, C!Next, C!Sender
<1>4. ASSUME NEW g \in Loops, ThunkReturns(g) \/ StoreResult(g) \/ CallExpired(g)
      PROVE  UNCHANGED <<now, callVars>>
  BY <1>4 DEF ThunkReturns, StoreResult, CallExpired, R!Register, R!RegisterNoReply, R!RegisterFails
<1>5. ASSUME NEW i \in Items, SendResult(i) PROVE UNCHANGED <<now, callVars>>
  BY <1>5 DEF SendResult, R!Sender, R!ReadTTL, R!ReadTTLFails, R!Deliver
<1>6. ASSUME PollResults PROVE UNCHANGED <<now, callVars>>
  BY <1>6 DEF PollResults, R!Poller, R!StartPoll, R!Pop, R!PollFails, R!CloseChannel, R!PopLost, R!Close
<1>7. ASSUME Tick PROVE C!Next
  BY <1>7 DEF Tick, C!Next
<1>8. ASSUME UNCHANGED vars PROVE UNCHANGED <<now, callVars>>
  BY <1>8 DEF vars
<1>. QED
  BY <1>0, <1>1, <1>2, <1>3, <1>4, <1>5, <1>6, <1>7, <1>8 DEF Next, Worker

\* The time that remains is a number of ticks.
LEMMA RemainInt ==
    ASSUME cLeft \in [Items -> Nat], start \in [Items -> 0..MaxTime], NEW i \in Items, NEW t \in Nat
    PROVE  Remain(i, t) \in Int
BY TimeAssumption DEF Remain

\* Every step of the whole is a step of the queue of results, or leaves it.
LEMMA ResultsStep ==
    ASSUME cLeft \in [Items -> Nat], start \in [Items -> 0..MaxTime],
           returned \in [Items -> 0..MaxTime],
           serving \in [Loops -> Items \cup {None}], [Next]_vars
    PROVE  [R!Next]_(R!vars)
<1> USE DEF resultVars
<1>0. UNCHANGED <<now, resultVars>> => UNCHANGED R!vars
  BY DEF R!vars, R!redisVars, R!sendVars
<1>1. ASSUME NEW i \in Items, Call(i) PROVE UNCHANGED <<now, resultVars>>
  BY <1>1 DEF Call, C!Caller, C!Register, C!RegisterNoReply, C!RegisterFails
<1>2. ASSUME NEW i \in Items, SendCall(i) PROVE UNCHANGED <<now, resultVars>>
  BY <1>2 DEF SendCall, C!ReadTTL, C!ReadTTLFails
<1>3. ASSUME NEW k \in Callees, PollCalls(k) PROVE UNCHANGED <<now, resultVars>>
  BY <1>3 DEF PollCalls, C!Poller, C!StartPoll, C!Pop, C!PollFails, C!CloseChannel, C!PopLost, C!Close
<1>4. ASSUME NEW i \in Items, NEW w, Invoke(i, w) PROVE UNCHANGED <<now, resultVars>>
  BY <1>4 DEF Invoke, C!Deliver
<1>5. ASSUME NEW g \in Loops, StoreResult(g) PROVE R!Next
  <2>1. PICK i \in Items : i = serving[g]
    BY <1>5 DEF StoreResult
  <2>2. Remain(i, returned[i]) \in Int
    <3>1. returned[i] \in Nat
      BY TimeAssumption
    <3>. QED  BY <3>1, RemainInt
  <2>. QED  BY <1>5, <2>1, <2>2 DEF StoreResult, R!Next, R!Caller
<1>6. ASSUME NEW g \in Loops, ThunkReturns(g) \/ CallExpired(g) PROVE UNCHANGED <<now, resultVars>>
  BY <1>6 DEF ThunkReturns, CallExpired
<1>7. ASSUME NEW i \in Items, SendResult(i) PROVE R!Next
  BY <1>7 DEF SendResult, R!Next
<1>8. ASSUME PollResults PROVE R!Next
  BY <1>8 DEF PollResults, R!Next
<1>9. ASSUME Tick PROVE R!Next
  BY <1>9 DEF Tick, R!Next
<1>10. ASSUME UNCHANGED vars PROVE UNCHANGED <<now, resultVars>>
  BY <1>10 DEF vars
<1>. QED
  BY <1>0, <1>1, <1>2, <1>3, <1>4, <1>5, <1>6, <1>7, <1>8, <1>9, <1>10 DEF Next, Worker

-----------------------------------------------------------------------------
(* The callees between the queues.                                         *)

\* The conjuncts of TypeOK about the callees.
CalleeTypes ==
    /\ serving \in [Loops -> Items \cup {None}]
    /\ start \in [Items -> 0..MaxTime]
    /\ returned \in [Items -> 0..MaxTime]
    /\ outcome \in [Items -> {"none", "running", "storing", "stored", "failed", "expired"}]
    /\ readAt \in [Items -> 0..MaxTime]
    /\ storedAt \in [Items -> 0..MaxTime]

Received(i) == \E m \in 1..Len(cDelivered) : cDelivered[m] = i

\* A worker runs, and has run, only calls it received, and a result is
\* registered only for a call that a worker runs.
Link ==
    /\ \A i \in Items : outcome[i] # "none" => Received(i)
    /\ \A g \in Loops : serving[g] # None => outcome[serving[g]] # "none"
    /\ \A i \in Items : rReply[i] # "none" => outcome[i] # "none"

\* The inductive invariant: that of each queue, how they are linked, and that
\* a call has one worker.
RpcInv == C!IInv /\ R!IInv /\ CalleeTypes /\ Link /\ OneWorker

\* The steps by which a worker receives a call and gives it up are the only
\* ones that touch the callees, the calls received and the fate of results.
LEMMA OtherSteps ==
    ASSUME [Next]_vars
    PROVE  \/ \E g \in Loops : Worker(g)
           \/ /\ UNCHANGED <<serving, start, returned, outcome, storedAt, rReply, cDelivered>>
              /\ UNCHANGED readAt \/ \E i \in Items : SendCall(i)
<1> DEFINE Same == /\ UNCHANGED <<serving, start, returned, outcome, storedAt, rReply, cDelivered>>
                   /\ UNCHANGED readAt \/ \E i \in Items : SendCall(i)
<1> USE DEF callVars, resultVars, calleeVars
<1>1. ASSUME NEW i \in Items, Call(i) PROVE Same
  BY <1>1 DEF Call, C!Caller, C!Register, C!RegisterNoReply, C!RegisterFails, C!sendVars
<1>2. ASSUME NEW i \in Items, SendCall(i) PROVE Same
  BY Zenon, <1>2 DEF SendCall, C!ReadTTL, C!ReadTTLFails
<1>3. ASSUME NEW k \in Callees, PollCalls(k) PROVE Same
  BY <1>3 DEF PollCalls, C!Poller, C!StartPoll, C!Pop, C!PollFails, C!CloseChannel, C!PopLost,
     C!Close, C!sendVars
<1>4. ASSUME NEW i \in Items, SendResult(i) PROVE Same
  BY <1>4 DEF SendResult, R!Sender, R!ReadTTL, R!ReadTTLFails, R!Deliver
<1>5. ASSUME PollResults PROVE Same
  BY <1>5 DEF PollResults, R!Poller, R!StartPoll, R!Pop, R!PollFails, R!CloseChannel, R!PopLost,
     R!Close
<1>6. ASSUME Tick \/ UNCHANGED vars PROVE Same
  BY <1>6 DEF Tick, C!Tick, R!Tick, C!sendVars, vars
<1> HIDE DEF Same
<1>7. (\E g \in Loops : Worker(g)) \/ Same
  BY <1>1, <1>2, <1>3, <1>4, <1>5, <1>6 DEF Next
<1>. QED  BY <1>7 DEF Same

\* A worker that receives a call was idle, and the call is the last received.
LEMMA WorkerReceives ==
    ASSUME NEW g \in Loops, NEW i \in Items, cOwner[i] = g[1], Invoke(i, g[2])
    PROVE  /\ C!Deliver(i) /\ cDelivered' = Append(cDelivered, i)
           /\ serving[g] = None
           /\ serving' = [serving EXCEPT ![g] = i]
           /\ start' = [start EXCEPT ![i] = now]
           /\ outcome' = [outcome EXCEPT ![i] = "running"]
           /\ UNCHANGED <<returned, readAt, storedAt, resultVars>>
<1>1. g = <<g[1], g[2]>>
  BY DEF Loops
<1>. QED  BY Zenon, <1>1 DEF Invoke, C!Deliver

\* A worker whose thunk has returned with time left still has the call.
LEMMA WorkerReturns ==
    ASSUME CalleeTypes, NEW g \in Loops, ThunkReturns(g)
    PROVE  \E i \in Items :
             /\ serving[g] = i /\ outcome[i] = "running" /\ Remain(i, now) > 0
             /\ outcome' = [outcome EXCEPT ![i] = "storing"]
             /\ returned' = [returned EXCEPT ![i] = now]
             /\ UNCHANGED <<now, callVars, resultVars, serving, start, readAt, storedAt>>
<1>1. PICK i \in Items : serving[g] = i
  BY DEF ThunkReturns, CalleeTypes
<1>. QED  BY Zenon, <1>1 DEF ThunkReturns

\* A worker that is done with a call, with a result or without.
LEMMA WorkerIsDone ==
    ASSUME CalleeTypes, R!TypeOK, NEW g \in Loops, StoreResult(g) \/ CallExpired(g)
    PROVE  \E i \in Items, o \in {"stored", "failed", "expired"} :
             /\ serving[g] = i /\ serving' = [serving EXCEPT ![g] = None]
             /\ outcome' = [outcome EXCEPT ![i] = o]
             /\ UNCHANGED storedAt \/ storedAt' = [storedAt EXCEPT ![i] = now]
             /\ \A j \in Items : j # i => rReply'[j] = rReply[j]
             /\ UNCHANGED <<now, callVars, start, returned, readAt>>
<1>1. PICK i \in Items : serving[g] = i
  BY DEF StoreResult, CallExpired, CalleeTypes
<1>2. CASE CallExpired(g)
  BY Zenon, <1>1, <1>2 DEF CallExpired, resultVars
<1>3. CASE StoreResult(g)
  <2>1. now' = now /\ \A j \in Items : j # i => rReply'[j] = rReply[j]
    BY <1>1, <1>3 DEF StoreResult, R!Register, R!RegisterNoReply, R!RegisterFails, R!TypeOK
  <2>2. \E o \in {"stored", "failed", "expired"} : outcome' = [outcome EXCEPT ![i] = o]
    BY Zenon, <1>1, <1>3 DEF StoreResult
  <2>. QED  BY Zenon, <1>1, <1>3, <2>1, <2>2 DEF StoreResult
<1>. QED  BY <1>2, <1>3

\* Every step keeps the types of the callees, and the link of the queues.
LEMMA NextLink == ASSUME RpcInv, [Next]_vars PROVE CalleeTypes' /\ Link'
<1>.  /\ now \in 0..MaxTime /\ cDelivered \in Seq(Items) /\ CalleeTypes /\ Link
      /\ R!TypeOK
  BY DEF RpcInv, C!IInv, C!TypeOK, R!IInv
<1>1. CASE /\ UNCHANGED <<serving, start, returned, outcome, storedAt, rReply, cDelivered>>
           /\ UNCHANGED readAt \/ \E i \in Items : SendCall(i)
  <2>1. readAt' \in [Items -> 0..MaxTime]
    BY Zenon, <1>1 DEF SendCall, CalleeTypes
  <2>2. CalleeTypes'
    BY <1>1, <2>1 DEF CalleeTypes
  <2>3. Link'
    BY <1>1 DEF Link, Received
  <2>. QED  BY <2>2, <2>3
<1>2. ASSUME NEW g \in Loops, NEW i \in Items, cOwner[i] = g[1], Invoke(i, g[2])
      PROVE  CalleeTypes' /\ Link'
  <2>1. /\ cDelivered' = Append(cDelivered, i)
        /\ serving' = [serving EXCEPT ![g] = i]
        /\ start' = [start EXCEPT ![i] = now]
        /\ outcome' = [outcome EXCEPT ![i] = "running"]
        /\ UNCHANGED <<returned, readAt, storedAt, rReply>>
    BY <1>2, WorkerReceives DEF resultVars
  <2>2. Received(i)' /\ \A j \in Items : Received(j) => Received(j)'
    <3>1. /\ Len(cDelivered) \in Nat /\ Len(cDelivered') = Len(cDelivered) + 1
          /\ cDelivered'[Len(cDelivered) + 1] = i
          /\ \A n \in 1..Len(cDelivered) : cDelivered'[n] = cDelivered[n]
      BY <2>1
    <3>2. Len(cDelivered) + 1 \in 1..Len(cDelivered')
          /\ \A n \in 1..Len(cDelivered) : n \in 1..Len(cDelivered')
      BY <3>1
    <3>. QED  BY <3>1, <3>2 DEF Received
  <2>3. CalleeTypes'
    BY <2>1 DEF CalleeTypes
  <2>4. Link'
    BY <2>1, <2>2 DEF Link, CalleeTypes
  <2>. QED  BY <2>3, <2>4
<1>3. ASSUME NEW g \in Loops, StoreResult(g) \/ CallExpired(g) PROVE CalleeTypes' /\ Link'
  <2>1. PICK i \in Items, o \in {"stored", "failed", "expired"} :
             /\ serving[g] = i /\ serving' = [serving EXCEPT ![g] = None]
             /\ outcome' = [outcome EXCEPT ![i] = o]
             /\ \A j \in Items : j # i => rReply'[j] = rReply[j]
             /\ UNCHANGED storedAt \/ storedAt' = [storedAt EXCEPT ![i] = now]
             /\ UNCHANGED <<start, returned, readAt, cDelivered>>
    BY <1>3, WorkerIsDone DEF callVars
  <2>2. i # None
    BY NoneAssumption
  <2>3. CalleeTypes'
    BY Zenon, <2>1 DEF CalleeTypes
  <2>4. \A j \in Items : outcome'[j] # "none" <=> outcome[j] # "none"
    BY <2>1, <2>2 DEF CalleeTypes, Link
  <2>5. \A j \in Items : Received(j)' <=> Received(j)
    BY <2>1 DEF Received
  <2>6. \A h \in Loops : serving'[h] # None => serving'[h] = serving[h] /\ serving[h] \in Items
    BY <2>1 DEF CalleeTypes
  <2>7. outcome'[i] # "none"
    BY <2>1, <2>2, <2>4 DEF Link
  <2>. QED  BY <2>1, <2>3, <2>4, <2>5, <2>6, <2>7 DEF Link
<1>4. ASSUME NEW g \in Loops, ThunkReturns(g) PROVE CalleeTypes' /\ Link'
  <2>1. PICK i \in Items :
             /\ outcome[i] = "running" /\ outcome' = [outcome EXCEPT ![i] = "storing"]
             /\ returned' = [returned EXCEPT ![i] = now]
             /\ UNCHANGED <<rReply, cDelivered, serving, start, readAt, storedAt>>
    BY <1>4, WorkerReturns DEF callVars, resultVars
  <2>2. CalleeTypes'
    BY <2>1 DEF CalleeTypes
  <2>3. \A j \in Items : (outcome'[j] # "none" <=> outcome[j] # "none") /\ (Received(j)' <=> Received(j))
    BY <2>1 DEF CalleeTypes, Received
  <2>4. Link'
    BY <2>1, <2>3 DEF Link, CalleeTypes
  <2>. QED  BY <2>2, <2>4
<1>. QED  BY <1>1, <1>2, <1>3, <1>4, OtherSteps DEF Worker

\* A call that a worker runs, or has run, was sent on the channel.
LEMMA RunWasSent ==
    ASSUME RpcInv, NEW i \in Items, outcome[i] # "none"
    PROVE  cWork[i] = "sent"
BY DEF RpcInv, Link, Received, C!IInv

\* Every step leaves each call that is run with one worker: a call that is
\* received was never run, and a worker that is done has no call.
LEMMA NextOneWorker == ASSUME RpcInv, [Next]_vars PROVE OneWorker'
<1>.  CalleeTypes /\ OneWorker /\ R!TypeOK /\ C!TypeOK
  BY DEF RpcInv, R!IInv, C!IInv
<1>1. CASE UNCHANGED <<serving, outcome, rReply>>
  BY <1>1 DEF OneWorker
<1>2. ASSUME NEW g \in Loops, NEW i \in Items, cOwner[i] = g[1], Invoke(i, g[2])
      PROVE  OneWorker'
  <2>1. /\ cWork[i] = "ready" /\ serving[g] = None
        /\ serving' = [serving EXCEPT ![g] = i]
        /\ outcome' = [outcome EXCEPT ![i] = "running"]
        /\ rReply' = rReply
    BY <1>2, WorkerReceives DEF C!Deliver, resultVars
  <2>2. outcome[i] = "none" /\ rReply[i] = "none"
    BY <2>1, RunWasSent DEF OneWorker, CalleeTypes
  <2>3. i # None /\ \A h \in Loops : serving[h] # i
    BY <2>2, NoneAssumption DEF OneWorker
  <2>4. serving'[g] = i /\ \A h \in Loops : h # g => serving'[h] = serving[h]
    BY <2>1 DEF CalleeTypes
  <2>5. outcome'[i] = "running" /\ \A j \in Items : j # i => outcome'[j] = outcome[j]
    BY <2>1 DEF CalleeTypes
  <2>6. \A h \in Loops : serving'[h] # None => outcome'[serving'[h]] \in {"running", "storing"}
    BY <2>3, <2>4, <2>5 DEF OneWorker, CalleeTypes
  <2>7. \A h, f \in Loops : serving'[h] = serving'[f] /\ serving'[h] # None => h = f
    BY <2>3, <2>4 DEF OneWorker
  <2>8. \A j \in Items : outcome'[j] \in {"running", "storing"} => \E h \in Loops : serving'[h] = j
    <3> TAKE j \in Items
    <3> HAVE outcome'[j] \in {"running", "storing"}
    <3>1. CASE j = i
      BY <2>4, <3>1
    <3>2. CASE j # i
      <4>1. PICK h \in Loops : serving[h] = j
        BY <2>5, <3>2 DEF OneWorker
      <4>2. h # g
        BY <2>1, <4>1, NoneAssumption
      <4>. QED  BY <2>4, <4>1, <4>2
    <3>. QED  BY <3>1, <3>2
  <2>9. \A j \in Items : outcome'[j] \in {"none", "running", "storing"} => rReply'[j] = "none"
    BY <2>1, <2>2, <2>5 DEF OneWorker
  <2>. QED  BY <2>6, <2>7, <2>8, <2>9 DEF OneWorker
<1>3. ASSUME NEW g \in Loops, StoreResult(g) \/ CallExpired(g) PROVE OneWorker'
  <2>1. PICK i \in Items, o \in {"stored", "failed", "expired"} :
             /\ serving[g] = i /\ serving' = [serving EXCEPT ![g] = None]
             /\ outcome' = [outcome EXCEPT ![i] = o]
             /\ \A j \in Items : j # i => rReply'[j] = rReply[j]
    BY <1>3, WorkerIsDone
  <2>2. i # None /\ \A h \in Loops : serving[h] = i => h = g
    BY <2>1, NoneAssumption DEF OneWorker
  <2>3. serving'[g] = None /\ \A h \in Loops : h # g => serving'[h] = serving[h]
    BY <2>1 DEF CalleeTypes
  <2>4. outcome'[i] = o /\ \A j \in Items : j # i => outcome'[j] = outcome[j]
    BY <2>1 DEF CalleeTypes
  <2>5. \A h \in Loops : serving'[h] # None => outcome'[serving'[h]] \in {"running", "storing"}
    BY <2>2, <2>3, <2>4 DEF OneWorker, CalleeTypes
  <2>6. \A h, f \in Loops : serving'[h] = serving'[f] /\ serving'[h] # None => h = f
    BY <2>3 DEF OneWorker
  <2>7. \A j \in Items : outcome'[j] \in {"running", "storing"} => \E h \in Loops : serving'[h] = j
    <3> TAKE j \in Items
    <3> HAVE outcome'[j] \in {"running", "storing"}
    <3>1. j # i
      BY <2>4
    <3>2. PICK h \in Loops : serving[h] = j
      BY <2>4, <3>1 DEF OneWorker
    <3>3. h # g
      BY <2>1, <3>1, <3>2
    <3>. QED  BY <2>3, <3>2, <3>3
  <2>8. \A j \in Items : outcome'[j] \in {"none", "running", "storing"} => rReply'[j] = "none"
    BY <2>1, <2>4 DEF OneWorker
  <2>. QED  BY <2>5, <2>6, <2>7, <2>8 DEF OneWorker
<1>4. ASSUME NEW g \in Loops, ThunkReturns(g) PROVE OneWorker'
  <2>1. PICK i \in Items :
             /\ outcome[i] = "running" /\ outcome' = [outcome EXCEPT ![i] = "storing"]
             /\ UNCHANGED <<rReply, serving>>
    BY <1>4, WorkerReturns DEF resultVars
  <2>2. outcome'[i] = "storing" /\ \A j \in Items : j # i => outcome'[j] = outcome[j]
    BY <2>1 DEF CalleeTypes
  <2>. QED  BY <2>1, <2>2 DEF OneWorker, CalleeTypes
<1>. QED  BY Zenon, <1>1, <1>2, <1>3, <1>4, OtherSteps DEF Worker

\* The invariant implies the properties.
LEMMA RpcInvImplies == RpcInv => TypeOK /\ OneResultPerCall /\ NackedNotRun /\ OneWorker
<1> SUFFICES ASSUME RpcInv PROVE TypeOK /\ OneResultPerCall /\ NackedNotRun /\ OneWorker
  OBVIOUS
<1>1. TypeOK
  BY DEF RpcInv, C!IInv, R!IInv, CalleeTypes, TypeOK
<1>2. C!NoDup(cDelivered) /\ C!NoDup(rDelivered)
  BY DEF RpcInv, C!IInv, R!IInv, C!AtMostOnce, R!AtMostOnce, R!NoDup, C!NoDup
<1>3. ASSUME NEW i \in Items, NEW n \in 1..Len(rDelivered), rDelivered[n] = i PROVE Received(i)
  <2>1. rWork[i] = "sent"
    BY <1>3 DEF RpcInv, R!IInv
  <2>2. rReply[i] # "none"
    BY <2>1 DEF RpcInv, R!IInv
  <2>. QED  BY <2>2 DEF RpcInv, Link
<1>4. OneResultPerCall
  BY <1>2, <1>3 DEF OneResultPerCall, Received
<1>5. ASSUME NEW i \in Items, cReply[i] = "full" PROVE outcome[i] = "none" /\ rReply[i] = "none"
  <2>1. cWork[i] = "none"
    BY <1>5 DEF RpcInv, C!IInv, C!RefusedNeverTaken
  <2>2. ~Received(i)
    BY <2>1 DEF RpcInv, C!IInv, Received
  <2>. QED  BY <2>2 DEF RpcInv, Link
<1>. QED  BY <1>1, <1>4, <1>5 DEF NackedNotRun, RpcInv

-----------------------------------------------------------------------------
(* Time.                                                                   *)

\* The timeouts of the calls are whole milliseconds at least, or none.
WholeMs == \A t \in Timeouts : t <= 0 \/ t >= Ms

\* The time a call was given, counted from the read of its TTL, ends within a
\* millisecond of its timeout.  A call whose thunk has returned had time left,
\* and the key of its result lives for this time from when it is stored, or for
\* the default.
TimeLink ==
    /\ \A i \in Items : cWork[i] \in {"ready", "sent"} =>
            readAt[i] + cLeft[i] * Ms < cDue[i] + Ms
    /\ \A i \in Items : outcome[i] \in {"storing", "stored", "failed"} =>
            Remain(i, returned[i]) > 0
    /\ \A i \in rKeys : /\ outcome[i] \in {"stored", "failed"}
                        /\ rExpiry[i] * Ms <= storedAt[i] + Remain(i, returned[i]) + Default(i)

\* The key of a result lives for its timeout, and a timeout of less than a
\* millisecond is prolonged by the default.
KeyLives ==
    \A i \in Items, t \in Int, cap \in ResultCaps : R!Script(i, t, cap) /\ t > 0 =>
        rExpiry'[i] * Ms <= now + t + (IF t < Ms THEN DefaultMs * Ms ELSE 0)

\* What remained when the thunk had returned changes only with the call.
LEMMA SameRemain ==
    ASSUME NEW i, UNCHANGED <<cLeft[i], start[i], returned[i]>>
    PROVE  Remain(i, returned[i])' = Remain(i, returned[i]) /\ Default(i)' = Default(i)
BY DEF Remain, Default

\* Every step keeps the link, if a read of a TTL gives a call the time that is
\* left of its timeout, and the script gives a result the time it is told.
LEMMA NextTimeLink ==
    ASSUME RpcInv, TimeLink, [Next]_vars, KeyLives,
           \A i \in Items : cWork[i] = "popped" /\ cWork'[i] = "ready" =>
                now + cLeft'[i] * Ms < cDue[i] + Ms
    PROVE  TimeLink'
<1>.  C!TypeOK /\ R!TypeOK /\ CalleeTypes
  BY DEF RpcInv, C!IInv, R!IInv
<1> DEFINE CallPart == \A i \in Items : cWork[i] \in {"ready", "sent"} =>
                          readAt[i] + cLeft[i] * Ms < cDue[i] + Ms
           RunPart == \A i \in Items : outcome[i] \in {"storing", "stored", "failed"} =>
                          Remain(i, returned[i]) > 0
           KeyPart == \A i \in rKeys :
                        /\ outcome[i] \in {"stored", "failed"}
                        /\ rExpiry[i] * Ms <= storedAt[i] + Remain(i, returned[i]) + Default(i)
           Goal == CallPart' /\ RunPart' /\ KeyPart'
<1>1. CallPart /\ RunPart /\ KeyPart /\ rKeys \subseteq Items
  BY DEF TimeLink, R!TypeOK
<1>2. ASSUME UNCHANGED <<cLeft, start, returned, outcome, storedAt, rExpiry>>, rKeys' \subseteq rKeys
      PROVE  RunPart' /\ KeyPart'
  <2>1. \A i \in Items : Remain(i, returned[i])' = Remain(i, returned[i]) /\ Default(i)' = Default(i)
    BY Zenon, <1>2, SameRemain
  <2>. QED  BY Zenon, <1>1, <1>2, <2>1
<1>3. ASSUME NEW i \in Items, Call(i) PROVE Goal
  <2>1. /\ UNCHANGED <<cWork, cLeft, rKeys, rExpiry, calleeVars>>
        /\ cReply[i] = "none"
        /\ \A j \in Items : j # i => cDue'[j] = cDue[j]
    BY <1>3 DEF Call, C!Caller, C!Register, C!RegisterNoReply, C!RegisterFails, C!Script,
       C!sendVars, resultVars, C!TypeOK
  <2>2. cWork[i] = "none"
    BY Zenon, <2>1 DEF RpcInv, C!IInv
  <2>3. CallPart'
    BY Zenon, <1>1, <2>1, <2>2 DEF calleeVars
  <2>4. RunPart' /\ KeyPart'
    BY Zenon, <1>2, <2>1 DEF calleeVars
  <2>. QED  BY Zenon, <2>3, <2>4
<1>4. ASSUME NEW i \in Items, SendCall(i) PROVE Goal
  <2>1. /\ UNCHANGED <<now, cDue, rKeys, rExpiry, outcome, start, returned, storedAt>>
        /\ cWork[i] = "popped" /\ readAt'[i] = now /\ cWork'[i] # "sent"
        /\ \A j \in Items : j # i => UNCHANGED <<cWork[j], cLeft[j], readAt[j]>>
    <3>1. /\ UNCHANGED <<now, cDue, rKeys, rExpiry, outcome, start, returned, storedAt>>
          /\ cWork[i] = "popped"
          /\ readAt' = [readAt EXCEPT ![i] = now]
          /\ \E w \in {"ready", "expired", "failed"} : cWork' = [cWork EXCEPT ![i] = w]
          /\ cLeft' = cLeft \/ \E n : cLeft' = [cLeft EXCEPT ![i] = n]
      BY <1>4 DEF SendCall, C!ReadTTL, C!ReadTTLFails, resultVars
    <3>2. readAt'[i] = now /\ cWork'[i] # "sent"
      BY <3>1 DEF C!TypeOK, CalleeTypes
    <3>3. \A j \in Items : j # i => UNCHANGED <<cWork[j], cLeft[j], readAt[j]>>
      BY Zenon, <3>1 DEF C!TypeOK, CalleeTypes
    <3>. QED  BY Zenon, <3>1, <3>2, <3>3
  <2>2. outcome[i] = "none"
    BY <2>1, RunWasSent
  <2>3. CallPart'
    BY Zenon, <1>1, <2>1
  <2>4. \A j \in Items : j # i => Remain(j, returned[j])' = Remain(j, returned[j])
                                 /\ Default(j)' = Default(j)
    BY Zenon, <2>1, SameRemain
  <2>. QED  BY <1>1, <2>1, <2>2, <2>3, <2>4
<1>5. ASSUME NEW k \in Callees, PollCalls(k) PROVE Goal
  <2>1. /\ UNCHANGED <<cDue, cLeft, rKeys, rExpiry, calleeVars>>
        /\ \/ UNCHANGED cWork
           \/ \E w \in {"popped", "lost"} : cWork' = [cWork EXCEPT ![cList[Len(cList)]] = w]
    BY Zenon, <1>5 DEF PollCalls, C!Poller, C!StartPoll, C!Pop, C!PollFails, C!CloseChannel, C!PopLost,
       C!Close, C!sendVars, resultVars
  <2>2. \A j \in Items : cWork'[j] \in {cWork[j], "popped", "lost"}
    BY Zenon, <2>1 DEF C!TypeOK
  <2>3. CallPart'
    BY Zenon, <1>1, <2>1, <2>2 DEF calleeVars
  <2>4. RunPart' /\ KeyPart'
    BY Zenon, <1>2, <2>1 DEF calleeVars
  <2>. QED  BY <2>3, <2>4
<1>6. ASSUME NEW g \in Loops, NEW i \in Items, cOwner[i] = g[1], Invoke(i, g[2])
      PROVE  Goal
  <2>1. /\ UNCHANGED <<cDue, cLeft, readAt, returned, storedAt, rKeys, rExpiry>>
        /\ cWork[i] = "ready" /\ outcome'[i] = "running"
        /\ \A j \in Items : j # i => UNCHANGED <<cWork[j], outcome[j], start[j]>>
    <3>1. /\ C!Deliver(i)
          /\ start' = [start EXCEPT ![i] = now]
          /\ outcome' = [outcome EXCEPT ![i] = "running"]
          /\ UNCHANGED <<returned, readAt, storedAt, resultVars>>
      BY Zenon, <1>6, WorkerReceives
    <3>2. /\ UNCHANGED <<cDue, cLeft, rKeys, rExpiry>> /\ cWork[i] = "ready"
          /\ cWork' = [cWork EXCEPT ![i] = "sent"]
      BY Zenon, <3>1 DEF C!Deliver, resultVars
    <3>3. outcome'[i] = "running" /\ \A j \in Items : j # i => UNCHANGED <<cWork[j], outcome[j], start[j]>>
      BY <3>1, <3>2 DEF C!TypeOK, CalleeTypes
    <3>. QED  BY Zenon, <3>1, <3>2, <3>3
  <2>2. outcome[i] = "none"
    BY Zenon, <2>1, RunWasSent
  <2>3. CallPart'
    BY Zenon, <1>1, <2>1
  <2>4. \A j \in Items : j # i => Remain(j, returned[j])' = Remain(j, returned[j])
                                 /\ Default(j)' = Default(j)
    BY Zenon, <2>1, SameRemain
  <2>. QED  BY <1>1, <2>1, <2>2, <2>3, <2>4
<1>7. ASSUME NEW g \in Loops, ThunkReturns(g) PROVE Goal
  <2>1. PICK i \in Items :
             /\ outcome[i] = "running" /\ Remain(i, now) > 0
             /\ outcome' = [outcome EXCEPT ![i] = "storing"]
             /\ returned' = [returned EXCEPT ![i] = now]
             /\ UNCHANGED <<callVars, resultVars, start, readAt, storedAt>>
    BY Zenon, <1>7, WorkerReturns
  <2>2. UNCHANGED <<cDue, cLeft, cWork, rKeys, rExpiry>>
    BY Zenon, <2>1 DEF callVars, resultVars
  <2>3. /\ returned'[i] = now
        /\ \A j \in Items : j # i => UNCHANGED <<outcome[j], returned[j]>>
    BY Zenon, <2>1 DEF CalleeTypes
  <2>4. Remain(i, returned[i])' = Remain(i, now)
    BY <2>1, <2>2, <2>3 DEF Remain
  <2>5. \A j \in Items : j # i => Remain(j, returned[j])' = Remain(j, returned[j])
                                 /\ Default(j)' = Default(j)
    BY Zenon, <2>1, <2>2, <2>3, SameRemain
  <2>6. CallPart'
    BY <1>1, <2>1, <2>2
  <2>. QED  BY <1>1, <2>1, <2>2, <2>3, <2>4, <2>5, <2>6
<1>8. ASSUME NEW g \in Loops, StoreResult(g) \/ CallExpired(g) PROVE Goal
  <2>1. PICK i \in Items, o \in {"stored", "failed", "expired"} :
             /\ serving[g] = i
             /\ outcome' = [outcome EXCEPT ![i] = o]
             /\ UNCHANGED storedAt \/ storedAt' = [storedAt EXCEPT ![i] = now]
             /\ UNCHANGED <<now, callVars, start, returned, readAt>>
    BY ZenonT(30), <1>8, WorkerIsDone
  <2>2. UNCHANGED <<cDue, cLeft, cWork, start, returned, readAt>>
    BY Zenon, <2>1 DEF callVars
  <2>3. CallPart'
    BY Zenon, <1>1, <2>2
  <2>4. \A j \in Items : Remain(j, returned[j])' = Remain(j, returned[j]) /\ Default(j)' = Default(j)
    BY Zenon, <2>2, SameRemain
  <2>5. outcome'[i] = o /\ \A j \in Items : j # i => UNCHANGED <<outcome[j], storedAt[j]>>
    BY <2>1 DEF CalleeTypes
  <2>6. i \notin rKeys
    <3>1. outcome[i] \in {"running", "storing"}
      BY <2>1, NoneAssumption DEF RpcInv, OneWorker
    <3>. QED  BY <1>1, <3>1
  <2>7. ASSUME CallExpired(g) PROVE Goal
    <3>1. outcome'[i] = "expired" /\ UNCHANGED <<rKeys, rExpiry>>
      BY Zenon, <2>1, <2>7 DEF CallExpired, resultVars, CalleeTypes
    <3>. QED  BY Zenon, <1>1, <2>3, <2>4, <2>5, <2>6, <3>1
  <2>8. ASSUME StoreResult(g) PROVE Goal
    <3> DEFINE t == Remain(i, returned[i])
    <3>1. outcome[i] = "storing" /\ storedAt' = [storedAt EXCEPT ![i] = now]
          /\ \E x \in {"stored", "failed"} : outcome' = [outcome EXCEPT ![i] = x]
      BY Zenon, <2>1, <2>8 DEF StoreResult
    <3>2. outcome'[i] \in {"stored", "failed"} /\ storedAt'[i] = now
      BY <3>1 DEF CalleeTypes
    <3>3. RunPart'
      BY <1>1, <2>4, <2>5, <3>1
    <3>4. \/ UNCHANGED <<rKeys, rExpiry>>
          \/ \E cap \in ResultCaps : R!Script(i, t, cap)
      BY Zenon, <2>1, <2>8 DEF StoreResult, R!Register, R!RegisterNoReply, R!RegisterFails, R!redisVars
    <3>5. CASE UNCHANGED <<rKeys, rExpiry>>
      BY Zenon, <1>1, <2>3, <2>4, <2>5, <2>6, <3>3, <3>5
    <3>6. CASE \E cap \in ResultCaps : R!Script(i, t, cap)
      <4>1. t \in Int /\ t > 0
        <5>1. cLeft \in [Items -> Nat] /\ start \in [Items -> 0..MaxTime]
          BY Zenon DEF C!TypeOK, CalleeTypes
        <5>2. returned[i] \in Nat
          BY TimeAssumption DEF CalleeTypes
        <5>. QED  BY Zenon, <1>1, <3>1, <5>1, <5>2, RemainInt
      <4>2. rExpiry'[i] * Ms <= now + t + Default(i)
        BY Zenon, <3>6, <4>1 DEF KeyLives, Default
      <4>3. /\ rKeys' = rKeys \cup {i}
            /\ \A j \in Items : j # i => rExpiry'[j] = rExpiry[j]
        BY Zenon, <3>6 DEF R!Script, R!TypeOK
      <4>4. KeyPart'
        BY Zenon, <1>1, <2>4, <2>5, <3>2, <4>2, <4>3
      <4>. QED  BY <2>3, <3>3, <4>4
    <3>. QED  BY Zenon, <3>4, <3>5, <3>6
  <2>. QED  BY Zenon, <1>8, <2>7, <2>8
<1>9. ASSUME NEW i \in Items, SendResult(i) PROVE Goal
  <2>1. rKeys' \subseteq rKeys /\ UNCHANGED <<rExpiry, callVars, calleeVars>>
    BY Zenon, <1>9 DEF SendResult, R!Sender, R!ReadTTL, R!ReadTTLFails, R!Deliver, R!redisVars
  <2>2. CallPart'
    BY Zenon, <1>1, <2>1 DEF callVars, calleeVars
  <2>. QED  BY <1>2, <2>1, <2>2 DEF callVars, calleeVars
<1>10. ASSUME PollResults PROVE Goal
  <2>1. UNCHANGED <<rKeys, rExpiry, callVars, calleeVars>>
    BY Zenon, <1>10 DEF PollResults, R!Poller, R!StartPoll, R!Pop, R!PollFails, R!CloseChannel, R!PopLost,
       R!Close, R!redisVars
  <2>2. CallPart'
    BY Zenon, <1>1, <2>1 DEF callVars, calleeVars
  <2>. QED  BY Zenon, <1>2, <2>1, <2>2 DEF callVars, calleeVars
<1>11. ASSUME Tick \/ UNCHANGED vars PROVE Goal
  <2>1. UNCHANGED <<rKeys, rExpiry, cWork, cDue, cLeft, calleeVars>>
    BY <1>11 DEF Tick, C!Tick, R!Tick, C!sendVars, R!redisVars, vars, callVars, resultVars
  <2>2. CallPart'
    BY Zenon, <1>1, <2>1 DEF calleeVars
  <2>. QED  BY Zenon, <1>2, <2>1, <2>2 DEF calleeVars
<1> HIDE DEF Goal
<1>12. Goal
  BY Zenon, <1>3, <1>4, <1>5, <1>6, <1>7, <1>8, <1>9, <1>10, <1>11 DEF Next, Worker
<1>. QED  BY <1>12 DEF TimeLink, Goal

\* A call that a worker ran was given, from its start, what was left of its
\* timeout, and the time it was blocked on the channel.
LEMMA GivenTime ==
    ASSUME RpcInv, TimeLink, NEW i \in Items, outcome[i] # "none"
    PROVE  /\ cLeft[i] * Ms + start[i] < cDue[i] + Ms + Waited(i)
           /\ cLeft[i] * Ms \in Int /\ start[i] \in Int /\ cDue[i] \in Int /\ Ms \in Int
           /\ Waited(i) \in Int /\ now \in Int
<1>1. readAt[i] + cLeft[i] * Ms < cDue[i] + Ms
  BY Zenon, RunWasSent DEF TimeLink
<1>2. /\ cLeft[i] * Ms \in Int /\ start[i] \in Int /\ cDue[i] \in Int /\ Ms \in Int
      /\ readAt[i] \in Int /\ now \in Int
  BY TimeAssumption DEF RpcInv, C!IInv, C!TypeOK, CalleeTypes
<1> DEFINE d == cLeft[i] * Ms
<1>3. d \in Int /\ readAt[i] + d < cDue[i] + Ms
  BY <1>1, <1>2
<1> HIDE DEF d
<1>4. d + start[i] < cDue[i] + Ms + (start[i] - readAt[i]) /\ start[i] - readAt[i] \in Int
  BY <1>2, <1>3
<1>. QED  BY Zenon, <1>2, <1>4 DEF d, Waited

\* The time a call had when its thunk had returned, counted from then, ends
\* within that bound.
LEMMA RemainTime ==
    ASSUME RpcInv, TimeLink, NEW i \in Items, outcome[i] # "none"
    PROVE  /\ returned[i] + Remain(i, returned[i]) < cDue[i] + Ms + Waited(i)
           /\ Remain(i, returned[i]) \in Int /\ returned[i] \in Int
           /\ cDue[i] \in Int /\ Ms \in Int /\ Waited(i) \in Int /\ now \in Int
<1>1. /\ cLeft[i] * Ms + start[i] < cDue[i] + Ms + Waited(i)
      /\ cLeft[i] * Ms \in Int /\ start[i] \in Int /\ cDue[i] \in Int /\ Ms \in Int
      /\ Waited(i) \in Int /\ now \in Int
  BY Zenon, GivenTime
<1>2. returned[i] \in Int
  BY TimeAssumption DEF RpcInv, CalleeTypes
<1> DEFINE d == cLeft[i] * Ms
<1>3. d \in Int /\ Remain(i, returned[i]) = d - (returned[i] - start[i])
      /\ d + start[i] < cDue[i] + Ms + Waited(i)
  BY <1>1 DEF Remain
<1> HIDE DEF d
<1>. QED  BY <1>1, <1>2, <1>3

\* A result is stored while there is time left, but for the time this takes.
LEMMA StoredInTime ==
    ASSUME RpcInv, TimeLink, [Next]_vars, NEW i \in Items,
           rReply[i] = "none", rReply'[i] # "none"
    PROVE  now < cDue[i] + Ms + Waited(i) + StoringFor(i, now)
<1>.  R!TypeOK /\ CalleeTypes
  BY DEF RpcInv, R!IInv
<1>1. PICK g \in Loops : StoreResult(g) \/ CallExpired(g)
  <2>1. ASSUME NEW g \in Loops, NEW j \in Items, cOwner[j] = g[1], Invoke(j, g[2]) PROVE FALSE
    BY Zenon, <2>1, WorkerReceives DEF resultVars
  <2>2. ASSUME NEW g \in Loops, ThunkReturns(g) PROVE FALSE
    BY <2>2, WorkerReturns DEF resultVars
  <2>. QED  BY Zenon, <2>1, <2>2, OtherSteps DEF Worker
<1>2. StoreResult(g) /\ serving[g] = i
  BY Zenon, <1>1, WorkerIsDone DEF CallExpired, resultVars
<1>3. outcome[i] = "storing"
  BY Zenon, <1>2 DEF StoreResult
<1>4. Remain(i, returned[i]) > 0
  BY Zenon, <1>3 DEF TimeLink
<1>. QED  BY <1>3, <1>4, RemainTime DEF StoringFor

\* What is read at t, before the end e of a remainder m that was counted from s
\* and not from r, is late by the difference of the two and by d.
LEMMA LateSum ==
    /\ \A a, b, c \in Int : a + b + c \in Int
    /\ \A t, e, s, r, m, d, w \in Int :
         t < e /\ e <= s + m + d /\ r + m < w => t < w + (s - r) + d
OBVIOUS

\* A result whose key did not expire is in the time of its call, but for the
\* time it took to store it, and the default timeout if less than a
\* millisecond remained.
LEMMA ReadInTime ==
    ASSUME RpcInv, TimeLink, NEW i \in Items, i \in rKeys, now < rExpiry[i] * Ms
    PROVE  now < cDue[i] + Ms + Waited(i) + StoringFor(i, storedAt[i]) + Default(i)
<1>1. /\ outcome[i] # "none"
      /\ rExpiry[i] * Ms <= storedAt[i] + Remain(i, returned[i]) + Default(i)
  BY Zenon DEF TimeLink
<1>2. /\ returned[i] + Remain(i, returned[i]) < cDue[i] + Ms + Waited(i)
      /\ Remain(i, returned[i]) \in Int /\ returned[i] \in Int
      /\ cDue[i] \in Int /\ Ms \in Int /\ Waited(i) \in Int /\ now \in Int
  BY Zenon, <1>1, RemainTime
<1>3. rExpiry[i] * Ms \in Int /\ storedAt[i] \in Int /\ Default(i) \in Int
  BY TimeAssumption DEF RpcInv, R!IInv, R!TypeOK, CalleeTypes, Default
<1> DEFINE e == rExpiry[i] * Ms
           m == Remain(i, returned[i])
           d == Default(i)
           w == cDue[i] + Ms + Waited(i)
<1>4. now < e /\ e <= storedAt[i] + m + d /\ returned[i] + m < w
  BY Zenon, <1>1, <1>2
<1>5. e \in Int /\ m \in Int /\ d \in Int
  BY Zenon, <1>2, <1>3
<1>6. w \in Int
  BY Zenon, <1>2, LateSum
<1> HIDE DEF e, m, d, w
<1>7. now < w + (storedAt[i] - returned[i]) + d
  BY Zenon, <1>2, <1>3, <1>4, <1>5, <1>6, LateSum
<1>. QED  BY Zenon, <1>7 DEF StoringFor, d, w

-----------------------------------------------------------------------------
(* Every step is a step of the queues, and of one call.                    *)

\* No call is received, run or answered in the beginning.
LEMMA InitLink == Init => CalleeTypes /\ Link /\ OneWorker /\ TimeLink
<1> SUFFICES ASSUME Init PROVE CalleeTypes /\ Link /\ OneWorker /\ TimeLink
  OBVIOUS
<1> USE DEF Init, C!Init, R!Init
<1>1. CalleeTypes
  BY TimeAssumption DEF CalleeTypes
<1>2. Link /\ OneWorker /\ TimeLink
  BY DEF Link, OneWorker, TimeLink
<1>. QED  BY <1>1, <1>2

\* Both queues start as a queue does.
LEMMA InitQueues == Init => C!Init /\ R!Init
BY DEF Init

\* Every step is one of each queue, or leaves it.
LEMMA QueueSteps == RpcInv /\ [Next]_vars => [C!Next]_(C!vars) /\ [R!Next]_(R!vars)
<1> SUFFICES ASSUME RpcInv, [Next]_vars PROVE [C!Next]_(C!vars) /\ [R!Next]_(R!vars)
  OBVIOUS
<1>1. cLeft \in [Items -> Nat]
  BY DEF RpcInv, C!IInv, C!TypeOK
<1>2. [R!Next]_(R!vars)
  BY <1>1, ResultsStep DEF RpcInv, CalleeTypes
<1>. QED  BY <1>2, CallsStep

\* A step that leaves the answers, the runs and the results alone is a stutter.
LEMMA SameCalls ==
    ASSUME UNCHANGED <<cReply, outcome, rReply, rWork>>
    PROVE  UNCHANGED Promise!vars
BY DEF Promise!vars, run, result

\* The reply to the registration of a call is the answer to the server.
LEMMA CallAnswers == ASSUME NEW i \in Items, Call(i) PROVE Promise!Answer(i)
<1>1. /\ cReply[i] = "none"
      /\ \E a \in {"ok", "full", "error"} : cReply' = [cReply EXCEPT ![i] = a]
  BY DEF Call, C!Caller, C!Register, C!RegisterNoReply, C!RegisterFails
<1>2. UNCHANGED <<outcome, rReply, rWork>>
  BY DEF Call, resultVars, calleeVars
<1>3. run' = run /\ result' = result
  BY <1>2 DEF run, result
<1>. QED  BY Zenon, <1>1, <1>3 DEF Promise!Answer

\* A worker that receives a call starts its one run.
LEMMA InvokeRuns ==
    ASSUME RpcInv, NEW g \in Loops, NEW i \in Items, cOwner[i] = g[1], Invoke(i, g[2])
    PROVE  Promise!Run(i)
<1>.  CalleeTypes /\ C!TypeOK
  BY DEF RpcInv, C!IInv
<1>1. /\ C!Deliver(i) /\ outcome' = [outcome EXCEPT ![i] = "running"]
      /\ UNCHANGED <<rReply, rWork>>
  BY Zenon, WorkerReceives DEF resultVars
<1>2. cWork[i] = "ready" /\ cReply' = cReply
  BY <1>1 DEF C!Deliver
<1>3. outcome[i] = "none"
  BY <1>2, RunWasSent
<1>4. cReply[i] \in {"ok", "error"}
  <2>1. cReply[i] # "none" /\ cReply[i] # "full"
    BY <1>2 DEF RpcInv, C!IInv, C!RefusedNeverTaken
  <2>. QED  BY <2>1 DEF C!TypeOK
<1>5. run[i] = "no" /\ run' = [run EXCEPT ![i] = "running"]
  BY Zenon, <1>1, <1>3 DEF run, CalleeTypes
<1>6. result' = result
  BY <1>1 DEF result
<1>. QED  BY Zenon, <1>2, <1>4, <1>5, <1>6 DEF Promise!Run

\* A run goes on while its result is on its way.
LEMMA ReturnsStutters ==
    ASSUME RpcInv, NEW g \in Loops, ThunkReturns(g)
    PROVE  UNCHANGED Promise!vars
<1>1. PICK i \in Items :
         /\ outcome[i] = "running" /\ outcome' = [outcome EXCEPT ![i] = "storing"]
         /\ UNCHANGED <<callVars, resultVars>>
  BY WorkerReturns DEF RpcInv
<1>2. run' = run
  BY <1>1 DEF run, RpcInv, CalleeTypes
<1>3. cReply' = cReply /\ result' = result
  BY <1>1 DEF callVars, resultVars, result
<1>. QED  BY <1>2, <1>3 DEF Promise!vars

\* A worker that is done ends the run, with a result that may be on its way or
\* without one.
LEMMA WorkerFinishes ==
    ASSUME RpcInv, NEW g \in Loops, StoreResult(g) \/ CallExpired(g)
    PROVE  \E i \in Items : Promise!Finish(i)
<1>.  CalleeTypes /\ R!TypeOK
  BY DEF RpcInv, R!IInv
<1>1. PICK i \in Items, o \in {"stored", "failed", "expired"} :
         /\ serving[g] = i /\ outcome' = [outcome EXCEPT ![i] = o]
         /\ UNCHANGED callVars
  BY WorkerIsDone
<1>2. outcome[i] \in {"running", "storing"} /\ rReply[i] = "none"
  BY <1>1, NoneAssumption DEF RpcInv, OneWorker
<1>3. run[i] = "running" /\ run' = [run EXCEPT ![i] = "done"]
  BY Zenon, <1>1, <1>2 DEF run, CalleeTypes
<1>4. rWork[i] = "none"
  BY <1>2 DEF RpcInv, R!IInv
<1>5. /\ rWork' = rWork
      /\ rReply' = rReply \/ \E a \in {"ok", "full", "error"} : rReply' = [rReply EXCEPT ![i] = a]
  BY Zenon, <1>1 DEF StoreResult, CallExpired, R!Register, R!RegisterNoReply, R!RegisterFails,
     R!sendVars, resultVars
<1>6. result[i] = "none"
  BY <1>2 DEF result
<1>7. result' = result \/ result' = [result EXCEPT ![i] = "pending"]
  <2>1. CASE rReply' = rReply
    BY <1>5, <2>1 DEF result
  <2>2. CASE rReply' = [rReply EXCEPT ![i] = "full"]
    BY <1>2, <1>5, <2>2 DEF result, R!TypeOK
  <2>3. CASE \E a \in {"ok", "error"} : rReply' = [rReply EXCEPT ![i] = a]
    <3>1. rReply'[i] \in {"ok", "error"} /\ \A j \in Items : j # i => rReply'[j] = rReply[j]
      BY <2>3 DEF R!TypeOK
    <3>2. result'[i] = "pending" /\ \A j \in Items : j # i => result'[j] = result[j]
      BY <1>4, <1>5, <3>1 DEF result
    <3>. QED  BY Zenon, <3>2 DEF result
  <2>. QED  BY <1>5, <2>1, <2>2, <2>3
<1>8. cReply' = cReply
  BY <1>1 DEF callVars
<1>9. Promise!Finish(i)
  BY <1>3, <1>6, <1>7, <1>8 DEF Promise!Finish
<1>. QED  BY <1>9

\* A result that moves on was pending.  It is still pending, received or lost.
LEMMA ResultMoves ==
    ASSUME RpcInv, NEW i \in Items, rWork[i] \in {"none", "popped", "ready"}, rReply[i] \in {"ok", "error"},
           UNCHANGED <<cReply, outcome, rReply>>,
           NEW w \in {"popped", "ready", "sent", "expired", "failed", "lost"},
           rWork' = [rWork EXCEPT ![i] = w]
    PROVE  UNCHANGED Promise!vars \/ Promise!Receive(i)
<1>.  R!TypeOK
  BY Zenon DEF RpcInv, R!IInv
<1>1. result[i] = "pending" /\ run' = run
  BY DEF result, run
<1>2. CASE w \in {"popped", "ready"}
  <2>1. result' = result
    BY <1>2 DEF result, R!TypeOK
  <2>. QED  BY <1>1, <2>1 DEF Promise!vars
<1>3. CASE w = "sent"
  <2>1. result' = [result EXCEPT ![i] = "received"]
    BY Zenon, <1>3 DEF result, R!TypeOK
  <2>. QED  BY Zenon, <1>1, <2>1 DEF Promise!Receive
<1>4. CASE w \in {"expired", "failed", "lost"}
  <2>1. result' = [result EXCEPT ![i] = "lost"]
    BY Zenon, <1>4 DEF result, R!TypeOK
  <2>. QED  BY <1>1, <2>1 DEF Promise!Receive
<1>. QED  BY Zenon, <1>2, <1>3, <1>4

\* A result that was taken from the list was registered.
LEMMA TakenWasStored ==
    ASSUME RpcInv, NEW i \in Items, R!InList(i) \/ rWork[i] # "none"
    PROVE  rReply[i] \in {"ok", "error"}
<1>1. rReply[i] # "none" /\ rReply[i] # "full"
  BY DEF RpcInv, R!IInv, R!RefusedNeverTaken
<1>. QED  BY <1>1 DEF RpcInv, R!IInv, R!TypeOK

\* No call is answered or run in the beginning.
LEMMA InitPromise == Init => Promise!Init
BY DEF Init, C!Init, R!Init, Promise!Init, run, result

\* Every step is one of one call, or a stutter.
LEMMA NextPromise == RpcInv /\ [Next]_vars => [Promise!Next]_(Promise!vars)
<1> SUFFICES ASSUME RpcInv, [Next]_vars PROVE [Promise!Next]_(Promise!vars)
  OBVIOUS
<1> DEFINE Goal == [Promise!Next]_(Promise!vars)
<1>1. ASSUME UNCHANGED <<cReply, outcome, rReply, rWork>> PROVE Goal
  BY <1>1, SameCalls
<1>2. ASSUME NEW i \in Items, Promise!Answer(i) \/ Promise!Run(i) \/ Promise!Finish(i) \/ Promise!Receive(i)
      PROVE  Goal
  BY <1>2 DEF Promise!Next
<1>3. ASSUME UNCHANGED Promise!vars PROVE Goal
  BY <1>3
<1> HIDE DEF Goal
<1>4. ASSUME NEW i \in Items, Call(i) PROVE Goal
  BY <1>2, <1>4, CallAnswers
<1>5. ASSUME NEW i \in Items, SendCall(i) PROVE Goal
  BY <1>1, <1>5 DEF SendCall, C!ReadTTL, C!ReadTTLFails, resultVars
<1>6. ASSUME NEW k \in Callees, PollCalls(k) PROVE Goal
  BY Zenon, <1>1, <1>6 DEF PollCalls, C!Poller, C!StartPoll, C!Pop, C!PollFails, C!CloseChannel,
     C!PopLost, C!Close, resultVars, calleeVars
<1>7. ASSUME NEW g \in Loops, Worker(g) PROVE Goal
  BY Zenon, <1>2, <1>3, <1>7, InvokeRuns, ReturnsStutters, WorkerFinishes DEF Worker
<1>8. ASSUME NEW i \in Items, SendResult(i) PROVE Goal
  <2>1. /\ UNCHANGED <<cReply, outcome, rReply>> /\ rWork[i] \in {"popped", "ready"}
        /\ \E w \in {"ready", "sent", "expired", "failed"} : rWork' = [rWork EXCEPT ![i] = w]
    BY <1>8 DEF SendResult, R!Sender, R!ReadTTL, R!ReadTTLFails, R!Deliver, callVars, calleeVars
  <2>2. rReply[i] \in {"ok", "error"}
    BY <2>1, TakenWasStored
  <2>3. UNCHANGED Promise!vars \/ Promise!Receive(i)
    BY Zenon, <2>1, <2>2, ResultMoves
  <2>. QED  BY <1>2, <1>3, <2>3
<1>9. ASSUME PollResults PROVE Goal
  <2>1. UNCHANGED <<cReply, outcome, rReply>>
    BY Zenon, <1>9 DEF PollResults, R!Poller, R!StartPoll, R!Pop, R!PollFails, R!CloseChannel,
       R!PopLost, R!Close, callVars, calleeVars
  <2>2. \/ UNCHANGED rWork
        \/ /\ rList # <<>>
           /\ \E w \in {"popped", "lost"} : rWork' = [rWork EXCEPT ![rList[Len(rList)]] = w]
    BY Zenon, <1>9 DEF PollResults, R!Poller, R!StartPoll, R!Pop, R!PollFails, R!CloseChannel,
       R!PopLost, R!Close, R!sendVars
  <2>3. CASE rList # <<>>
    <3>1. rList \in Seq(Items)
      BY DEF RpcInv, R!IInv, R!TypeOK
    <3>2. Len(rList) \in 1..Len(rList) /\ rList[Len(rList)] \in Items
      BY <2>3, <3>1
    <3>3. PICK i \in Items : i = rList[Len(rList)]
      BY <3>2
    <3>4. R!InList(i) /\ rWork[i] = "none"
      BY <3>2, <3>3 DEF RpcInv, R!IInv, R!AtMostOnce, R!InList
    <3>5. rReply[i] \in {"ok", "error"}
      BY <3>4, TakenWasStored
    <3>6. UNCHANGED rWork \/ UNCHANGED Promise!vars \/ Promise!Receive(i)
      BY <2>1, <2>2, <3>3, <3>4, <3>5, ResultMoves
    <3>. QED  BY <1>1, <1>2, <1>3, <2>1, <3>6
  <2>. QED  BY <1>1, <2>1, <2>2, <2>3
<1>10. ASSUME Tick \/ UNCHANGED vars PROVE Goal
  BY Zenon, <1>1, <1>10 DEF Tick, C!Tick, R!Tick, R!sendVars, calleeVars, vars, callVars, resultVars
<1>11. Goal
  BY <1>4, <1>5, <1>6, <1>7, <1>8, <1>9, <1>10 DEF Next
<1>. QED  BY <1>11 DEF Goal

-----------------------------------------------------------------------------
(* The two queues implement RedisQueue, and what RedisQueueProofs           *)
(* establishes holds of both.                                              *)

\* The lemmas about the queue of calls.
CP == INSTANCE RedisQueueProofs WITH
        Conns <- Callees, Caps <- CallCaps,
        list <- cList, keys <- cKeys, expiry <- cExpiry, due <- cDue, reply <- cReply,
        open <- cOpen, blocked <- cBlocked, poll <- cPoll, work <- cWork, owner <- cOwner,
        left <- cLeft, delivered <- cDelivered

\* The lemmas about the queue of results.
RP == INSTANCE RedisQueueProofs WITH
        Conns <- {Server}, Caps <- ResultCaps, Timeouts <- Int,
        list <- rList, keys <- rKeys, expiry <- rExpiry, due <- rDue, reply <- rReply,
        open <- rOpen, blocked <- rBlocked, poll <- rPoll, work <- rWork, owner <- rOwner,
        left <- rLeft, delivered <- rDelivered

\* The steps of the queue of calls are the ones RedisQueueProofs is about.
LEMMA SameCallsNext == C!Next <=> CP!Next
BY Zenon DEF
     C!Next, C!Caller, C!Sender, C!Poller, C!Register, C!RegisterNoReply,
     C!RegisterFails, C!Script, C!TimeoutMs, C!Millis, C!mstime, C!PushedList,
     C!LTrim, C!OverCap, C!StartPoll, C!Pop, C!PollFails, C!PopLost, C!CloseChannel,
     C!Sending, C!ReadTTL, C!ReadTTLFails, C!PTTL, C!Deliver, C!Close, C!Tick,
     C!redisVars, C!sendVars, CP!Next, CP!Caller, CP!Sender, CP!Poller, CP!Register,
     CP!RegisterNoReply, CP!RegisterFails, CP!Script, CP!TimeoutMs, CP!Millis,
     CP!mstime, CP!PushedList, CP!LTrim, CP!OverCap, CP!StartPoll, CP!Pop,
     CP!PollFails, CP!PopLost, CP!CloseChannel, CP!Sending, CP!ReadTTL,
     CP!ReadTTLFails, CP!PTTL, CP!Deliver, CP!Close, CP!Tick, CP!redisVars,
     CP!sendVars

\* The same holds of its initial state and its variables.
LEMMA SameCallsInit == (C!Init <=> CP!Init) /\ (UNCHANGED C!vars <=> UNCHANGED CP!vars)
BY Zenon DEF C!Init, CP!Init, C!vars, CP!vars, C!redisVars, CP!redisVars, C!sendVars, CP!sendVars

\* The steps of the queue of results are the ones RedisQueueProofs is about.
LEMMA SameResultsNext == R!Next <=> RP!Next
BY Zenon DEF
     R!Next, R!Caller, R!Sender, R!Poller, R!Register, R!RegisterNoReply,
     R!RegisterFails, R!Script, R!TimeoutMs, R!Millis, R!mstime, R!PushedList,
     R!LTrim, R!OverCap, R!StartPoll, R!Pop, R!PollFails, R!PopLost, R!CloseChannel,
     R!Sending, R!ReadTTL, R!ReadTTLFails, R!PTTL, R!Deliver, R!Close, R!Tick,
     R!redisVars, R!sendVars, RP!Next, RP!Caller, RP!Sender, RP!Poller, RP!Register,
     RP!RegisterNoReply, RP!RegisterFails, RP!Script, RP!TimeoutMs, RP!Millis,
     RP!mstime, RP!PushedList, RP!LTrim, RP!OverCap, RP!StartPoll, RP!Pop,
     RP!PollFails, RP!PopLost, RP!CloseChannel, RP!Sending, RP!ReadTTL,
     RP!ReadTTLFails, RP!PTTL, RP!Deliver, RP!Close, RP!Tick, RP!redisVars,
     RP!sendVars

\* The same holds of the script alone.
LEMMA SameScript ==
    ASSUME NEW i, NEW t, NEW cap PROVE R!Script(i, t, cap) <=> RP!Script(i, t, cap)
BY Zenon DEF
     R!Script, R!TimeoutMs, R!Millis, R!mstime, R!PushedList, R!LTrim,
     RP!Script, RP!TimeoutMs, RP!Millis, RP!mstime, RP!PushedList, RP!LTrim

\* The same holds of its initial state and its variables.
LEMMA SameResultsInit == (R!Init <=> RP!Init) /\ (UNCHANGED R!vars <=> UNCHANGED RP!vars)
BY Zenon DEF R!Init, RP!Init, R!vars, RP!vars, R!redisVars, RP!redisVars, R!sendVars, RP!sendVars

\* The assumptions of RedisQueue hold of both queues.
LEMMA QueueAssumptions ==
    /\ Timeouts \subseteq Int /\ Int \subseteq Int
    /\ CallCaps \subseteq Nat /\ ResultCaps \subseteq Nat
    /\ Ms \in Nat \ {0} /\ DefaultMs \in Nat \ {0} /\ MaxTime \in Nat
    /\ None \notin Callees /\ None \notin {Server}
BY TimeoutsAssumption, CapsAssumption, TimeAssumption, NoneAssumption

USE QueueAssumptions

\* And of the invariants.
LEMMA SameCallsInv ==
    /\ (C!IInv <=> CP!IInv) /\ (C!TimeInv <=> CP!TimeInv)
    /\ (C!KeyInTime <=> CP!KeyInTime) /\ (WholeMs <=> CP!WholeMs)
BY Zenon DEF C!IInv, CP!IInv, C!TypeOK, CP!TypeOK, C!AtMostOnce, CP!AtMostOnce, C!NoDup, CP!NoDup,
   C!RefusedNeverTaken, CP!RefusedNeverTaken, C!InList, CP!InList, C!NoSendOnClosed,
   CP!NoSendOnClosed, C!Sending, CP!Sending, C!TimeInv, CP!TimeInv, C!DroppedOnlyIfExpired,
   CP!DroppedOnlyIfExpired, C!KeyInTime, CP!KeyInTime, WholeMs, CP!WholeMs

\* And of the invariants.
LEMMA SameResultsInv == (R!IInv <=> RP!IInv) /\ (R!TimeInv <=> RP!TimeInv)
BY Zenon DEF R!IInv, RP!IInv, R!TypeOK, RP!TypeOK, R!AtMostOnce, RP!AtMostOnce, R!NoDup, RP!NoDup,
   R!RefusedNeverTaken, RP!RefusedNeverTaken, R!InList, RP!InList, R!NoSendOnClosed,
   RP!NoSendOnClosed, R!Sending, RP!Sending, R!TimeInv, RP!TimeInv, R!DroppedOnlyIfExpired,
   RP!DroppedOnlyIfExpired

\* Nothing is registered, received or run in the beginning.
LEMMA InitRpc == Init => RpcInv /\ TimeLink /\ CP!TimeInv /\ CP!KeyInTime /\ RP!TimeInv
<1> SUFFICES ASSUME Init PROVE RpcInv /\ TimeLink /\ CP!TimeInv /\ CP!KeyInTime /\ RP!TimeInv
  OBVIOUS
<1>1. CP!IInv /\ CP!TimeInv /\ CP!KeyInTime
  BY CP!InitIInv, CP!InitTime, SameCallsInit DEF Init
<1>2. RP!IInv /\ RP!TimeInv
  BY RP!InitIInv, RP!InitTime, SameResultsInit DEF Init
<1>. QED  BY <1>1, <1>2, InitLink, SameCallsInv, SameResultsInv DEF RpcInv

\* Every step is one of each queue, and keeps the invariants.
LEMMA NextRpc ==
    ASSUME RpcInv, [Next]_vars
    PROVE  /\ [CP!Next]_(CP!vars) /\ CP!IInv
           /\ [RP!Next]_(RP!vars) /\ RP!IInv
           /\ RpcInv'
<1>1. [CP!Next]_(CP!vars) /\ CP!IInv
  BY QueueSteps, SameCallsNext, SameCallsInit, SameCallsInv DEF RpcInv
<1>2. CP!IInv'
  BY <1>1, CP!NextIInv
<1>3. [RP!Next]_(RP!vars) /\ RP!IInv
  BY QueueSteps, SameResultsNext, SameResultsInit, SameResultsInv DEF RpcInv
<1>4. RP!IInv'
  BY <1>3, RP!NextIInv
<1>5. C!IInv' /\ R!IInv'
  BY <1>2, <1>4, SameCallsInv, SameResultsInv, PTL
<1>. QED  BY <1>1, <1>3, <1>5, NextLink, NextOneWorker DEF RpcInv

\* Every step keeps the invariants about time.
LEMMA NextRpcTime ==
    ASSUME WholeMs, RpcInv, TimeLink, CP!TimeInv, CP!KeyInTime, RP!TimeInv, [Next]_vars
    PROVE  TimeLink' /\ CP!TimeInv' /\ CP!KeyInTime' /\ RP!TimeInv'
<1>1. [CP!Next]_(CP!vars) /\ CP!IInv /\ [RP!Next]_(RP!vars) /\ RP!IInv
  BY NextRpc
<1>2. CP!TimeInv' /\ CP!KeyInTime'
  BY <1>1, CP!NextTime, SameCallsInv
<1>3. RP!TimeInv'
  BY <1>1, RP!NextTime
<1>4. \A i \in Items : cWork[i] = "popped" /\ cWork'[i] = "ready" =>
        now + cLeft'[i] * Ms < cDue[i] + Ms
  BY <1>1, CP!ReadWithin
<1>5. KeyLives
  BY Zenon, <1>1, RP!ScriptTime, SameScript DEF KeyLives, RP!IInv
<1>. QED  BY <1>2, <1>3, <1>4, <1>5, NextTimeLink

\* A result that is read is not expired, which bounds how late it is.
LEMMA AnsweredInTime ==
    ASSUME RpcInv, TimeLink, RP!TimeInv, [Next]_vars, NEW i \in Items,
           rWork[i] = "popped", rWork'[i] = "ready"
    PROVE  now < cDue[i] + Ms + Waited(i) + StoringFor(i, storedAt[i]) + Default(i)
<1>1. [RP!Next]_(RP!vars) /\ RP!TypeOK
  BY Zenon, NextRpc DEF RP!IInv
<1>2. RP!ReadTTL(i)
  BY Zenon, <1>1, RP!OnlyRead
<1>3. i \in rKeys /\ now < rExpiry[i] * Ms
  BY Zenon, <1>1, <1>2, RP!ReadTime DEF RP!TimeInv
<1>. QED  BY Zenon, <1>3, ReadInTime

-----------------------------------------------------------------------------
(* The theorems.                                                           *)

\* The invariant of the calls, the results and the callees, for any number of
\* each.
THEOREM RpcInvariant == Safety => []RpcInv
<1>1. RpcInv /\ [Next]_vars => RpcInv'
  BY NextRpc
<1>2. Init => RpcInv
  BY InitRpc
<1>. QED  BY <1>1, <1>2, PTL DEF Safety

\* The queue of calls, driven by the server and the callees, and the queue of
\* results, driven by the callees and the server, each behave as the queue of
\* RedisQueue with callers and consumers of any kind.
THEOREM QueuesImplement == Safety => C!Safety /\ R!Safety
BY InitQueues, QueueSteps, RpcInvariant, PTL DEF Safety, C!Safety, R!Safety

\* The abstract queue of calls is the one RedisQueueProofs is about.
LEMMA SameCallsPromise ==
    /\ C!Promise!Init <=> CP!Promise!Init
    /\ [C!Promise!Next]_(C!Promise!vars) <=> [CP!Promise!Next]_(CP!Promise!vars)
BY Zenon DEF
     C!Promise!Init, CP!Promise!Init, C!Promise!vars, CP!Promise!vars, C!place,
     CP!place, C!Promise!Next, CP!Promise!Next, C!Promise!Put, CP!Promise!Put,
     C!Promise!PutUnsure, CP!Promise!PutUnsure, C!Promise!Enter, CP!Promise!Enter,
     C!Promise!Fits, CP!Promise!Fits, C!Promise!Oldest, CP!Promise!Oldest,
     C!Promise!Take, CP!Promise!Take, C!Promise!Give, CP!Promise!Give

\* So is the abstract queue of results.
LEMMA SameResultsPromise ==
    /\ R!Promise!Init <=> RP!Promise!Init
    /\ [R!Promise!Next]_(R!Promise!vars) <=> [RP!Promise!Next]_(RP!Promise!vars)
BY Zenon DEF
     R!Promise!Init, RP!Promise!Init, R!Promise!vars, RP!Promise!vars, R!place,
     RP!place, R!Promise!Next, RP!Promise!Next, R!Promise!Put, RP!Promise!Put,
     R!Promise!PutUnsure, RP!Promise!PutUnsure, R!Promise!Enter, RP!Promise!Enter,
     R!Promise!Fits, RP!Promise!Fits, R!Promise!Oldest, RP!Promise!Oldest,
     R!Promise!Take, RP!Promise!Take, R!Promise!Give, RP!Promise!Give

\* In the whole system, too, the calls and the results are each a bounded queue
\* that gives out the oldest item first and each item once.
THEOREM QueuesKeepPromise == Safety => C!ImplementsQueue /\ R!ImplementsQueue
<1>1. Init => CP!Promise!Init /\ RP!Promise!Init
  BY CP!InitQueue, RP!InitQueue, SameCallsInit, SameResultsInit DEF Init
<1>2. RpcInv /\ [Next]_vars =>
        [CP!Promise!Next]_(CP!Promise!vars) /\ [RP!Promise!Next]_(RP!Promise!vars)
  BY NextRpc, CP!NextQueue, RP!NextQueue
<1>. QED
  BY <1>1, <1>2, SameCallsPromise, SameResultsPromise, RpcInvariant, PTL
  DEF Safety, C!ImplementsQueue, R!ImplementsQueue, C!Promise!Spec, R!Promise!Spec

\* The variables of both queues and of the callees have their types.
THEOREM RpcTypeOK == Safety => []TypeOK
BY RpcInvImplies, RpcInvariant, PTL

\* A call is run at most once, and at most one result of it is received, which
\* a callee that ran the call stored.
THEOREM OneResultPerCallHolds == Safety => []OneResultPerCall
BY RpcInvImplies, RpcInvariant, PTL

\* A call refused for want of capacity, for which the client gets a NACK, is
\* never run, and no result of it is stored.
THEOREM NackedNotRunHolds == Safety => []NackedNotRun
BY RpcInvImplies, RpcInvariant, PTL

\* How late a result is stored and read, however long its thunk runs and it is
\* in the queue: by the time the call was blocked on the channel of its callee,
\* the time from the check of what remains to the script, and a millisecond;
\* and, for a result that is read and was stored with less than a millisecond
\* left, by the default timeout.  The timeouts of the calls are a millisecond
\* or more, or none.
THEOREM LateOnlyByWait ==
    WholeMs => (Safety => StoredLateOnlyByWait /\ AnsweredLateOnlyByWait)
<1> SUFFICES ASSUME WholeMs PROVE Safety => StoredLateOnlyByWait /\ AnsweredLateOnlyByWait
  OBVIOUS
<1> DEFINE TInv == TimeLink /\ CP!TimeInv /\ CP!KeyInTime /\ RP!TimeInv
<1>1. Init => TInv
  BY InitRpc
<1>2. RpcInv /\ TInv /\ [Next]_vars => TInv'
  BY NextRpcTime
<1>3. RpcInv /\ TInv /\ [Next]_vars =>
        [\A i \in Items : rReply[i] = "none" /\ rReply'[i] # "none" =>
            now < cDue[i] + Ms + Waited(i) + StoringFor(i, now)]_vars
  BY StoredInTime
<1>4. RpcInv /\ TInv /\ [Next]_vars =>
        [\A i \in Items : rWork[i] = "popped" /\ rWork'[i] = "ready" =>
            now < cDue[i] + Ms + Waited(i) + StoringFor(i, storedAt[i]) + Default(i)]_vars
  BY AnsweredInTime
<1> HIDE DEF TInv
<1>. QED
  BY <1>1, <1>2, <1>3, <1>4, RpcInvariant, PTL
  DEF Safety, StoredLateOnlyByWait, AnsweredLateOnlyByWait

\* A call is run by one worker, which alone stores its result, for any number
\* of callees and workers on the same queue.
THEOREM OneWorkerHolds == Safety => []OneWorker
BY RpcInvImplies, RpcInvariant, PTL

\* The queues, the brokers and the callees implement the promise of a call, for
\* any number of calls, callees and workers, any timeouts and capacities.
THEOREM ImplementsRpcHolds == Safety => ImplementsRpc
BY InitPromise, NextPromise, RpcInvariant, PTL DEF Safety, ImplementsRpc, Promise!Spec

=============================================================================
