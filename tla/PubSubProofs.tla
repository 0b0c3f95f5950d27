---------------------------- MODULE PubSubProofs ----------------------------
(***************************************************************************)
(* Proofs about PubSub, for any number of connections, events, channels    *)
(* and patterns.                                                           *)
(***************************************************************************)
EXTENDS PubSub, TLAPS

\* Whether a subscription is pending, for a queue of commands and the
\* subscriptions of the connection in redis.
Pending(q, s, f) ==
    \/ \E n \in 1..Len(q) : q[n] = <<"sub", f>> /\ \A p \in (n + 1)..Len(q) : q[p][2] # f
    \/ f \in s /\ \A p \in 1..Len(q) : q[p][2] # f

\* PendingSubs of the module PubSub, in terms of Pending.
LEMMA PendingSubsDef == \A k \in Conns : PendingSubs(k) = {f \in Filters : Pending(cmds[k], subs[k], f)}
BY DEF PendingSubs, Pending

\* A command that is written decides about its name and leaves the others.
LEMMA PendingAppend ==
    ASSUME NEW q \in Seq(Commands), NEW s, NEW f \in Filters, NEW g \in Filters,
           NEW op \in {"sub", "unsub"}
    PROVE  Pending(Append(q, <<op, g>>), s, f) <=>
             IF f = g THEN op = "sub" ELSE Pending(q, s, f)
<1> DEFINE r == Append(q, <<op, g>>)
<1>1. /\ Len(q) \in Nat /\ Len(r) = Len(q) + 1
      /\ r[Len(q) + 1] = <<op, g>>
      /\ \A n \in 1..Len(q) : r[n] = q[n]
  OBVIOUS
<1> HIDE DEF r
<1>2. CASE f = g
  <2>1. r[Len(q) + 1][2] = f
    BY <1>1, <1>2
  <2>2. ASSUME op = "sub" PROVE Pending(r, s, f)
    BY <1>1, <1>2, <2>2 DEF Pending
  <2>3. ASSUME op = "unsub" PROVE ~Pending(r, s, f)
    <3>1. r[Len(q) + 1] # <<"sub", f>>
      BY <1>1, <2>3
    <3>2. \A n \in 1..Len(q) : Len(q) + 1 \in (n + 1)..Len(r)
      BY <1>1
    <3>3. ~\E n \in 1..Len(r) : r[n] = <<"sub", f>> /\ \A p \in (n + 1)..Len(r) : r[p][2] # f
      BY <1>1, <2>1, <3>1, <3>2
    <3>4. Len(q) + 1 \in 1..Len(r)
      BY <1>1
    <3>5. QED
      BY <2>1, <3>3, <3>4 DEF Pending
  <2>4. QED
    BY <1>2, <2>2, <2>3 DEF r
<1>3. CASE f # g
  <2>1. r[Len(q) + 1][2] # f /\ r[Len(q) + 1] # <<"sub", f>>
    BY <1>1, <1>3
  <2>2. (\A p \in 1..Len(r) : r[p][2] # f) <=> (\A p \in 1..Len(q) : q[p][2] # f)
    BY <1>1, <2>1
  <2>3. ASSUME NEW n \in 1..Len(q)
        PROVE (\A p \in (n + 1)..Len(r) : r[p][2] # f) <=> (\A p \in (n + 1)..Len(q) : q[p][2] # f)
    <3>1. \A p \in (n + 1)..Len(q) : p \in (n + 1)..Len(r) /\ p \in 1..Len(q)
      BY <1>1
    <3>2. \A p \in (n + 1)..Len(r) : p = Len(q) + 1 \/ p \in (n + 1)..Len(q)
      BY <1>1
    <3>3. QED
      BY <1>1, <2>1, <3>1, <3>2
  <2>4. (\E n \in 1..Len(r) : r[n] = <<"sub", f>> /\ \A p \in (n + 1)..Len(r) : r[p][2] # f)
        <=> (\E n \in 1..Len(q) : q[n] = <<"sub", f>> /\ \A p \in (n + 1)..Len(q) : q[p][2] # f)
    <3>1. \A n \in 1..Len(r) : n = Len(q) + 1 \/ n \in 1..Len(q)
      BY <1>1
    <3>2. \A n \in 1..Len(q) : n \in 1..Len(r)
      BY <1>1
    <3> DEFINE After(n) == \A p \in (n + 1)..Len(q) : q[p][2] # f
               AfterR(n) == \A p \in (n + 1)..Len(r) : r[p][2] # f
    <3>3. \A n \in 1..Len(q) : r[n] = q[n] /\ (AfterR(n) <=> After(n))
      BY <1>1, <2>3
    <3>4. (\E n \in 1..Len(r) : r[n] = <<"sub", f>> /\ AfterR(n))
          <=> (\E n \in 1..Len(q) : q[n] = <<"sub", f>> /\ After(n))
      <4> HIDE DEF After, AfterR
      <4>. QED  BY <2>1, <3>1, <3>2, <3>3
    <3>5. QED
      BY Zenon, <3>4
  <2>5. QED
    BY Zenon, <1>3, <2>2, <2>4 DEF Pending, r
<1>4. QED
  BY <1>2, <1>3 DEF r

\* Executing the first command changes nothing about what is pending.
LEMMA PendingTail ==
    ASSUME NEW q \in Seq(Commands), q # <<>>, NEW s, NEW f \in Filters
    PROVE  Pending(Tail(q), Apply(Head(q), s), f) <=> Pending(q, s, f)
<1> DEFINE r == Tail(q)
<1>1. /\ Len(q) \in Nat \ {0} /\ Len(r) = Len(q) - 1
      /\ \A n \in 1..Len(r) : r[n] = q[n + 1]
      /\ Head(q) = q[1] /\ q[1] \in Commands
  OBVIOUS
<1> HIDE DEF r
<1>2. PICK op \in {"sub", "unsub"}, g \in Filters : q[1] = <<op, g>>
  BY <1>1 DEF Commands
<1>3. f \in Apply(q[1], s) <=> IF g = f THEN op = "sub" ELSE f \in s
  BY <1>2 DEF Apply
<1>4. (\A p \in 1..Len(q) : q[p][2] # f) <=> g # f /\ (\A p \in 1..Len(r) : r[p][2] # f)
  <2>1. \A p \in 1..Len(q) : p = 1 \/ (p - 1 \in 1..Len(r) /\ q[p] = r[p - 1])
    BY <1>1
  <2>2. \A p \in 1..Len(r) : p + 1 \in 1..Len(q)
    BY <1>1
  <2>3. 1 \in 1..Len(q) /\ q[1][2] = g
    BY <1>1, <1>2
  <2>4. QED
    BY <1>1, <2>1, <2>2, <2>3
<1>5. ASSUME NEW n \in 1..Len(r)
      PROVE  (\A p \in (n + 1)..Len(r) : r[p][2] # f) <=> (\A p \in ((n + 1) + 1)..Len(q) : q[p][2] # f)
  <2>1. \A p \in ((n + 1) + 1)..Len(q) : p - 1 \in (n + 1)..Len(r) /\ q[p] = r[p - 1]
    BY <1>1
  <2>2. \A p \in (n + 1)..Len(r) : p + 1 \in ((n + 1) + 1)..Len(q) /\ q[p + 1] = r[p]
    BY <1>1
  <2>3. ASSUME \A p \in (n + 1)..Len(r) : r[p][2] # f, NEW p \in ((n + 1) + 1)..Len(q)
        PROVE  q[p][2] # f
    <3>1. PICK i \in (n + 1)..Len(r) : q[p] = r[i]
      BY <2>1
    <3>2. QED
      BY <2>3, <3>1
  <2>4. ASSUME \A p \in ((n + 1) + 1)..Len(q) : q[p][2] # f, NEW p \in (n + 1)..Len(r)
        PROVE  r[p][2] # f
    <3>1. PICK i \in ((n + 1) + 1)..Len(q) : q[i] = r[p]
      BY <2>2
    <3>2. QED
      BY <2>4, <3>1
  <2>5. QED
    BY <2>3, <2>4
<1> DEFINE After(n) == \A p \in (n + 1)..Len(q) : q[p][2] # f
           AfterR(n) == \A p \in (n + 1)..Len(r) : r[p][2] # f
<1>6. (\E n \in 1..Len(q) : q[n] = <<"sub", f>> /\ After(n)) <=>
        \/ (\E n \in 1..Len(r) : r[n] = <<"sub", f>> /\ AfterR(n))
        \/ g = f /\ op = "sub" /\ (\A p \in 1..Len(r) : r[p][2] # f)
  <2>1. \A n \in 1..Len(r) : n + 1 \in 1..Len(q) /\ q[n + 1] = r[n] /\ (After(n + 1) <=> AfterR(n))
    <3>1. ASSUME NEW n \in 1..Len(r) PROVE After(n + 1) <=> AfterR(n)
      BY <1>5, Zenon DEF After, AfterR
    <3>2. \A n \in 1..Len(r) : n + 1 \in 1..Len(q) /\ q[n + 1] = r[n]
      BY <1>1
    <3> HIDE DEF After, AfterR
    <3>3. QED
      BY <3>1, <3>2
  <2>2. \A n \in 1..Len(q) : n = 1 \/ n - 1 \in 1..Len(r)
    BY <1>1
  <2>3. 1 \in 1..Len(q) /\ (q[1] = <<"sub", f>> <=> g = f /\ op = "sub")
    BY <1>1, <1>2
  <2>4. After(1) <=> \A p \in 1..Len(r) : r[p][2] # f
    <3>1. \A p \in 2..Len(q) : p - 1 \in 1..Len(r) /\ q[p] = r[p - 1]
      BY <1>1
    <3>2. \A p \in 1..Len(r) : p + 1 \in 2..Len(q) /\ q[p + 1] = r[p]
      BY <1>1
    <3>3. 1 + 1 = 2
      OBVIOUS
    <3>4. ASSUME \A p \in 1..Len(r) : r[p][2] # f, NEW p \in 2..Len(q) PROVE q[p][2] # f
      <4>1. PICK i \in 1..Len(r) : q[p] = r[i]
        BY <3>1
      <4>2. QED
        BY <3>4, <4>1
    <3>5. ASSUME \A p \in 2..Len(q) : q[p][2] # f, NEW p \in 1..Len(r) PROVE r[p][2] # f
      <4>1. PICK i \in 2..Len(q) : q[i] = r[p]
        BY <3>2
      <4>2. QED
        BY <3>5, <4>1
    <3>6. QED
      BY <3>3, <3>4, <3>5
  <2> HIDE DEF After, AfterR
  <2>5. ASSUME NEW n \in 1..Len(q), q[n] = <<"sub", f>>, After(n), n # 1
        PROVE \E i \in 1..Len(r) : r[i] = <<"sub", f>> /\ AfterR(i)
    <3>1. n - 1 \in 1..Len(r) /\ (n - 1) + 1 = n
      BY <2>2, <2>5
    <3>2. QED
      BY Zenon, <2>1, <2>5, <3>1
  <2>6. QED
    BY Zenon, <2>1, <2>3, <2>4, <2>5
<1>7. QED
  BY <1>1, <1>2, <1>3, <1>4, <1>6 DEF Pending, r

\* No other step changes what is pending on a connection that works.
LEMMA AckedKept ==
    ASSUME IInv, NEW k \in Conns,
           cmds'[k] = cmds[k], subs'[k] = subs[k], acked'[k] = acked[k],
           open'[k] => open[k], alive'[k] => alive[k]
    PROVE  open'[k] /\ alive'[k] => PendingSubs(k)' = acked'[k]
<1>1. PendingSubs(k)' = PendingSubs(k)
  BY DEF PendingSubs
<1>2. QED
  BY <1>1 DEF IInv, AckedTakesEffect

\* A command that is acknowledged is pending.
LEMMA SubUnsubPends ==
    ASSUME IInv, NEW k \in Conns, NEW sub \in BOOLEAN, NEW f \in Filters,
           SubUnsub(k, sub, f), UNCHANGED <<subs, alive, open>>,
           acked' = [acked EXCEPT ![k] = IF sub THEN @ \cup {f} ELSE @ \ {f}]
    PROVE  AckedTakesEffect' /\ cmds' \in [Conns -> Seq(Commands)] /\ acked' \in [Conns -> SUBSET Filters]
<1> DEFINE op == IF sub THEN "sub" ELSE "unsub"
<1>1. /\ cmds \in [Conns -> Seq(Commands)] /\ acked \in [Conns -> SUBSET Filters]
      /\ cmds' = [cmds EXCEPT ![k] = Append(cmds[k], <<op, f>>)]
      /\ op \in {"sub", "unsub"} /\ <<op, f>> \in Commands
  BY DEF IInv, TypeOK, SubUnsub, Command, Commands
<1>2. cmds' \in [Conns -> Seq(Commands)] /\ acked' \in [Conns -> SUBSET Filters]
  BY <1>1
<1>3. ASSUME NEW j \in Conns, open'[j], alive'[j] PROVE PendingSubs(j)' = acked'[j]
  <2>1. CASE j # k
    <3>1. cmds'[j] = cmds[j] /\ acked'[j] = acked[j]
      BY <1>1, <2>1
    <3>2. subs'[j] = subs[j] /\ (open'[j] => open[j]) /\ (alive'[j] => alive[j])
      OBVIOUS
    <3>3. QED
      BY Zenon, <1>3, <3>1, <3>2, AckedKept
  <2>2. CASE j = k
    <3>1. cmds'[k] = Append(cmds[k], <<op, f>>) /\ acked'[k] = IF sub THEN acked[k] \cup {f} ELSE acked[k] \ {f}
      BY <1>1
    <3>2. PendingSubs(k) = acked[k]
      BY <1>3, <2>2 DEF IInv, AckedTakesEffect
    <3>4. cmds[k] \in Seq(Commands)
      BY <1>1
    <3>5. \A g \in Filters : Pending(cmds'[k], subs[k], g) <=>
                               IF g = f THEN op = "sub" ELSE Pending(cmds[k], subs[k], g)
      BY Zenon, <1>1, <3>1, <3>4, PendingAppend
    <3>6. \A g \in Filters : g \in acked[k] <=> Pending(cmds[k], subs[k], g)
      BY <3>2, PendingSubsDef
    <3>7. acked[k] \subseteq Filters
      BY <1>1
    <3>8. op = "sub" <=> sub
      OBVIOUS
    <3>9. {g \in Filters : Pending(cmds'[k], subs[k], g)} = acked'[k]
      BY <3>1, <3>5, <3>6, <3>7, <3>8
    <3>10. PendingSubs(j)' = {g \in Filters : Pending(cmds'[j], subs[j], g)}
      BY DEF PendingSubs, Pending
    <3>11. QED
      BY <2>2, <3>9, <3>10
  <2>3. QED
    BY <2>1, <2>2
<1>4. QED
  BY <1>2, <1>3 DEF AckedTakesEffect

\* The subscriptions side of a step that only loses connections.
LEMMA AckedKeptAll ==
    ASSUME IInv, UNCHANGED <<cmds, subs, acked>>,
           \A k \in Conns : (open'[k] => open[k]) /\ (alive'[k] => alive[k])
    PROVE  AckedTakesEffect'
<1>1. ASSUME NEW k \in Conns, open'[k], alive'[k] PROVE PendingSubs(k)' = acked'[k]
  BY <1>1, AckedKept
<1>2. QED
  BY <1>1 DEF AckedTakesEffect

\* EventOnce is about what was received, and whom it was sent to.
LEMMA EventOnceKept == ASSUME EventOnce, UNCHANGED <<target, received>> PROVE EventOnce'
BY Zenon DEF EventOnce

\* NoSendOnClosed is about the channel and its sendEvent goroutines.
LEMMA NoSendKept == ASSUME NoSendOnClosed, UNCHANGED <<loop, sending>> PROVE NoSendOnClosed'
BY DEF NoSendOnClosed

\* InFlightOnce is about the events, wherever they are.
LEMMA InFlightKept ==
    ASSUME InFlightOnce, UNCHANGED <<target, out, sending, received>> PROVE InFlightOnce'
BY DEF InFlightOnce

\* NotYetPublished allows that more requests are answered.
LEMMA NotYetKept ==
    ASSUME NotYetPublished, UNCHANGED target,
           \A m \in Pubs : answer'[m] = "none" => answer[m] = "none"
    PROVE  NotYetPublished'
BY DEF NotYetPublished

\* The events side of a step that leaves the events alone.
LEMMA EventsKept ==
    ASSUME IInv, UNCHANGED <<answer, target, out, loop, sending, received>>
    PROVE  EventOnce' /\ NoSendOnClosed' /\ InFlightOnce' /\ NotYetPublished'
<1>1. EventOnce /\ NoSendOnClosed /\ InFlightOnce /\ NotYetPublished
  BY DEF IInv
<1>2. QED
  BY <1>1, EventOnceKept, NoSendKept, InFlightKept, NotYetKept

\* A SUB or an UNSB whose command cannot be written.
LEMMA SubUnsubFailsKeeps ==
    ASSUME IInv, NEW k \in Conns, NEW sub \in BOOLEAN, NEW f \in Filters,
           SubUnsubFails(k, sub, f), UNCHANGED <<subs, alive, acked>>
    PROVE  /\ AckedTakesEffect'
           /\ cmds' \in [Conns -> Seq(Commands)] /\ open' \in [Conns -> BOOLEAN]
<1>1. cmds \in [Conns -> Seq(Commands)] /\ open \in [Conns -> BOOLEAN] /\ Command(sub, f) \in Commands
  BY DEF IInv, TypeOK, Command, Commands
<1>2. open' = [open EXCEPT ![k] = FALSE] /\ open' \in [Conns -> BOOLEAN]
  BY <1>1 DEF SubUnsubFails
<1>3. cmds' \in [Conns -> Seq(Commands)] /\ \A j \in Conns \ {k} : cmds'[j] = cmds[j]
  <2>1. CASE cmds' = cmds
    BY <1>1, <2>1
  <2>2. CASE cmds' = [cmds EXCEPT ![k] = Append(@, Command(sub, f))]
    BY <1>1, <2>2
  <2>3. QED
    BY <2>1, <2>2 DEF SubUnsubFails
<1>4. ASSUME NEW j \in Conns, open'[j], alive'[j] PROVE PendingSubs(j)' = acked'[j]
  <2>1. j # k /\ open[j]
    BY <1>1, <1>2, <1>4
  <2>2. cmds'[j] = cmds[j] /\ subs'[j] = subs[j] /\ acked'[j] = acked[j] /\ alive[j]
    BY <1>3, <1>4, <2>1
  <2>3. QED
    BY <1>4, <2>1, <2>2, AckedKept
<1>5. QED
  BY Zenon, <1>2, <1>3, <1>4 DEF AckedTakesEffect

\* A SUB or an UNSB, whether its command is written or not.
LEMMA SubStep ==
    ASSUME IInv, NEW k \in Conns, NEW f \in Filters, ProcessSub(k, f) \/ ProcessUnsb(k, f)
    PROVE  IInv'
<1> USE BoundAssumption
<1>1. count' \in [Conns -> 0..MaxCmds]
  <2>1. count[k] < MaxCmds /\ count' = [count EXCEPT ![k] = count[k] + 1]
    BY Zenon DEF ProcessSub, ProcessUnsb
  <2>2. count \in [Conns -> 0..MaxCmds] /\ count[k] + 1 \in 0..MaxCmds
    BY <2>1 DEF IInv, TypeOK
  <2>3. QED
    BY <2>1, <2>2
<1>2. UNCHANGED <<answer, target, subs, alive, out, loop, sending, received>>
  BY Zenon DEF ProcessSub, ProcessUnsb, pubVars, listenVars
<1>3. EventOnce' /\ NoSendOnClosed' /\ InFlightOnce' /\ NotYetPublished'
  BY <1>2, EventsKept
<1>4. PICK sub \in BOOLEAN :
        \/ /\ SubUnsub(k, sub, f) /\ UNCHANGED open
           /\ acked' = [acked EXCEPT ![k] = IF sub THEN @ \cup {f} ELSE @ \ {f}]
        \/ SubUnsubFails(k, sub, f) /\ UNCHANGED acked
  <2>1. CASE ProcessSub(k, f)
    BY Zenon, <2>1 DEF ProcessSub
  <2>2. CASE ProcessUnsb(k, f)
    BY Zenon, <2>2 DEF ProcessUnsb
  <2>3. QED
    BY <2>1, <2>2
<1>5. /\ AckedTakesEffect' /\ cmds' \in [Conns -> Seq(Commands)]
      /\ acked' \in [Conns -> SUBSET Filters] /\ open' \in [Conns -> BOOLEAN]
  <2>1. acked \in [Conns -> SUBSET Filters] /\ open \in [Conns -> BOOLEAN]
    BY DEF IInv, TypeOK
  <2>2. CASE SubUnsub(k, sub, f) /\ UNCHANGED open
             /\ acked' = [acked EXCEPT ![k] = IF sub THEN @ \cup {f} ELSE @ \ {f}]
    BY Zenon, <1>2, <2>1, <2>2, SubUnsubPends
  <2>3. CASE SubUnsubFails(k, sub, f) /\ UNCHANGED acked
    BY <1>2, <2>1, <2>3, SubUnsubFailsKeeps
  <2>4. QED
    BY <1>4, <2>2, <2>3
<1>6. TypeOK'
  BY <1>1, <1>2, <1>5 DEF IInv, TypeOK
<1>7. QED
  BY <1>3, <1>5, <1>6 DEF IInv

\* Redis executes the first command that waits: the pending subscriptions
\* stay the same.
LEMMA ExecuteStep == ASSUME IInv, NEW k \in Conns, RedisExecutes(k) PROVE IInv'
<1>1. /\ UNCHANGED <<answer, target, acked, count, open, alive, out, loop, sending, received>>
      /\ cmds[k] # <<>> /\ subs' = [subs EXCEPT ![k] = Apply(Head(cmds[k]), subs[k])]
      /\ cmds' = [cmds EXCEPT ![k] = Tail(cmds[k])]
  BY DEF RedisExecutes, pubVars, subVars, listenVars
<1>2. cmds \in [Conns -> Seq(Commands)] /\ subs \in [Conns -> SUBSET Filters]
  BY DEF IInv, TypeOK
<1>3. cmds[k] \in Seq(Commands) /\ Tail(cmds[k]) \in Seq(Commands) /\ Head(cmds[k]) \in Commands
  BY <1>1, <1>2
<1>4. cmds' \in [Conns -> Seq(Commands)] /\ subs' \in [Conns -> SUBSET Filters]
  <2>1. Apply(Head(cmds[k]), subs[k]) \in SUBSET Filters
    BY <1>2, <1>3 DEF Apply, Commands
  <2>2. QED
    BY <1>1, <1>2, <1>3, <2>1
<1>5. ASSUME NEW j \in Conns, open'[j], alive'[j] PROVE PendingSubs(j)' = acked'[j]
  <2>1. CASE j # k
    <3>1. cmds'[j] = cmds[j] /\ subs'[j] = subs[j] /\ acked'[j] = acked[j]
      BY <1>1, <1>2, <2>1
    <3>2. (open'[j] => open[j]) /\ (alive'[j] => alive[j])
      BY <1>1
    <3>3. QED
      BY <1>5, <3>1, <3>2, AckedKept
  <2>2. CASE j = k
    <3>1. PendingSubs(j)' = {g \in Filters : Pending(cmds'[j], subs'[j], g)}
      BY DEF PendingSubs, Pending
    <3>2. cmds'[j] = Tail(cmds[k]) /\ subs'[j] = Apply(Head(cmds[k]), subs[k])
      BY <1>1, <1>2, <2>2
    <3>3. \A g \in Filters : Pending(cmds'[j], subs'[j], g) <=> Pending(cmds[k], subs[k], g)
      BY <1>1, <1>3, <3>2, PendingTail
    <3>4. {g \in Filters : Pending(cmds[k], subs[k], g)} = acked[k]
      BY <1>1, <1>5, <2>2, PendingSubsDef DEF IInv, AckedTakesEffect
    <3>5. {g \in Filters : Pending(cmds'[j], subs'[j], g)} = {g \in Filters : Pending(cmds[k], subs[k], g)}
      BY <3>3
    <3>6. acked'[j] = acked[k]
      BY <1>1, <2>2
    <3>7. QED
      BY <3>1, <3>4, <3>5, <3>6
  <2>3. QED
    BY <2>1, <2>2
<1>6. TypeOK'
  BY <1>1, <1>4 DEF IInv, TypeOK
<1>7. QED
  BY <1>1, <1>5, <1>6, EventsKept DEF IInv, AckedTakesEffect

\* The events side of a PUB: nothing of the event is in flight before.
LEMMA PublishStep ==
    ASSUME IInv, NEW m \in Pubs, NEW c \in Channels, answer[m] = "none", Publish(m, c),
           UNCHANGED <<loop, sending, received>>,
           answer' \in [Pubs -> {"none", "ack", "nack"}],
           \A j \in Pubs : answer'[j] = "none" => answer[j] = "none" /\ j # m
    PROVE  /\ EventOnce' /\ NoSendOnClosed' /\ InFlightOnce' /\ NotYetPublished'
           /\ target' \in [Pubs -> SUBSET (Conns \X Filters)]
           /\ out' \in [Conns -> SUBSET Events]
<1> DEFINE new == {kf \in Conns \X Filters : kf[2] \in Matching(kf[1], c)}
<1>1. /\ target \in [Pubs -> SUBSET (Conns \X Filters)] /\ out \in [Conns -> SUBSET Events]
      /\ target' = [target EXCEPT ![m] = new]
      /\ out' = [k \in Conns |-> out[k] \cup ({m} \X Matching(k, c))]
      /\ received \in [Conns -> Seq(Events)] /\ sending \in [Conns -> SUBSET Events]
  BY DEF IInv, TypeOK, Publish
<1>2. \A k \in Conns : Matching(k, c) \subseteq Filters
  BY DEF IInv, TypeOK, Matching
<1>3. target' \in [Pubs -> SUBSET (Conns \X Filters)] /\ out' \in [Conns -> SUBSET Events]
  <2>1. new \in SUBSET (Conns \X Filters)
    OBVIOUS
  <2>2. \A k \in Conns : out[k] \cup ({m} \X Matching(k, c)) \in SUBSET Events
    BY <1>1, <1>2 DEF Events
  <2>3. QED
    BY <1>1, <2>1, <2>2
<1>4. target[m] = {} /\ target'[m] = new /\ \A j \in Pubs \ {m} : target'[j] = target[j]
  BY <1>1 DEF IInv, NotYetPublished
<1> HIDE DEF new
<1>5. \A k \in Conns, e \in Events : <<k, e[2]>> \in target[e[1]] =>
                                      e[1] # m /\ <<k, e[2]>> \in target'[e[1]]
  BY <1>4 DEF Events
<1>6. ASSUME NEW k \in Conns, NEW n \in 1..Len(received[k])
      PROVE  received[k][n] \in Events /\ <<k, received[k][n][2]>> \in target[received[k][n][1]]
  <2>1. received[k] \in Seq(Events)
    BY <1>1
  <2>2. received[k][n] \in Events
    BY <2>1
  <2>3. <<k, received[k][n][2]>> \in target[received[k][n][1]]
    BY Zenon DEF IInv, EventOnce
  <2>4. QED
    BY <2>2, <2>3
<1>7. EventOnce'
  BY Zenon, <1>5, <1>6 DEF IInv, EventOnce
<1>8. NoSendOnClosed'
  BY DEF IInv, NoSendOnClosed
<1>9. NotYetPublished'
  BY <1>4 DEF IInv, NotYetPublished
<1>10. InFlightOnce'
  <2>1. SUFFICES ASSUME NEW k \in Conns, NEW e \in Events, e \in out'[k] \cup sending[k]
                 PROVE  /\ <<k, e[2]>> \in target'[e[1]]
                        /\ ~(e \in out'[k] /\ e \in sending[k])
                        /\ \A n \in 1..Len(received[k]) : received[k][n] # e
    BY DEF InFlightOnce
  <2>2. CASE e \in out[k] \cup sending[k]
    <3>1. /\ <<k, e[2]>> \in target[e[1]] /\ ~(e \in out[k] /\ e \in sending[k])
          /\ \A n \in 1..Len(received[k]) : received[k][n] # e
      BY <2>2 DEF IInv, InFlightOnce
    <3>2. e[1] # m /\ <<k, e[2]>> \in target'[e[1]]
      BY <1>5, <3>1
    <3>3. e \in out'[k] => e \in out[k]
      BY <1>1, <3>2
    <3>4. QED
      BY <3>1, <3>2, <3>3
  <2>3. CASE e \notin out[k] \cup sending[k]
    <3>1. e \in {m} \X Matching(k, c)
      BY <1>1, <2>1, <2>3
    <3>2. e[1] = m /\ e[2] \in Matching(k, c) /\ e[2] \in Filters
      BY <1>2, <3>1
    <3>3. <<k, e[2]>> \in target'[e[1]]
      BY <1>4, <3>2 DEF new
    <3>4. \A n \in 1..Len(received[k]) : received[k][n] # e
      BY Zenon, <1>5, <1>6, <3>2
    <3>5. QED
      BY <2>3, <3>3, <3>4
  <2>4. QED
    BY <2>2, <2>3
<1>11. QED
  BY <1>3, <1>7, <1>8, <1>9, <1>10

\* A PUB, whatever its answer, and whether redis published it or not.
LEMMA PubStep == ASSUME IInv, NEW m \in Pubs, NEW c \in Channels, ProcessPub(m, c) PROVE IInv'
<1>1. /\ answer[m] = "none"
      /\ UNCHANGED <<cmds, subs, acked, count, open, alive, loop, sending, received>>
  BY DEF ProcessPub, subVars, listenVars
<1>2. /\ answer' \in [Pubs -> {"none", "ack", "nack"}]
      /\ \A j \in Pubs : answer'[j] = "none" => answer[j] = "none" /\ j # m
  BY Zenon DEF ProcessPub, IInv, TypeOK
<1>3. AckedTakesEffect'
  BY <1>1, AckedKeptAll
<1>4. /\ EventOnce' /\ NoSendOnClosed' /\ InFlightOnce' /\ NotYetPublished'
      /\ target' \in [Pubs -> SUBSET (Conns \X Filters)]
      /\ out' \in [Conns -> SUBSET Events]
  <2>1. CASE Publish(m, c)
    BY <1>1, <1>2, <2>1, PublishStep
  <2>2. CASE UNCHANGED <<target, out>>
    <3>1. /\ EventOnce /\ NoSendOnClosed /\ InFlightOnce /\ NotYetPublished
          /\ target \in [Pubs -> SUBSET (Conns \X Filters)] /\ out \in [Conns -> SUBSET Events]
      BY DEF IInv, TypeOK
    <3>2. QED
      BY <1>1, <1>2, <2>2, <3>1, EventOnceKept, NoSendKept, InFlightKept, NotYetKept
  <2>3. QED
    BY <2>1, <2>2 DEF ProcessPub
<1>5. TypeOK'
  BY <1>1, <1>2, <1>4 DEF IInv, TypeOK
<1>6. QED
  BY <1>3, <1>4, <1>5 DEF IInv

\* listen takes an event from the connection to a sendEvent goroutine.
LEMMA ReceiveStep ==
    ASSUME IInv, NEW k \in Conns, NEW e \in Events, Receive(k, e) PROVE IInv'
<1>1. /\ UNCHANGED <<answer, target, cmds, subs, acked, count, open, alive, loop, received>>
      /\ loop[k] = "listening" /\ e \in out[k]
      /\ out' = [out EXCEPT ![k] = out[k] \ {e}]
      /\ sending' = [sending EXCEPT ![k] = sending[k] \cup {e}]
  BY DEF Receive, pubVars, subVars
<1>2. out \in [Conns -> SUBSET Events] /\ sending \in [Conns -> SUBSET Events]
  BY DEF IInv, TypeOK
<1>3. TypeOK'
  BY <1>1, <1>2 DEF IInv, TypeOK
<1>4. AckedTakesEffect'
  BY <1>1, AckedKeptAll
<1>5. EventOnce' /\ NotYetPublished'
  BY <1>1, EventOnceKept, NotYetKept DEF IInv
<1>6. NoSendOnClosed'
  BY <1>1, <1>2 DEF IInv, NoSendOnClosed
<1>7. InFlightOnce'
  BY <1>1, <1>2 DEF IInv, InFlightOnce
<1>8. QED
  BY <1>3, <1>4, <1>5, <1>6, <1>7 DEF IInv

\* A sendEvent goroutine returns, with its event sent or dropped.
LEMMA SendStep ==
    ASSUME IInv, NEW k \in Conns, NEW e \in Events, SendEvent(k, e) \/ SendEventFails(k, e)
    PROVE  IInv'
<1>1. /\ UNCHANGED <<answer, target, cmds, subs, acked, count, open, alive, out, loop>>
      /\ e \in sending[k] /\ sending' = [sending EXCEPT ![k] = sending[k] \ {e}]
  BY DEF SendEvent, SendEventFails, pubVars, subVars
<1>2. /\ out \in [Conns -> SUBSET Events] /\ sending \in [Conns -> SUBSET Events]
      /\ received \in [Conns -> Seq(Events)]
  BY DEF IInv, TypeOK
<1>3. AckedTakesEffect' /\ NotYetPublished'
  BY <1>1, AckedKeptAll DEF IInv, NotYetPublished
<1>4. NoSendOnClosed' /\ sending' \in [Conns -> SUBSET Events]
  BY <1>1, <1>2 DEF IInv, NoSendOnClosed
<1>5. CASE SendEventFails(k, e)
  <2>1. UNCHANGED received
    BY <1>5 DEF SendEventFails
  <2>2. TypeOK' /\ EventOnce' /\ InFlightOnce'
    BY Zenon, <1>1, <1>2, <1>4, <2>1 DEF IInv, TypeOK, EventOnce, InFlightOnce
  <2>3. QED
    BY <1>3, <1>4, <2>2 DEF IInv
<1>6. CASE SendEvent(k, e)
  <2>1. e[1] \notin Foreign /\ received' = [received EXCEPT ![k] = Append(received[k], e)]
    BY <1>6 DEF SendEvent
  <2>2. received[k] \in Seq(Events)
    BY <1>2
  <2>3. received' \in [Conns -> Seq(Events)]
    BY <1>2, <2>1, <2>2
  <2>4. /\ received'[k] = Append(received[k], e)
        /\ \A j \in Conns \ {k} : received'[j] = received[j]
    BY <1>2, <2>1
  <2>5. /\ Len(received[k]) \in Nat /\ Len(received'[k]) = Len(received[k]) + 1
        /\ received'[k][Len(received[k]) + 1] = e
        /\ \A n \in 1..Len(received[k]) : received'[k][n] = received[k][n]
    BY <2>2, <2>4
  <2>6. <<k, e[2]>> \in target[e[1]] /\ \A n \in 1..Len(received[k]) : received[k][n] # e
    BY <1>1 DEF IInv, InFlightOnce
  <2>7. \A n \in 1..Len(received'[k]) : n = Len(received[k]) + 1 \/ n \in 1..Len(received[k])
    BY <2>5
  <2>8. EventOnce'
    <3>1. SUFFICES ASSUME NEW j \in Conns
                   PROVE  /\ \A n \in 1..Len(received'[j]) :
                                /\ <<j, received'[j][n][2]>> \in target[received'[j][n][1]]
                                /\ received'[j][n][1] \notin Foreign
                          /\ \A m, n \in 1..Len(received'[j]) :
                                received'[j][m] = received'[j][n] => m = n
      BY <1>1 DEF EventOnce
    <3>2. /\ \A n \in 1..Len(received[j]) :
                /\ <<j, received[j][n][2]>> \in target[received[j][n][1]]
                /\ received[j][n][1] \notin Foreign
          /\ \A m, n \in 1..Len(received[j]) : received[j][m] = received[j][n] => m = n
      BY Zenon DEF IInv, EventOnce
    <3>3. CASE j # k
      BY Zenon, <2>4, <3>2, <3>3
    <3>4. CASE j = k
      <4>1. ASSUME NEW n \in 1..Len(received'[k])
            PROVE  <<k, received'[k][n][2]>> \in target[received'[k][n][1]] /\ received'[k][n][1] \notin Foreign
        <5>1. CASE n = Len(received[k]) + 1
          BY <2>1, <2>5, <2>6, <5>1
        <5>2. CASE n \in 1..Len(received[k])
          BY Zenon, <2>5, <3>2, <3>4, <5>2
        <5>3. QED
          BY <2>7, <5>1, <5>2
      <4>2. ASSUME NEW m \in 1..Len(received'[k]), NEW n \in 1..Len(received'[k]),
                   received'[k][m] = received'[k][n]
            PROVE  m = n
        <5>1. CASE m \in 1..Len(received[k]) /\ n \in 1..Len(received[k])
          BY <2>5, <3>2, <3>4, <4>2, <5>1
        <5>2. QED
          BY <2>5, <2>6, <2>7, <4>2, <5>1
      <4>3. QED
        BY <3>4, <4>1, <4>2
    <3>5. QED
      BY Zenon, <3>3, <3>4
  <2>9. InFlightOnce'
    <3>1. SUFFICES ASSUME NEW j \in Conns, NEW d \in Events, d \in out[j] \cup sending'[j]
                   PROVE  /\ <<j, d[2]>> \in target[d[1]]
                          /\ ~(d \in out[j] /\ d \in sending'[j])
                          /\ \A n \in 1..Len(received'[j]) : received'[j][n] # d
      BY <1>1 DEF InFlightOnce
    <3>2. d \in sending'[j] => d \in sending[j] /\ (j = k => d # e)
      BY <1>1, <1>2
    <3>3. /\ <<j, d[2]>> \in target[d[1]] /\ ~(d \in out[j] /\ d \in sending[j])
          /\ \A n \in 1..Len(received[j]) : received[j][n] # d
      BY <3>1, <3>2 DEF IInv, InFlightOnce
    <3>4. j = k => d # e
      BY <1>1, <3>1, <3>2, <3>3
    <3>5. \A n \in 1..Len(received'[j]) : received'[j][n] # d
      <4>1. CASE j # k
        BY <2>4, <3>3, <4>1
      <4>2. CASE j = k
        BY <2>5, <2>7, <3>3, <3>4, <4>2
      <4>3. QED
        BY <4>1, <4>2
    <3>6. QED
      BY <3>2, <3>3, <3>5
  <2>10. TypeOK'
    BY <1>1, <1>4, <2>3 DEF IInv, TypeOK
  <2>11. QED
    BY <1>3, <1>4, <2>8, <2>9, <2>10 DEF IInv
<1>7. QED
  BY <1>5, <1>6

\* The other steps of a connection lose it or move its listen goroutine on.
LEMMA ConnStep ==
    ASSUME IInv, NEW k \in Conns,
           RedisDrops(k) \/ StartListen(k) \/ ReceiveFails(k) \/ CloseEvents(k) \/ Close(k)
    PROVE  IInv'
<1>1. UNCHANGED <<answer, target, cmds, acked, count, out, sending, received>>
  BY DEF RedisDrops, StartListen, ReceiveFails, CloseEvents, Close, pubVars, subVars, listenVars
<1>2. TypeOK'
  <2>1. TypeOK
    BY DEF IInv
  <2>2. open' \in [Conns -> BOOLEAN] /\ alive' \in [Conns -> BOOLEAN]
    BY Zenon, <2>1 DEF TypeOK, RedisDrops, StartListen, ReceiveFails, CloseEvents, Close
  <2>3. subs' \in [Conns -> SUBSET Filters]
    BY Zenon, <2>1 DEF TypeOK, RedisDrops, StartListen, ReceiveFails, CloseEvents, Close
  <2>4. loop' \in [Conns -> {"new", "listening", "waiting", "closed"}]
    BY Zenon, <2>1 DEF TypeOK, RedisDrops, StartListen, ReceiveFails, CloseEvents, Close, listenVars
  <2>5. QED
    BY <1>1, <2>1, <2>2, <2>3, <2>4 DEF TypeOK
<1>3. EventOnce' /\ InFlightOnce' /\ NotYetPublished'
  BY <1>1, EventOnceKept, InFlightKept, NotYetKept DEF IInv
<1>4. NoSendOnClosed'
  <2>1. loop \in [Conns -> {"new", "listening", "waiting", "closed"}] /\ NoSendOnClosed
    BY DEF IInv, TypeOK
  <2>2. \A j \in Conns : loop'[j] = "closed" => loop[j] = "closed" \/ sending[j] = {}
    BY <2>1 DEF RedisDrops, StartListen, ReceiveFails, CloseEvents, Close, listenVars
  <2>3. QED
    BY <1>1, <2>1, <2>2 DEF NoSendOnClosed
<1>5. ASSUME NEW j \in Conns, open'[j], alive'[j] PROVE PendingSubs(j)' = acked'[j]
  <2>1. cmds'[j] = cmds[j] /\ acked'[j] = acked[j] /\ subs'[j] = subs[j]
    BY <1>1, <1>5 DEF IInv, TypeOK, RedisDrops, StartListen, ReceiveFails, CloseEvents, Close
  <2>2. (open'[j] => open[j]) /\ (alive'[j] => alive[j])
    BY Zenon, <1>5 DEF IInv, TypeOK, RedisDrops, StartListen, ReceiveFails, CloseEvents, Close
  <2>3. QED
    BY <1>5, <2>1, <2>2, AckedKept
<1>6. QED
  BY <1>2, <1>3, <1>4, <1>5 DEF IInv, AckedTakesEffect

\* Every step keeps the invariant.
LEMMA Step == IInv /\ [Next]_vars => IInv'
<1> SUFFICES ASSUME IInv, [Next]_vars PROVE IInv'
  OBVIOUS
<1>1. CASE Next
  BY <1>1, SubStep, PubStep, ExecuteStep, ReceiveStep, SendStep, ConnStep DEF Next
<1>2. CASE UNCHANGED vars
  <2>1. UNCHANGED <<answer, target, cmds, subs, acked, count, open, alive, out, loop, sending, received>>
    BY <1>2 DEF vars, pubVars, subVars, listenVars
  <2>2. TypeOK'
    BY <2>1 DEF IInv, TypeOK
  <2>3. EventOnce' /\ NoSendOnClosed' /\ InFlightOnce' /\ NotYetPublished'
    BY <2>1, EventsKept
  <2>4. AckedTakesEffect'
    BY <2>1, AckedKeptAll
  <2>5. QED
    BY <2>2, <2>3, <2>4 DEF IInv
<1>3. QED
  BY <1>1, <1>2

\* No request was processed yet.
LEMMA InitHolds == Init => IInv
<1> SUFFICES ASSUME Init PROVE IInv
  OBVIOUS
<1>1. TypeOK
  BY BoundAssumption DEF Init, TypeOK
<1>2. AckedTakesEffect
  <2>1. ASSUME NEW k \in Conns PROVE PendingSubs(k) = acked[k]
    <3>1. cmds[k] = <<>> /\ subs[k] = {} /\ acked[k] = {} /\ 1..Len(<<>>) = {}
      BY DEF Init
    <3>2. QED
      BY <3>1 DEF PendingSubs
  <2>2. QED
    BY <2>1 DEF AckedTakesEffect
<1>3. EventOnce
  <2>1. ASSUME NEW k \in Conns PROVE 1..Len(received[k]) = {}
    BY DEF Init
  <2>2. QED
    BY <2>1 DEF EventOnce
<1>4. NoSendOnClosed /\ NotYetPublished
  BY DEF Init, NoSendOnClosed, NotYetPublished
<1>5. InFlightOnce
  BY DEF Init, InFlightOnce
<1>6. QED
  BY <1>1, <1>2, <1>3, <1>4, <1>5 DEF IInv

\* The invariant of publish and subscribe holds in every state (subUnsub,
\* listen, sendEvent, Publish).
THEOREM PubSubInvariant == Safety => []IInv
BY InitHolds, Step, PTL DEF Safety

\* Redis ends up with the subscriptions that were acknowledged, as long as the
\* connection works (subUnsub, and the SUB and UNSB cases of ProcessMsg).
THEOREM AckedTakesEffectHolds == Safety => []AckedTakesEffect
<1>1. IInv => AckedTakesEffect
  BY DEF IInv
<1>2. QED
  BY <1>1, PubSubInvariant, PTL

\* An event is received at most once per subscription it was published to, and
\* never by others (listen, sendEvent).
THEOREM EventOnceHolds == Safety => []EventOnce
<1>1. IInv => EventOnce
  BY DEF IInv
<1>2. QED
  BY <1>1, PubSubInvariant, PTL

\* No sendEvent goroutine sends on a closed channel (the WaitGroup of listen).
THEOREM NoSendOnClosedHolds == Safety => []NoSendOnClosed
<1>1. IInv => NoSendOnClosed
  BY DEF IInv
<1>2. QED
  BY <1>1, PubSubInvariant, PTL

=============================================================================
