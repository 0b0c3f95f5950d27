--------------------------- MODULE RedisQueueProofs ---------------------------
(***************************************************************************)
(* Proofs about RedisQueue, for any number of items and connections, any   *)
(* timeouts and any capacities.                                            *)
(***************************************************************************)
EXTENDS RedisQueue, TLAPS

-----------------------------------------------------------------------------
(* The two operations on the list.                                         *)

\* BRPOP removes the last element and keeps the others.
LEMMA PopList ==
    ASSUME NEW S, NEW l \in Seq(S), l # <<>>
    PROVE  /\ Len(l) \in Nat \ {0}
           /\ l[Len(l)] \in S
           /\ SubSeq(l, 1, Len(l) - 1) \in Seq(S)
           /\ Len(SubSeq(l, 1, Len(l) - 1)) = Len(l) - 1
           /\ \A n \in 1..(Len(l) - 1) : SubSeq(l, 1, Len(l) - 1)[n] = l[n]
<1>1. Len(l) \in Nat \ {0} /\ l[Len(l)] \in S
  OBVIOUS
<1>2. \A n \in 1..(Len(l) - 1) : l[n] \in S
  OBVIOUS
<1> DEFINE m == Len(l) - 1
<1>3. m \in Nat
  BY <1>1
<1>4. /\ SubSeq(l, 1, m) \in Seq(S)
      /\ Len(SubSeq(l, 1, m)) = IF 1 <= m THEN m - 1 + 1 ELSE 0
      /\ \A n \in 1..(m - 1 + 1) : SubSeq(l, 1, m)[n] = l[1 + n - 1]
  <2> HIDE DEF m
  <2>. QED  BY <1>2, <1>3 DEF m
<1>5. m - 1 + 1 = m /\ (IF 1 <= m THEN m - 1 + 1 ELSE 0) = m /\ \A n \in 1..m : 1 + n - 1 = n
  BY <1>3
<1>. QED  BY <1>1, <1>3, <1>4, <1>5

\* Under the capacity, the script adds the item at the front of the list.
LEMMA PushKeeps ==
    ASSUME NEW i \in Items, NEW cap \in Nat, list \in Seq(Items), ~OverCap(cap)
    PROVE  /\ PushedList(i, cap) \in Seq(Items)
           /\ Len(PushedList(i, cap)) = Len(list) + 1
           /\ PushedList(i, cap)[1] = i
           /\ \A n \in 1..Len(list) : PushedList(i, cap)[n + 1] = list[n]
<1> DEFINE l == <<i>> \o list
<1>1. /\ l \in Seq(Items) /\ Len(l) = Len(list) + 1 /\ l[1] = i
      /\ \A n \in 1..Len(list) : l[n + 1] = list[n]
  OBVIOUS
<1>2. PushedList(i, cap) = l
  BY <1>1 DEF PushedList, OverCap
<1>. QED  BY <1>1, <1>2

\* Over the capacity, it leaves the older elements of the list: the item just
\* pushed is among the ones it drops.
LEMMA PushTrims ==
    ASSUME NEW i \in Items, NEW cap \in Nat, list \in Seq(Items), OverCap(cap)
    PROVE  /\ PushedList(i, cap) \in Seq(Items)
           /\ Len(PushedList(i, cap)) = cap
           /\ Len(list) - cap \in Nat
           /\ \A n \in 1..cap : PushedList(i, cap)[n] = list[n + (Len(list) - cap)]
<1> DEFINE l == <<i>> \o list
           d == Len(l) - cap
<1>1. /\ l \in Seq(Items) /\ Len(l) = Len(list) + 1
      /\ \A n \in 1..Len(list) : l[n + 1] = list[n]
  OBVIOUS
<1>2. cap > 0 /\ d \in Nat /\ d > 0 /\ Len(list) - cap = d - 1
  BY <1>1 DEF OverCap
<1>3. PushedList(i, cap) = SubSeq(l, d + 1, Len(l))
  BY <1>1, <1>2 DEF PushedList, LTrim
<1>4. \A n \in (d + 1)..Len(l) : l[n] \in Items
  BY <1>1, <1>2
<1>5. /\ SubSeq(l, d + 1, Len(l)) \in Seq(Items)
      /\ Len(SubSeq(l, d + 1, Len(l))) = cap
      /\ \A n \in 1..cap : SubSeq(l, d + 1, Len(l))[n] = l[n + d]
  <2>1. d + 1 \in Int /\ Len(l) \in Int /\ d + 1 <= Len(l) /\ Len(l) - (d + 1) + 1 = cap
    BY <1>1, <1>2
  <2> HIDE DEF l, d
  <2>2. /\ SubSeq(l, d + 1, Len(l)) \in Seq(Items)
        /\ Len(SubSeq(l, d + 1, Len(l))) = Len(l) - (d + 1) + 1
        /\ \A n \in 1..(Len(l) - (d + 1) + 1) : SubSeq(l, d + 1, Len(l))[n] = l[(d + 1) + n - 1]
    BY <1>4, <2>1
  <2>3. \A n \in 1..cap : (d + 1) + n - 1 = n + d
    BY <1>2
  <2>. QED  BY <2>1, <2>2, <2>3
<1>6. \A n \in 1..cap : l[n + d] = list[n + (Len(list) - cap)]
  <2> SUFFICES ASSUME NEW n \in 1..cap PROVE l[n + d] = list[n + (Len(list) - cap)]
    BY Zenon
  <2>1. n + (d - 1) \in 1..Len(list) /\ n + d = (n + (d - 1)) + 1
    BY <1>1, <1>2
  <2>. QED  BY <1>1, <1>2, <2>1
<1>. QED  BY <1>2, <1>3, <1>5, <1>6

-----------------------------------------------------------------------------
(* What the actions do to the list.                                        *)

\* The script leaves a list without duplicates, whose items were on the list
\* except for the one it registers, which is there if it was not refused.
LEMMA ScriptList ==
    ASSUME NEW i \in Items, NEW t \in Timeouts, NEW cap \in Caps,
           list \in Seq(Items), NoDup(list), ~InList(i), Script(i, t, cap)
    PROVE  /\ list' \in Seq(Items)
           /\ NoDup(list')
           /\ \A n \in 1..Len(list') : \/ InList(list'[n])
                                       \/ list'[n] = i /\ ~OverCap(cap)
<1>1. list' = PushedList(i, cap) /\ cap \in Nat
  BY CapsAssumption DEF Script
<1>2. CASE OverCap(cap)
  <2>1. /\ list' \in Seq(Items) /\ Len(list') = cap /\ Len(list) - cap \in Nat
        /\ \A n \in 1..cap : list'[n] = list[n + (Len(list) - cap)]
    BY <1>1, <1>2, PushTrims
  <2>2. \A n \in 1..cap : n + (Len(list) - cap) \in 1..Len(list)
    BY <1>1, <2>1
  <2>3. NoDup(list')
    <3> SUFFICES ASSUME NEW m \in 1..cap, NEW n \in 1..cap, list'[m] = list'[n]
                 PROVE  m = n
      BY <2>1 DEF NoDup
    <3>1. PICK p \in 1..Len(list), q \in 1..Len(list) :
            p = m + (Len(list) - cap) /\ q = n + (Len(list) - cap)
      BY <2>2
    <3>2. list[p] = list[q]
      BY <2>1, <3>1
    <3>3. p = q
      BY <3>2 DEF NoDup
    <3>. QED  BY <1>1, <2>1, <3>1, <3>3
  <2>. QED  BY Zenon, <2>1, <2>2, <2>3 DEF InList
<1>3. CASE ~OverCap(cap)
  <2>1. /\ list' \in Seq(Items) /\ Len(list') = Len(list) + 1 /\ list'[1] = i
        /\ \A n \in 1..Len(list) : list'[n + 1] = list[n]
    BY <1>1, <1>3, PushKeeps
  <2>2. \A n \in 1..Len(list') : n = 1 \/ (n - 1 \in 1..Len(list) /\ list'[n] = list[n - 1])
    <3> TAKE n \in 1..Len(list')
    <3>1. n = 1 \/ (n - 1 \in 1..Len(list) /\ n = (n - 1) + 1)
      BY <2>1
    <3>. QED  BY <2>1, <3>1
  <2>3. NoDup(list')
    <3> SUFFICES ASSUME NEW m \in 1..Len(list'), NEW n \in 1..Len(list'), list'[m] = list'[n]
                 PROVE  m = n
      BY DEF NoDup
    <3>1. CASE m = 1 \/ n = 1
      BY <2>1, <2>2, <3>1 DEF InList
    <3>2. CASE m # 1 /\ n # 1
      <4>1. m - 1 \in 1..Len(list) /\ list'[m] = list[m - 1]
        BY <2>2, <3>2
      <4>2. n - 1 \in 1..Len(list) /\ list'[n] = list[n - 1]
        BY <2>2, <3>2
      <4>3. m - 1 = n - 1
        BY Zenon, <4>1, <4>2 DEF NoDup
      <4>4. Len(list') \in Nat
        BY <2>1
      <4>. QED  BY <4>3, <4>4
    <3>. QED  BY <3>1, <3>2
  <2>. QED  BY <1>3, <2>1, <2>2, <2>3 DEF InList
<1>. QED  BY <1>2, <1>3

\* BRPOP leaves a list without duplicates, that no longer has the item.
LEMMA PopLeaves ==
    ASSUME list \in Seq(Items), NoDup(list), list # <<>>,
           list' = SubSeq(list, 1, Len(list) - 1)
    PROVE  /\ list[Len(list)] \in Items
           /\ InList(list[Len(list)])
           /\ list' \in Seq(Items)
           /\ NoDup(list')
           /\ \A n \in 1..Len(list') : InList(list'[n]) /\ list'[n] # list[Len(list)]
<1>1. /\ Len(list) \in Nat \ {0} /\ list[Len(list)] \in Items
      /\ list' \in Seq(Items) /\ Len(list') = Len(list) - 1
      /\ \A n \in 1..(Len(list) - 1) : list'[n] = list[n]
  BY PopList
<1>2. \A n \in 1..Len(list') : n \in 1..Len(list) /\ n # Len(list) /\ list'[n] = list[n]
  BY <1>1
<1>3. Len(list) \in 1..Len(list)
  BY <1>1
<1>4. NoDup(list')
  BY <1>2 DEF NoDup
<1>5. InList(list[Len(list)])
  BY <1>3 DEF InList
<1>6. ASSUME NEW n \in 1..Len(list') PROVE InList(list'[n]) /\ list'[n] # list[Len(list)]
  <2>1. n \in 1..Len(list) /\ n # Len(list) /\ list'[n] = list[n]
    BY <1>2
  <2>2. list[n] # list[Len(list)]
    BY <1>3, <2>1 DEF NoDup
  <2>. QED  BY <2>1, <2>2 DEF InList
<1>. QED  BY <1>1, <1>4, <1>5, <1>6

-----------------------------------------------------------------------------
(* The inductive invariant.                                                *)

\* A duration in milliseconds is an integer, whatever its sign.
LEMMA MillisInt == ASSUME NEW t \in Int PROVE Millis(t) \in Int
BY TimeAssumption DEF Millis

\* So is the time that redis sees, a natural number.
LEMMA MstimeNat == ASSUME now \in Nat PROVE mstime \in Nat
BY TimeAssumption DEF mstime

\* The lists are empty and the pollers not started.
LEMMA InitIInv == Init => IInv
BY TimeAssumption DEF Init, IInv, TypeOK, AtMostOnce, NoDup, RefusedNeverTaken,
    NoSendOnClosed, InList, Sending

\* What a call of the script does to the variables it writes.
LEMMA ScriptTypes ==
    ASSUME TypeOK, NEW i \in Items, NEW t \in Timeouts, NEW cap \in Caps, Script(i, t, cap)
    PROVE  /\ keys' \subseteq Items
           /\ expiry' \in [Items -> Nat]
           /\ due' \in [Items -> Nat]
<1>1. now \in Nat /\ t \in Int
  BY TimeAssumption, TimeoutsAssumption DEF TypeOK
<1>2. mstime + TimeoutMs(t) \in Nat
  BY <1>1, MstimeNat, MillisInt, TimeAssumption DEF Script, TimeoutMs
<1>3. (IF t > 0 THEN now + t ELSE now + DefaultMs * Ms) \in Nat
  <2>1. DefaultMs * Ms \in Nat
    BY TimeAssumption
  <2>. QED  BY <1>1, <2>1
<1>. QED  BY <1>2, <1>3 DEF TypeOK, Script

\* Every step of the scripts, the pollers and the senders keeps the types.
LEMMA NextTypeOK == ASSUME IInv, [Next]_vars PROVE TypeOK'
<1> USE DEF IInv, redisVars, sendVars
<1>1. ASSUME NEW i \in Items, NEW t \in Timeouts, NEW cap \in Caps,
             Register(i, t, cap) \/ RegisterNoReply(i, t, cap)
      PROVE  TypeOK'
  <2>1. Script(i, t, cap) /\ ~InList(i) /\ NoDup(list) /\ list \in Seq(Items)
    BY <1>1 DEF Register, RegisterNoReply, AtMostOnce, TypeOK
  <2>2. list' \in Seq(Items)
    BY <2>1, ScriptList
  <2>3. PICK r \in {"ok", "full", "error"} : reply' = [reply EXCEPT ![i] = r]
    BY <1>1 DEF Register, RegisterNoReply
  <2>4. /\ keys' \subseteq Items /\ expiry' \in [Items -> Nat] /\ due' \in [Items -> Nat]
    BY <2>1, ScriptTypes
  <2>5. UNCHANGED <<now, open, poll, blocked, sendVars>>
    BY <1>1 DEF Register, RegisterNoReply
  <2>. QED  BY Zenon, <2>2, <2>3, <2>4, <2>5 DEF TypeOK
<1>2. ASSUME NEW i \in Items, RegisterFails(i) PROVE TypeOK'
  BY <1>2 DEF RegisterFails, TypeOK
<1>3. ASSUME NEW i \in Items, ReadTTL(i) PROVE TypeOK'
  <2>1. PTTL(i) \in Nat
    BY MstimeNat, TimeAssumption DEF PTTL, TypeOK
  <2>. QED  BY <1>3, <2>1 DEF ReadTTL, TypeOK
<1>4. ASSUME NEW i \in Items, ReadTTLFails(i) PROVE TypeOK'
  BY <1>4 DEF ReadTTLFails, TypeOK
<1>5. ASSUME NEW i \in Items, Deliver(i) PROVE TypeOK'
  BY <1>5 DEF Deliver, TypeOK
<1>6. ASSUME NEW k \in Conns, StartPoll(k) \/ PollFails(k) \/ CloseChannel(k) \/ Close(k)
      PROVE  TypeOK'
  <2>1. CASE StartPoll(k)
    BY <2>1 DEF StartPoll, TypeOK
  <2>2. CASE PollFails(k)
    BY <2>2 DEF PollFails, TypeOK
  <2>3. CASE CloseChannel(k)
    BY <2>3 DEF CloseChannel, TypeOK
  <2>4. CASE Close(k)
    BY <2>4 DEF Close, TypeOK
  <2>. QED  BY <1>6, <2>1, <2>2, <2>3, <2>4
<1>7. ASSUME NEW k \in Conns, Pop(k) \/ PopLost(k) PROVE TypeOK'
  <2>1. list \in Seq(Items) /\ list # <<>> /\ list' = SubSeq(list, 1, Len(list) - 1)
    BY Zenon, <1>7 DEF Pop, PopLost, TypeOK
  <2>2. list[Len(list)] \in Items /\ list' \in Seq(Items)
    BY <2>1, PopList
  <2>3. PICK i \in Items : i = list[Len(list)]
    BY <2>2
  <2>5. CASE Pop(k)
    BY Zenon, <2>2, <2>3, <2>5 DEF Pop, TypeOK
  <2>6. CASE PopLost(k)
    BY Zenon, <2>2, <2>3, <2>6 DEF PopLost, TypeOK
  <2>. QED  BY <1>7, <2>5, <2>6
<1>8. ASSUME Tick PROVE TypeOK'
  BY <1>8, TimeAssumption DEF Tick, TypeOK
<1>9. ASSUME UNCHANGED vars PROVE TypeOK'
  BY <1>9 DEF vars, TypeOK
<1>. QED  BY <1>1, <1>2, <1>3, <1>4, <1>5, <1>6, <1>7, <1>8, <1>9
          DEF Next, Caller, Sender, Poller

\* The conjuncts of IInv about the list: where an item is, given its reply.
ListInv ==
    /\ NoDup(list)
    /\ \A n \in 1..Len(list) : work[list[n]] = "none"
    /\ RefusedNeverTaken
    /\ \A i \in Items : reply[i] = "none" => ~InList(i) /\ work[i] = "none"

\* The conjuncts about the send goroutines and the channel.
ChannelInv ==
    /\ NoDup(delivered)
    /\ \A n \in 1..Len(delivered) : work[delivered[n]] = "sent"
    /\ NoSendOnClosed

\* The invariant in the three parts that are proved apart.
LEMMA Parts == IInv <=> TypeOK /\ ListInv /\ ChannelInv
BY DEF IInv, ListInv, ChannelInv, AtMostOnce

\* A step that leaves the list and the replies alone, and only moves send
\* goroutines on, keeps the conjuncts about the list.
LEMMA SameList ==
    ASSUME TypeOK, ListInv, UNCHANGED <<list, reply>>,
           \A i \in Items : work'[i] = work[i] \/ work[i] \in {"popped", "ready"}
    PROVE  ListInv'
<1>1. \A n \in 1..Len(list) : list[n] \in Items
  BY DEF TypeOK
<1>2. \A i \in Items : InList(i)' <=> InList(i)
  BY DEF InList
<1>3. NoDup(list')
  BY DEF ListInv
<1>4. \A n \in 1..Len(list') : work'[list'[n]] = "none"
  BY <1>1 DEF ListInv
<1>. QED  BY <1>2, <1>3, <1>4 DEF ListInv, RefusedNeverTaken

\* Every step keeps what the invariant says of the redis lists.
LEMMA NextListInv == ASSUME IInv, [Next]_vars PROVE ListInv'
<1> USE DEF redisVars, sendVars
<1>0. TypeOK /\ ListInv /\ list \in Seq(Items)
  BY Parts DEF TypeOK
<1>1. ASSUME NEW i \in Items, NEW t \in Timeouts, NEW cap \in Caps,
             Register(i, t, cap) \/ RegisterNoReply(i, t, cap)
      PROVE  ListInv'
  <2>1. /\ Script(i, t, cap) /\ reply[i] = "none" /\ work' = work
        /\ \E r \in {"ok", "full", "error"} :
             reply' = [reply EXCEPT ![i] = r] /\ (r = "full" => OverCap(cap))
    BY <1>1 DEF Register, RegisterNoReply
  <2>2. ~InList(i) /\ work[i] = "none" /\ NoDup(list)
    BY <1>0, <2>1 DEF ListInv
  <2>3. /\ list' \in Seq(Items) /\ NoDup(list')
        /\ \A n \in 1..Len(list') : InList(list'[n]) \/ (list'[n] = i /\ ~OverCap(cap))
    BY <1>0, <2>1, <2>2, ScriptList
  <2>4. \A n \in 1..Len(list') : work'[list'[n]] = "none"
    BY <1>0, <2>1, <2>2, <2>3 DEF ListInv, InList
  <2>5. \A j \in Items : InList(j)' => InList(j) \/ (j = i /\ ~OverCap(cap))
    BY <2>3 DEF InList
  <2>6. /\ RefusedNeverTaken'
        /\ \A j \in Items : reply'[j] = "none" => ~InList(j)' /\ work'[j] = "none"
    <3> SUFFICES ASSUME NEW j \in Items
                 PROVE  /\ reply'[j] = "full" => ~InList(j)' /\ work'[j] = "none"
                        /\ reply'[j] = "none" => ~InList(j)' /\ work'[j] = "none"
      BY DEF RefusedNeverTaken, InList
    <3>1. CASE j = i
      BY <1>0, <2>1, <2>2, <2>5, <3>1 DEF TypeOK
    <3>2. CASE j # i
      <4>1. reply'[j] = reply[j]
        BY <1>0, <2>1, <3>2 DEF TypeOK
      <4>. QED  BY <1>0, <2>1, <2>5, <3>2, <4>1 DEF ListInv, RefusedNeverTaken
    <3>. QED  BY <3>1, <3>2
  <2>. QED  BY <2>3, <2>4, <2>6 DEF ListInv
<1>2. ASSUME NEW i \in Items, RegisterFails(i) PROVE ListInv'
  <2>1. /\ reply' = [reply EXCEPT ![i] = "error"] /\ UNCHANGED <<list, work>>
    BY <1>2 DEF RegisterFails
  <2>. QED  BY <1>0, <2>1 DEF ListInv, TypeOK, RefusedNeverTaken, InList, NoDup
<1>3. ASSUME NEW i \in Items, Sender(i) PROVE ListInv'
  <2>1. /\ UNCHANGED <<list, reply>> /\ work[i] \in {"popped", "ready"}
        /\ \E w : work' = [work EXCEPT ![i] = w]
    BY <1>3 DEF Sender, ReadTTL, ReadTTLFails, Deliver
  <2>. QED  BY <1>0, <2>1, SameList DEF TypeOK
<1>4. ASSUME NEW k \in Conns, Pop(k) \/ PopLost(k) PROVE ListInv'
  <2>1. /\ list # <<>> /\ list' = SubSeq(list, 1, Len(list) - 1) /\ reply' = reply
        /\ \E w \in {"popped", "lost"} : work' = [work EXCEPT ![list[Len(list)]] = w]
    BY <1>4 DEF Pop, PopLost
  <2>2. /\ list[Len(list)] \in Items /\ InList(list[Len(list)]) /\ list' \in Seq(Items)
        /\ NoDup(list')
        /\ \A n \in 1..Len(list') : InList(list'[n]) /\ list'[n] # list[Len(list)]
    BY <1>0, <2>1, PopLeaves DEF ListInv
  <2>3. PICK i \in Items : i = list[Len(list)]
    BY <2>2
  <2>4. \A j \in Items : j # i => work'[j] = work[j]
    BY <1>0, <2>1, <2>3 DEF TypeOK
  <2>5. \A n \in 1..Len(list') : list'[n] \in Items /\ work'[list'[n]] = "none"
    BY <1>0, <2>2, <2>3, <2>4 DEF ListInv, InList
  <2>6. \A j \in Items : InList(j)' => InList(j)
    BY <2>2 DEF InList
  <2>7. reply[i] # "none" /\ reply[i] # "full"
    BY <1>0, <2>2, <2>3 DEF ListInv, RefusedNeverTaken
  <2>8. \A j \in Items : reply'[j] \in {"none", "full"} => ~InList(j)' /\ work'[j] = "none"
    BY <1>0, <2>1, <2>4, <2>6, <2>7 DEF ListInv, RefusedNeverTaken
  <2>. QED  BY <2>2, <2>5, <2>8 DEF ListInv, RefusedNeverTaken, InList
<1>5. ASSUME NEW k \in Conns, StartPoll(k) \/ PollFails(k) \/ CloseChannel(k) \/ Close(k)
      PROVE  ListInv'
  BY <1>0, <1>5, SameList DEF StartPoll, PollFails, CloseChannel, Close
<1>6. ASSUME Tick \/ UNCHANGED vars PROVE ListInv'
  BY <1>0, <1>6, SameList DEF Tick, vars
<1>. QED  BY <1>1, <1>2, <1>3, <1>4, <1>5, <1>6 DEF Next, Caller, Poller

\* Every step keeps what the invariant says of the channels of the pollers.
LEMMA NextChannelInv == ASSUME IInv, [Next]_vars PROVE ChannelInv'
<1> USE DEF redisVars, sendVars
<1>0. /\ TypeOK /\ ListInv /\ ChannelInv
      /\ \A n \in 1..Len(delivered) : delivered[n] \in Items
  BY Parts DEF TypeOK
<1>1. ASSUME UNCHANGED <<work, owner, delivered, poll>> PROVE ChannelInv'
  BY <1>0, <1>1 DEF ChannelInv, NoDup, NoSendOnClosed, Sending
<1>2. ASSUME NEW i \in Items, ReadTTL(i) \/ ReadTTLFails(i) PROVE ChannelInv'
  <2>1. /\ UNCHANGED <<owner, delivered, poll>> /\ work[i] = "popped"
        /\ \E w : work' = [work EXCEPT ![i] = w]
    BY <1>2 DEF ReadTTL, ReadTTLFails
  <2>2. \A j \in Items : j # i => work'[j] = work[j]
    BY <1>0, <2>1 DEF TypeOK
  <2>. QED  BY <1>0, <2>1, <2>2 DEF ChannelInv, NoDup, NoSendOnClosed, Sending
<1>3. ASSUME NEW i \in Items, Deliver(i) PROVE ChannelInv'
  <2>1. /\ UNCHANGED <<owner, poll>> /\ work[i] = "ready"
        /\ work' = [work EXCEPT ![i] = "sent"]
        /\ delivered' = Append(delivered, i)
    BY <1>3 DEF Deliver
  <2>2. /\ work'[i] = "sent"
        /\ \A j \in Items : j # i => work'[j] = work[j]
    BY <1>0, <2>1 DEF TypeOK
  <2>3. /\ Len(delivered') = Len(delivered) + 1
        /\ delivered'[Len(delivered) + 1] = i
        /\ \A n \in 1..Len(delivered) : delivered'[n] = delivered[n]
    BY <1>0, <2>1 DEF TypeOK
  <2>4. \A n \in 1..Len(delivered') :
          \/ n = Len(delivered) + 1 /\ delivered'[n] = i
          \/ n \in 1..Len(delivered) /\ delivered'[n] = delivered[n] /\ delivered[n] # i
    <3>1. \A n \in 1..Len(delivered) : delivered[n] # i
      BY <1>0, <2>1 DEF ChannelInv
    <3>2. \A n \in 1..Len(delivered') : n = Len(delivered) + 1 \/ n \in 1..Len(delivered)
      <4>1. Len(delivered) \in Nat
        BY <1>0 DEF TypeOK
      <4>. QED  BY <2>3, <4>1
    <3>. QED  BY <2>3, <3>1, <3>2
  <2>5. NoDup(delivered')
    <3> SUFFICES ASSUME NEW m \in 1..Len(delivered'), NEW n \in 1..Len(delivered'),
                        delivered'[m] = delivered'[n]
                 PROVE  m = n
      BY DEF NoDup
    <3>1. CASE m = Len(delivered) + 1 \/ n = Len(delivered) + 1
      BY <2>4, <3>1
    <3>2. CASE m \in 1..Len(delivered) /\ n \in 1..Len(delivered)
      BY <1>0, <2>3, <3>2 DEF ChannelInv, NoDup
    <3>. QED  BY <2>4, <3>1, <3>2
  <2>6. \A n \in 1..Len(delivered') : work'[delivered'[n]] = "sent"
    BY <1>0, <2>2, <2>4 DEF ChannelInv
  <2>7. NoSendOnClosed'
    BY <1>0, <2>1, <2>2 DEF ChannelInv, NoSendOnClosed, Sending
  <2>. QED  BY <2>5, <2>6, <2>7 DEF ChannelInv
<1>4. ASSUME NEW k \in Conns, Pop(k) \/ PopLost(k) PROVE ChannelInv'
  <2>1. /\ list # <<>> /\ list' = SubSeq(list, 1, Len(list) - 1)
        /\ list \in Seq(Items) /\ NoDup(list)
    BY Zenon, <1>0, <1>4 DEF Pop, PopLost, ListInv, TypeOK
  <2>2. PICK i \in Items : i = list[Len(list)] /\ InList(i)
    BY <2>1, PopLeaves
  <2>3. work[i] = "none"
    BY <1>0, <2>2 DEF ListInv, InList
  <2>4. /\ UNCHANGED <<delivered, poll>>
        /\ \A j \in Items : j # i => work'[j] = work[j] /\ owner'[j] = owner[j]
        /\ \/ work'[i] = "lost"
           \/ poll[k] = "polling" /\ owner'[i] = k
    <3>1. CASE Pop(k)
      BY <1>0, <2>2, <3>1 DEF Pop, TypeOK
    <3>2. CASE PopLost(k)
      BY <1>0, <2>2, <3>2 DEF PopLost, TypeOK
    <3>. QED  BY <1>4, <3>1, <3>2
  <2>. QED  BY <1>0, <2>3, <2>4 DEF ChannelInv, NoDup, NoSendOnClosed, Sending
<1>5. ASSUME NEW k \in Conns, StartPoll(k) \/ PollFails(k) \/ CloseChannel(k) PROVE ChannelInv'
  <2>1. /\ UNCHANGED <<work, owner, delivered>>
        /\ \/ poll' = [poll EXCEPT ![k] = "polling"]
           \/ poll' = [poll EXCEPT ![k] = "waiting"]
           \/ poll' = [poll EXCEPT ![k] = "closed"] /\ Sending(k) = {}
    BY <1>5 DEF StartPoll, PollFails, CloseChannel
  <2>2. \A c \in Conns : poll'[c] = "closed" => Sending(c) = {}
    <3> TAKE c \in Conns
    <3>1. CASE c = k
      BY <1>0, <2>1, <3>1 DEF TypeOK
    <3>2. CASE c # k
      <4>1. poll'[c] = poll[c]
        BY <1>0, <2>1, <3>2 DEF TypeOK
      <4>. QED  BY Zenon, <1>0, <4>1 DEF ChannelInv, NoSendOnClosed
    <3>. QED  BY <3>1, <3>2
  <2>. QED  BY <1>0, <2>1, <2>2 DEF ChannelInv, NoDup, NoSendOnClosed, Sending
<1>. QED
  <2>1. ASSUME NEW i \in Items, Caller(i) PROVE ChannelInv'
    BY <1>1, <2>1 DEF Caller, Register, RegisterNoReply, RegisterFails
  <2>2. ASSUME NEW k \in Conns, Close(k) PROVE ChannelInv'
    BY <1>1, <2>2 DEF Close
  <2>3. ASSUME Tick \/ UNCHANGED vars PROVE ChannelInv'
    BY <1>1, <2>3 DEF Tick, vars
  <2>. QED  BY <1>2, <1>3, <1>4, <1>5, <2>1, <2>2, <2>3 DEF Next, Sender, Poller

\* Every step of the queue keeps the three parts of IInv.
LEMMA NextIInv == ASSUME IInv, [Next]_vars PROVE IInv'
<1>1. TypeOK' /\ ListInv' /\ ChannelInv'
  BY NextTypeOK, NextListInv, NextChannelInv
<1>. QED  BY <1>1 DEF IInv, ListInv, ChannelInv, AtMostOnce

\* IInv is an invariant of the queue, for any number of items and consumers.
THEOREM QueueInvariant == Safety => []IInv
<1>1. IInv /\ [Next]_vars => IInv'
  BY NextIInv
<1>. QED  BY <1>1, InitIInv, PTL DEF Safety

\* The script and BRPOP hand each call or result to one send goroutine, and
\* it is received at most once.
THEOREM AtMostOnceHolds == Safety => []AtMostOnce
<1>1. IInv => AtMostOnce
  BY DEF IInv
<1>. QED  BY <1>1, QueueInvariant, PTL

\* An item the script refused for want of capacity is never given to a
\* consumer, whatever the capacities of the brokers.
THEOREM RefusedNeverTakenHolds == Safety => []RefusedNeverTaken
<1>1. IInv => RefusedNeverTaken
  BY DEF IInv
<1>. QED  BY <1>1, QueueInvariant, PTL

\* pollCalls and pollResults close their channel after the last send on it.
THEOREM NoSendOnClosedHolds == Safety => []NoSendOnClosed
<1>1. IInv => NoSendOnClosed
  BY DEF IInv
<1>. QED  BY <1>1, QueueInvariant, PTL

-----------------------------------------------------------------------------
(* Accepted items, when the brokers agree on the capacity.                 *)

\* An empty list is within every cap.
LEMMA InitCap == Init => CapRespected /\ AcceptedKept
BY CapsAssumption DEF Init, CapRespected, AcceptedKept

\* If no item leaves the list or changes its reply but an item that starts to
\* be worked on, accepted items are kept.
LEMMA KeptItems ==
    ASSUME AcceptedKept, reply' = reply,
           \A i \in Items : work[i] # "none" => work'[i] # "none",
           \A i \in Items : InList(i) => InList(i)' \/ work'[i] # "none"
    PROVE  AcceptedKept'
BY DEF AcceptedKept

\* Every step keeps the list within the cap, and what was accepted in it,
\* when all callers use the same cap.
LEMMA NextCap ==
    ASSUME SameCap, IInv, CapRespected, AcceptedKept, [Next]_vars
    PROVE  CapRespected' /\ AcceptedKept'
<1> USE DEF redisVars, sendVars
<1>0. TypeOK /\ list \in Seq(Items) /\ Len(list) \in Nat
  BY DEF IInv, TypeOK
<1>1. ASSUME NEW i \in Items, NEW t \in Timeouts, NEW cap \in Caps,
             Register(i, t, cap) \/ RegisterNoReply(i, t, cap)
      PROVE  CapRespected' /\ AcceptedKept'
  <2>1. /\ list' = PushedList(i, cap) /\ cap \in Nat /\ work' = work
        /\ \E r \in {"ok", "full", "error"} :
             reply' = [reply EXCEPT ![i] = r] /\ (r = "ok" => ~OverCap(cap))
    BY <1>1, CapsAssumption DEF Register, RegisterNoReply, Script
  <2>2. \A c \in Caps : c = cap
    BY DEF SameCap
  <2>3. CASE OverCap(cap)
    <3>1. Len(list) = cap
      BY <1>0, <2>1, <2>3 DEF OverCap, CapRespected
    <3>2. /\ Len(list') = cap
          /\ \A n \in 1..cap : list'[n] = list[n + (Len(list) - cap)]
      BY <1>0, <2>1, <2>3, PushTrims
    <3>3. \A n \in 1..cap : list'[n] = list[n]
      BY <2>1, <3>1, <3>2
    <3>4. \A j \in Items : InList(j) => InList(j)'
      BY <3>1, <3>2, <3>3 DEF InList
    <3>5. \A j \in Items : reply'[j] = "ok" => reply[j] = "ok"
      BY <1>0, <2>1, <2>3 DEF TypeOK
    <3>6. CapRespected'
      BY <2>1, <2>2, <3>2 DEF CapRespected
    <3>7. AcceptedKept'
      BY <2>1, <3>4, <3>5 DEF AcceptedKept
    <3>. QED  BY <3>6, <3>7
  <2>4. CASE ~OverCap(cap)
    <3>1. /\ Len(list') = Len(list) + 1 /\ list'[1] = i
          /\ \A n \in 1..Len(list) : list'[n + 1] = list[n]
      BY <1>0, <2>1, <2>4, PushKeeps
    <3>2. InList(i)'
      BY <1>0, <3>1 DEF InList
    <3>3. \A n \in 1..Len(list) : n + 1 \in 1..Len(list')
      BY <1>0, <3>1
    <3>4. \A j \in Items : InList(j) => InList(j)'
      BY <3>1, <3>3 DEF InList
    <3>5. \A j \in Items : j # i => reply'[j] = reply[j]
      BY <1>0, <2>1 DEF TypeOK
    <3>6. AcceptedKept'
      BY <2>1, <3>2, <3>4, <3>5 DEF AcceptedKept
    <3>. QED  BY <1>0, <2>1, <2>2, <2>4, <3>1, <3>6 DEF CapRespected, OverCap
  <2>. QED  BY <2>3, <2>4
<1>2. ASSUME NEW i \in Items, RegisterFails(i) PROVE CapRespected' /\ AcceptedKept'
  <2>1. reply' = [reply EXCEPT ![i] = "error"] /\ UNCHANGED <<list, work>>
    BY <1>2 DEF RegisterFails
  <2>. QED  BY <1>0, <2>1 DEF CapRespected, AcceptedKept, InList, TypeOK
<1>3. ASSUME NEW i \in Items, Sender(i) PROVE CapRespected' /\ AcceptedKept'
  <2>1. /\ UNCHANGED <<list, reply>>
        /\ \E w \in {"ready", "expired", "failed", "sent"} : work' = [work EXCEPT ![i] = w]
    BY <1>3 DEF Sender, ReadTTL, ReadTTLFails, Deliver
  <2>. QED  BY <1>0, <2>1, KeptItems DEF CapRespected, InList, TypeOK
<1>4. ASSUME NEW k \in Conns, Pop(k) \/ PopLost(k) PROVE CapRespected' /\ AcceptedKept'
  <2>1. /\ list # <<>> /\ list' = SubSeq(list, 1, Len(list) - 1) /\ reply' = reply
        /\ \E w \in {"popped", "lost"} : work' = [work EXCEPT ![list[Len(list)]] = w]
    BY <1>4 DEF Pop, PopLost
  <2>2. /\ list[Len(list)] \in Items /\ Len(list) > 0 /\ Len(list') = Len(list) - 1
        /\ \A n \in 1..(Len(list) - 1) : list'[n] = list[n]
    <3>1. list \in Seq(Items) /\ list # <<>> /\ list' = SubSeq(list, 1, Len(list) - 1)
      BY <1>0, <2>1
    <3>2. /\ Len(list) \in Nat \ {0} /\ list[Len(list)] \in Items
          /\ list' \in Seq(Items) /\ Len(list') = Len(list) - 1
          /\ \A n \in 1..(Len(list) - 1) : list'[n] = list[n]
      BY <3>1, PopList, Zenon
    <3>. QED  BY <3>2
  <2>3. \A n \in 1..Len(list) : n = Len(list) \/ n \in 1..(Len(list) - 1)
    BY <1>0
  <2>4. PICK i \in Items : i = list[Len(list)]
    BY <2>2
  <2>5. /\ work'[i] # "none"
        /\ \A j \in Items : j # i => work'[j] = work[j]
    BY <1>0, <2>1, <2>4 DEF TypeOK
  <2>6. \A j \in Items : InList(j) => InList(j)' \/ j = i
    BY <2>2, <2>3, <2>4 DEF InList
  <2>7. AcceptedKept'
    BY <2>1, <2>5, <2>6, KeptItems
  <2>. QED  BY <1>0, <2>2, <2>7, CapsAssumption DEF CapRespected
<1>5. ASSUME UNCHANGED <<list, reply, work>> PROVE CapRespected' /\ AcceptedKept'
  BY <1>5 DEF CapRespected, AcceptedKept, InList
<1>6. ASSUME NEW k \in Conns, StartPoll(k) \/ PollFails(k) \/ CloseChannel(k) \/ Close(k)
      PROVE  CapRespected' /\ AcceptedKept'
  BY <1>5, <1>6 DEF StartPoll, PollFails, CloseChannel, Close
<1>7. ASSUME Tick \/ UNCHANGED vars PROVE CapRespected' /\ AcceptedKept'
  BY <1>5, <1>7 DEF Tick, vars
<1>. QED  BY <1>1, <1>2, <1>3, <1>4, <1>6, <1>7 DEF Next, Caller, Poller

\* If the brokers use one capacity, an item that the script accepted is on the
\* list until it is popped: LTRIM drops none of them.
THEOREM AcceptedKeptHolds == SameCap => (Safety => []AcceptedKept)
<1> SUFFICES ASSUME SameCap PROVE Safety => []AcceptedKept
  OBVIOUS
<1>1. IInv /\ CapRespected /\ AcceptedKept /\ [Next]_vars => (CapRespected /\ AcceptedKept)'
  BY NextCap
<1>. QED  BY <1>1, InitCap, QueueInvariant, PTL DEF Safety

\* If the brokers use one capacity, the list never grows beyond it.
THEOREM CapRespectedHolds == SameCap => (Safety => []CapRespected)
<1> SUFFICES ASSUME SameCap PROVE Safety => []CapRespected
  OBVIOUS
<1>1. IInv /\ CapRespected /\ AcceptedKept /\ [Next]_vars => (CapRespected /\ AcceptedKept)'
  BY NextCap
<1>. QED  BY <1>1, InitCap, QueueInvariant, PTL DEF Safety

-----------------------------------------------------------------------------
(* Time.                                                                   *)

\* Division rounds down.
LEMMA Floor ==
    ASSUME NEW n \in Nat
    PROVE  /\ n \div Ms \in Nat
           /\ (n \div Ms) * Ms <= n
           /\ n < (n \div Ms) * Ms + Ms
BY TimeAssumption

\* A number of milliseconds in ticks: it is monotonic and adds up.
LEMMA Ticks ==
    ASSUME NEW a \in Int, NEW b \in Int
    PROVE  /\ a * Ms \in Int
           /\ (a + b) * Ms = a * Ms + b * Ms
           /\ (a - b) * Ms = a * Ms - b * Ms
           /\ a <= b => a * Ms <= b * Ms
           /\ a < b => a * Ms + Ms <= b * Ms
BY TimeAssumption

\* The timeout the script is given, in ticks, is the timeout rounded down to
\* the millisecond, or the default.
LEMMA TimeoutTicks ==
    ASSUME NEW t \in Int, TimeoutMs(t) > 0
    PROVE  /\ TimeoutMs(t) \in Nat
           /\ t >= Ms => TimeoutMs(t) * Ms <= t /\ t < TimeoutMs(t) * Ms + Ms
           /\ t < Ms => TimeoutMs(t) = DefaultMs
           /\ Ms <= DefaultMs * Ms
<1>1. Ms \in Nat /\ Ms > 0 /\ DefaultMs \in Nat /\ 1 <= DefaultMs
  BY TimeAssumption
<1>2. Ms <= DefaultMs * Ms
  <2>1. 1 * Ms <= DefaultMs * Ms
    BY <1>1, Ticks
  <2>. QED  BY <1>1, <2>1
<1>3. CASE t >= 0
  <2>1. /\ t \in Nat /\ t \div Ms \in Nat /\ (t \div Ms) * Ms <= t /\ t < (t \div Ms) * Ms + Ms
        /\ Millis(t) = t \div Ms
    BY <1>3, Floor DEF Millis
  <2> DEFINE m == t \div Ms
  <2>2. m = 0 => t < Ms
    BY <1>1, <2>1
  <2>3. m # 0 => t >= Ms
    <3> HAVE m # 0
    <3>1. m \in Int /\ 1 \in Int /\ 1 <= m
      BY <2>1
    <3> HIDE DEF m
    <3>2. 1 * Ms <= m * Ms
      BY <3>1, Ticks
    <3>3. m * Ms <= t
      BY <2>1 DEF m
    <3>4. m * Ms \in Int
      BY <3>1, Ticks
    <3>. QED  BY <1>1, <2>1, <3>2, <3>3, <3>4
  <2>4. TimeoutMs(t) = IF m = 0 THEN DefaultMs ELSE m
    BY <2>1 DEF TimeoutMs
  <2> HIDE DEF m
  <2>. QED  BY <1>1, <1>2, <2>1, <2>2, <2>3, <2>4 DEF m
<1>4. CASE t < 0
  <2>1. -t \in Nat /\ (-t) \div Ms \in Nat
    BY <1>4, Floor
  <2>2. Millis(t) = -((-t) \div Ms)
    BY <1>4 DEF Millis
  <2>3. Millis(t) = 0
    BY <2>1, <2>2 DEF TimeoutMs
  <2>. QED  BY <1>1, <1>2, <1>4, <2>3 DEF TimeoutMs
<1>. QED  BY <1>3, <1>4

\* The key of an item expires less than two milliseconds before the end of
\* its timeout, and not after it if the timeout is a millisecond or more.  A
\* timeout of less than a millisecond is prolonged by the default.
LEMMA ScriptTime ==
    ASSUME TypeOK, NEW i \in Items, NEW t \in Timeouts, NEW cap \in Caps, Script(i, t, cap)
    PROVE  /\ due'[i] < expiry'[i] * Ms + 2 * Ms
           /\ t <= 0 \/ t >= Ms => expiry'[i] * Ms <= due'[i]
           /\ t > 0 => due'[i] = now + t
           /\ t > 0 => expiry'[i] * Ms <= now + t + (IF t < Ms THEN DefaultMs * Ms ELSE 0)
<1>1. t \in Int /\ now \in Nat /\ Ms \in Nat /\ Ms > 0 /\ DefaultMs \in Nat
  BY TimeoutsAssumption, TimeAssumption DEF TypeOK
<1>2. mstime \in Nat /\ mstime * Ms <= now /\ now < mstime * Ms + Ms
  BY <1>1, Floor DEF mstime
<1>3. /\ TimeoutMs(t) \in Nat
      /\ t >= Ms => TimeoutMs(t) * Ms <= t /\ t < TimeoutMs(t) * Ms + Ms
      /\ t < Ms => TimeoutMs(t) = DefaultMs
      /\ Ms <= DefaultMs * Ms
  BY <1>1, TimeoutTicks DEF Script
<1>4. expiry'[i] = mstime + TimeoutMs(t)
  BY DEF Script, TypeOK
<1>5. due'[i] = IF t > 0 THEN now + t ELSE now + DefaultMs * Ms
  BY DEF Script, TypeOK
<1>6. expiry'[i] * Ms = mstime * Ms + TimeoutMs(t) * Ms
  BY <1>2, <1>3, <1>4, Ticks
<1>7. mstime * Ms \in Int /\ TimeoutMs(t) * Ms \in Int /\ DefaultMs * Ms \in Int
  BY <1>1, <1>2, <1>3, Ticks
<1> DEFINE a == mstime * Ms
           b == TimeoutMs(t) * Ms
           c == DefaultMs * Ms
<1>8. a \in Int /\ b \in Int /\ c \in Int /\ a <= now /\ now < a + Ms /\ Ms <= c
      /\ (t >= Ms => b <= t /\ t < b + Ms) /\ (t < Ms => b = c)
  BY <1>2, <1>3, <1>7
<1>9. due'[i] = (IF t > 0 THEN now + t ELSE now + c) /\ expiry'[i] * Ms = a + b
  BY <1>5, <1>6
<1> HIDE DEF a, b, c
<1>10. /\ due'[i] < expiry'[i] * Ms + 2 * Ms
       /\ t <= 0 \/ t >= Ms => expiry'[i] * Ms <= due'[i]
       /\ t > 0 => due'[i] = now + t
  BY <1>1, <1>8, <1>9
<1>11. t > 0 => expiry'[i] * Ms <= now + t + (IF t < Ms THEN c ELSE 0)
  BY <1>1, <1>8, <1>9
<1>. QED  BY <1>10, <1>11 DEF c

\* There are no keys in the beginning.
LEMMA InitTime == Init => TimeInv /\ KeyInTime
BY DEF Init, TimeInv, KeyInTime, DroppedOnlyIfExpired, InList

\* An item whose TTL is read has expired, or is given a time that ends within
\* a millisecond of the expiry of its key.
LEMMA ReadTime ==
    ASSUME TypeOK, NEW i \in Items, i \in keys, ReadTTL(i)
    PROVE  /\ work'[i] = "expired" => expiry[i] * Ms <= now
           /\ work'[i] = "ready" => /\ now < expiry[i] * Ms
                                   /\ now + left'[i] * Ms < expiry[i] * Ms + Ms
<1>1. now \in Nat /\ Ms \in Nat /\ expiry[i] \in Nat
  BY TimeAssumption DEF TypeOK
<1>2. mstime \in Nat /\ mstime * Ms <= now /\ now < mstime * Ms + Ms
  BY <1>1, Floor DEF mstime
<1>3. left'[i] = PTTL(i) /\ work'[i] = IF PTTL(i) > 0 THEN "ready" ELSE "expired"
  BY DEF ReadTTL, TypeOK
<1>4. CASE expiry[i] > mstime
  <2>1. PTTL(i) = expiry[i] - mstime
    BY <1>4 DEF PTTL
  <2>2. /\ (expiry[i] - mstime) * Ms = expiry[i] * Ms - mstime * Ms
        /\ mstime * Ms + Ms <= expiry[i] * Ms
        /\ expiry[i] * Ms \in Int /\ mstime * Ms \in Int
    BY <1>1, <1>2, <1>4, Ticks
  <2>3. work'[i] = "ready" /\ left'[i] * Ms = expiry[i] * Ms - mstime * Ms
    BY <1>1, <1>2, <1>3, <1>4, <2>1, <2>2
  <2> DEFINE a == mstime * Ms
             e == expiry[i] * Ms
  <2>4. a \in Int /\ e \in Int /\ a <= now /\ now < a + Ms /\ a + Ms <= e
        /\ left'[i] * Ms = e - a
    BY <1>2, <2>2, <2>3
  <2>5. now < e /\ now + (e - a) < e + Ms
    <3> HIDE DEF a, e
    <3>. QED  BY <1>1, <2>4
  <2>. QED  BY <2>3, <2>4, <2>5
<1>5. CASE ~(expiry[i] > mstime)
  <2>1. work'[i] = "expired"
    BY <1>3, <1>5 DEF PTTL
  <2>2. expiry[i] * Ms <= mstime * Ms
    BY <1>1, <1>2, <1>5, Ticks
  <2>3. expiry[i] * Ms \in Int /\ mstime * Ms \in Int
    BY <1>1, <1>2, Ticks
  <2>. QED  BY <1>1, <1>2, <2>1, <2>2, <2>3
<1>. QED  BY <1>4, <1>5

\* A step that leaves the keys alone, adds nothing to the list and pops only
\* what was on it keeps the time invariants.
LEMMA SameKeys ==
    ASSUME TypeOK, TypeOK', TimeInv, UNCHANGED <<keys, expiry, due>>, now <= now',
           \A i \in Items : InList(i)' => InList(i),
           \A i \in Items : work'[i] = "popped" => work[i] = "popped" \/ InList(i),
           \A i \in Items : work'[i] = "expired" => work[i] = "expired"
    PROVE  TimeInv' /\ (KeyInTime => KeyInTime')
<1>1. DroppedOnlyIfExpired'
  <2> SUFFICES ASSUME NEW i \in Items, work'[i] = "expired" PROVE now' + 2 * Ms > due'[i]
    BY DEF DroppedOnlyIfExpired
  <2>1. now + 2 * Ms > due[i]
    BY DEF TimeInv, DroppedOnlyIfExpired
  <2>2. now \in Nat /\ now' \in Nat /\ due[i] \in Nat /\ Ms \in Nat
    BY TimeAssumption DEF TypeOK
  <2>. QED  BY <2>1, <2>2
<1>2. \A i \in Items : InList(i)' \/ work'[i] = "popped" => i \in keys'
  BY DEF TimeInv
<1>3. \A i \in keys' : due'[i] < expiry'[i] * Ms + 2 * Ms
  BY DEF TimeInv
<1>. QED  BY <1>1, <1>2, <1>3 DEF TimeInv, KeyInTime

\* Every step keeps the time invariants: the script writes a key, a read
\* deletes one, and the others leave the keys alone.
LEMMA NextTime ==
    ASSUME IInv, TimeInv, [Next]_vars
    PROVE  TimeInv' /\ (WholeMs /\ KeyInTime => KeyInTime')
<1> USE DEF redisVars, sendVars
<1> DEFINE Goal == TimeInv' /\ (WholeMs /\ KeyInTime => KeyInTime')
<1>0. TypeOK /\ TypeOK' /\ ListInv /\ keys \subseteq Items
  BY Parts, NextTypeOK DEF TypeOK
<1>1. ASSUME NEW i \in Items, NEW t \in Timeouts, NEW cap \in Caps,
             Register(i, t, cap) \/ RegisterNoReply(i, t, cap)
      PROVE  Goal
  <2>1. Script(i, t, cap) /\ reply[i] = "none" /\ UNCHANGED <<now, work>>
    BY <1>1 DEF Register, RegisterNoReply
  <2>2. ~InList(i) /\ work[i] = "none"
    BY <1>0, <2>1 DEF ListInv
  <2>3. /\ due'[i] < expiry'[i] * Ms + 2 * Ms
        /\ t <= 0 \/ t >= Ms => expiry'[i] * Ms <= due'[i]
    BY <1>0, <2>1, ScriptTime
  <2>4. \A j \in Items : InList(j)' => InList(j) \/ j = i
    <3>1. \A n \in 1..Len(list') : InList(list'[n]) \/ list'[n] = i
      BY <1>0, <2>1, <2>2, ScriptList DEF TypeOK, ListInv
    <3>. QED  BY <3>1 DEF InList
  <2>5. \A j \in Items : j # i => due'[j] = due[j] /\ expiry'[j] = expiry[j]
    BY <1>0, <2>1 DEF Script, TypeOK
  <2>6. keys' = keys \cup {i}
    BY <2>1 DEF Script
  <2>7. \A j \in Items : InList(j)' \/ work'[j] = "popped" => j \in keys'
    BY <2>1, <2>4, <2>6 DEF TimeInv
  <2>8. \A j \in keys' : due'[j] < expiry'[j] * Ms + 2 * Ms
    BY <1>0, <2>3, <2>5, <2>6 DEF TimeInv
  <2>9. DroppedOnlyIfExpired'
    BY <2>1, <2>2, <2>5 DEF TimeInv, DroppedOnlyIfExpired
  <2>10. WholeMs /\ KeyInTime => KeyInTime'
    BY <1>0, <2>3, <2>5, <2>6 DEF WholeMs, KeyInTime
  <2>. QED  BY <2>7, <2>8, <2>9, <2>10 DEF TimeInv
<1>2. ASSUME NEW i \in Items, ReadTTL(i) \/ ReadTTLFails(i) PROVE Goal
  <2>1. /\ work[i] = "popped" /\ keys' \subseteq keys /\ keys \subseteq keys' \cup {i}
        /\ UNCHANGED <<now, list, expiry, due>>
        /\ \E w \in {"ready", "expired", "failed"} : work' = [work EXCEPT ![i] = w]
    BY <1>2 DEF ReadTTL, ReadTTLFails
  <2>2. i \in keys /\ ~InList(i)
    BY <1>0, <2>1 DEF TimeInv, ListInv, InList
  <2>3. /\ \A j \in Items : j # i => work'[j] = work[j]
        /\ work'[i] \in {"ready", "expired", "failed"}
    BY <1>0, <2>1 DEF TypeOK
  <2>4. \A j \in Items : InList(j)' <=> InList(j)
    BY <2>1 DEF InList
  <2>5. \A j \in Items : InList(j)' \/ work'[j] = "popped" => j \in keys'
    BY <2>1, <2>2, <2>3, <2>4 DEF TimeInv
  <2>6. work'[i] = "expired" => now + 2 * Ms > due[i]
    <3> HAVE work'[i] = "expired"
    <3>1. ReadTTL(i)
      BY <1>0, <1>2 DEF ReadTTLFails, TypeOK
    <3>2. expiry[i] * Ms <= now
      BY <1>0, <2>2, <3>1, ReadTime
    <3>3. due[i] < expiry[i] * Ms + 2 * Ms
      BY <2>2 DEF TimeInv
    <3>4. expiry[i] * Ms \in Int /\ now \in Int /\ due[i] \in Int /\ Ms \in Int
      BY <1>0, Ticks, TimeAssumption DEF TypeOK
    <3> DEFINE e == expiry[i] * Ms
    <3>5. e \in Int /\ e <= now /\ due[i] < e + 2 * Ms
      BY <3>2, <3>3, <3>4
    <3> HIDE DEF e
    <3>. QED  BY <3>4, <3>5
  <2>7. DroppedOnlyIfExpired'
    BY <2>1, <2>3, <2>6 DEF TimeInv, DroppedOnlyIfExpired
  <2>8. \A j \in keys' : due'[j] < expiry'[j] * Ms + 2 * Ms
    BY <2>1 DEF TimeInv
  <2>. QED  BY <2>1, <2>5, <2>7, <2>8 DEF TimeInv, KeyInTime
<1>3. ASSUME NEW k \in Conns, Pop(k) \/ PopLost(k) PROVE Goal
  <2>1. /\ list # <<>> /\ list' = SubSeq(list, 1, Len(list) - 1)
        /\ UNCHANGED <<now, keys, expiry, due>>
        /\ \E w \in {"popped", "lost"} : work' = [work EXCEPT ![list[Len(list)]] = w]
    BY <1>3 DEF Pop, PopLost
  <2>2. /\ list[Len(list)] \in Items /\ InList(list[Len(list)])
        /\ \A n \in 1..Len(list') : InList(list'[n])
    BY <1>0, <2>1, PopLeaves DEF TypeOK, ListInv
  <2>3. PICK i \in Items : i = list[Len(list)]
    BY <2>2
  <2>4. /\ \A j \in Items : j # i => work'[j] = work[j]
        /\ work'[i] # "expired" /\ InList(i)
    BY <1>0, <2>1, <2>2, <2>3 DEF TypeOK
  <2>5. \A j \in Items : InList(j)' => InList(j)
    BY <2>2 DEF InList
  <2>6. now <= now'
    BY <1>0, <2>1 DEF TypeOK
  <2>. QED  BY <1>0, <2>1, <2>4, <2>5, <2>6, SameKeys
<1>4. ASSUME UNCHANGED <<list, keys, expiry, due>>, now <= now',
             \A i \in Items : work'[i] \in {work[i], "sent"}
      PROVE  Goal
  <2>1. \A i \in Items : InList(i)' => InList(i)
    BY <1>4 DEF InList
  <2>. QED  BY <1>0, <1>4, <2>1, SameKeys
<1>5. now <= now
  BY <1>0 DEF TypeOK
<1>6. ASSUME NEW i \in Items, RegisterFails(i) \/ Deliver(i) PROVE Goal
  <2>1. \A j \in Items : work'[j] \in {work[j], "sent"}
    BY <1>0, <1>6 DEF RegisterFails, Deliver, TypeOK
  <2>. QED  BY <1>4, <1>5, <1>6, <2>1 DEF RegisterFails, Deliver
<1>7. ASSUME NEW k \in Conns, StartPoll(k) \/ PollFails(k) \/ CloseChannel(k) \/ Close(k)
      PROVE  Goal
  BY <1>4, <1>5, <1>7 DEF StartPoll, PollFails, CloseChannel, Close
<1>8. ASSUME Tick PROVE Goal
  <2>1. now <= now'
    BY <1>0, <1>8 DEF Tick, TypeOK
  <2>. QED  BY <1>4, <1>8, <2>1 DEF Tick
<1>9. ASSUME UNCHANGED vars PROVE Goal
  BY <1>4, <1>5, <1>9 DEF vars
<1> HIDE DEF Goal
<1>. QED
  BY <1>1, <1>2, <1>3, <1>6, <1>7, <1>8, <1>9 DEF Next, Caller, Sender, Poller, Goal

\* sendCall and sendResult drop an item as expired only when its timeout is
\* over, but for the two milliseconds of the roundings: whatever its timeout,
\* and whenever it was registered.
THEOREM DroppedOnlyIfExpiredHolds == Safety => []DroppedOnlyIfExpired
<1>1. IInv /\ TimeInv /\ [Next]_vars => TimeInv'
  BY NextTime
<1>2. Init => TimeInv
  BY InitTime
<1>3. TimeInv => DroppedOnlyIfExpired
  BY DEF TimeInv
<1>. QED  BY <1>1, <1>2, <1>3, QueueInvariant, PTL DEF Safety

\* A popped item becomes ready by the read of its TTL.
LEMMA OnlyRead ==
    ASSUME TypeOK, [Next]_vars, NEW i \in Items, work[i] = "popped", work'[i] = "ready"
    PROVE  ReadTTL(i)
<1>1. work'[i] # work[i]
  OBVIOUS
<1>2. ASSUME NEW j \in Items, Caller(j) PROVE FALSE
  BY <1>1, <1>2 DEF Caller, Register, RegisterNoReply, RegisterFails, sendVars
<1>3. ASSUME NEW j \in Items, Sender(j) PROVE ReadTTL(i)
  BY Zenon, <1>3 DEF Sender, ReadTTL, ReadTTLFails, Deliver, TypeOK
<1>4. ASSUME NEW k \in Conns, Pop(k) \/ PopLost(k) PROVE FALSE
  <2>1. list # <<>> /\ \E w \in {"popped", "lost"} : work' = [work EXCEPT ![list[Len(list)]] = w]
    BY <1>4 DEF Pop, PopLost
  <2>. QED  BY <2>1 DEF TypeOK
<1>5. ASSUME NEW k \in Conns, StartPoll(k) \/ PollFails(k) \/ CloseChannel(k) \/ Close(k)
      PROVE  FALSE
  BY <1>1, <1>5 DEF StartPoll, PollFails, CloseChannel, Close, sendVars
<1>6. ~Tick /\ ~UNCHANGED vars
  BY <1>1 DEF Tick, vars, sendVars
<1>. QED  BY <1>2, <1>3, <1>4, <1>5, <1>6 DEF Next, Poller

\* A read that finds time left ends it within a millisecond of the timeout.
LEMMA ReadWithin ==
    ASSUME IInv, TimeInv, KeyInTime, [Next]_vars, NEW i \in Items,
           work[i] = "popped", work'[i] = "ready"
    PROVE  now + left'[i] * Ms < due[i] + Ms
<1>1. ReadTTL(i)
  BY Parts, OnlyRead
<1>2. TypeOK /\ i \in keys
  BY Parts DEF TimeInv
<1>3. now + left'[i] * Ms < expiry[i] * Ms + Ms
  BY <1>1, <1>2, ReadTime
<1>4. expiry[i] * Ms <= due[i]
  BY <1>2 DEF KeyInTime
<1>5. left'[i] \in Int
  BY <1>2, NextTypeOK DEF TypeOK
<1>6. expiry[i] * Ms \in Int /\ left'[i] * Ms \in Int /\ now \in Int /\ due[i] \in Int /\ Ms \in Int
  <2>1. expiry[i] \in Int /\ now \in Int /\ due[i] \in Int /\ Ms \in Int
    BY <1>2, TimeAssumption DEF TypeOK
  <2>2. expiry[i] * Ms \in Int /\ left'[i] * Ms \in Int
    BY <1>5, <2>1, Ticks, Zenon
  <2>. QED  BY <2>1, <2>2
<1> DEFINE e == expiry[i] * Ms
           d == left'[i] * Ms
<1>7. e \in Int /\ d \in Int /\ now + d < e + Ms /\ e <= due[i]
  BY <1>3, <1>4, <1>6
<1>8. now + d < due[i] + Ms
  <2> HIDE DEF e, d
  <2>. QED  BY <1>6, <1>7
<1>. QED  BY <1>8

\* The time left that a consumer is given ends within a millisecond of the
\* timeout, when no timeout is a fraction of a millisecond: such a timeout is
\* truncated to zero, and the default is used in its place.
THEOREM TTLWithinTimeoutHolds == WholeMs => (Safety => TTLWithinTimeout)
<1> SUFFICES ASSUME WholeMs PROVE Safety => TTLWithinTimeout
  OBVIOUS
<1>1. IInv /\ TimeInv /\ KeyInTime /\ [Next]_vars => TimeInv' /\ KeyInTime'
  BY NextTime
<1>2. Init => TimeInv /\ KeyInTime
  BY InitTime
<1>3. IInv /\ TimeInv /\ KeyInTime /\ [Next]_vars =>
        [\A i \in Items :
            work[i] = "popped" /\ work'[i] = "ready" => now + left'[i] * Ms < due[i] + Ms]_vars
  BY ReadWithin
<1>. QED  BY <1>1, <1>2, <1>3, QueueInvariant, PTL DEF Safety, TTLWithinTimeout

-----------------------------------------------------------------------------
(* The bounded queue that gives out each item once.                        *)

\* Sequences of the same length and elements are the same.
LEMMA SameSeq ==
    ASSUME NEW S, NEW l \in Seq(S), NEW m \in Seq(S), Len(l) = Len(m),
           \A n \in 1..Len(l) : l[n] = m[n]
    PROVE  l = m
OBVIOUS

\* The last elements of a sequence.
LEMMA LastElements ==
    ASSUME NEW S, NEW l \in Seq(S), NEW c \in Nat, c > 0, c <= Len(l)
    PROVE  /\ SubSeq(l, Len(l) - c + 1, Len(l)) \in Seq(S)
           /\ Len(SubSeq(l, Len(l) - c + 1, Len(l))) = c
           /\ \A n \in 1..c : SubSeq(l, Len(l) - c + 1, Len(l))[n] = l[n + (Len(l) - c)]
<1> DEFINE p == Len(l) - c + 1
           q == Len(l)
<1>1. p \in Int /\ q \in Int /\ 1 <= p /\ p <= q /\ q - p + 1 = c
  OBVIOUS
<1>2. \A n \in p..q : l[n] \in S
  BY <1>1
<1>3. \A n \in 1..c : p + n - 1 = n + (Len(l) - c)
  OBVIOUS
<1> HIDE DEF p, q
<1>4. /\ SubSeq(l, p, q) \in Seq(S)
      /\ Len(SubSeq(l, p, q)) = q - p + 1
      /\ \A n \in 1..(q - p + 1) : SubSeq(l, p, q)[n] = l[p + n - 1]
  BY <1>1, <1>2
<1>. QED  BY <1>1, <1>3, <1>4 DEF p, q

\* The script enters an item as the abstract queue does: LPUSH and LTRIM
\* together drop the newest items, the one just pushed first.
LEMMA ScriptEnters ==
    ASSUME list \in Seq(Items), NEW i \in Items, NEW t \in Timeouts, NEW cap \in Caps,
           Script(i, t, cap)
    PROVE  Promise!Enter(i, cap) /\ (Promise!Fits(cap) <=> ~OverCap(cap))
<1>1. list' = PushedList(i, cap) /\ cap \in Nat /\ Len(list) \in Nat
  BY CapsAssumption DEF Script
<1>2. Promise!Fits(cap) <=> ~OverCap(cap)
  BY <1>1 DEF Promise!Fits, OverCap
<1>3. CASE ~OverCap(cap)
  <2>1. Len(<<i>> \o list) = Len(list) + 1
    OBVIOUS
  <2>2. PushedList(i, cap) = <<i>> \o list
    BY <1>1, <1>3, <2>1 DEF PushedList, OverCap
  <2>. QED  BY <1>1, <1>2, <1>3, <2>2 DEF Promise!Enter
<1>4. CASE OverCap(cap)
  <2> DEFINE o == SubSeq(list, Len(list) - cap + 1, Len(list))
  <2>1. cap > 0 /\ cap <= Len(list)
    BY <1>1, <1>4 DEF OverCap
  <2>2. o \in Seq(Items) /\ Len(o) = cap /\ \A n \in 1..cap : o[n] = list[n + (Len(list) - cap)]
    BY <1>1, <2>1, LastElements
  <2>3. /\ list' \in Seq(Items) /\ Len(list') = cap
        /\ \A n \in 1..cap : list'[n] = list[n + (Len(list) - cap)]
    BY <1>1, <1>4, PushTrims
  <2>4. list' = o
    <3> HIDE DEF o
    <3>. QED  BY <2>2, <2>3, SameSeq
  <2>. QED  BY <1>2, <1>4, <2>4 DEF Promise!Enter, Promise!Oldest
<1>. QED  BY <1>2, <1>3, <1>4

\* What became of an item changes with its send goroutine alone.
LEMMA PlaceOf ==
    ASSUME TypeOK, NEW i \in Items, NEW w, work' = [work EXCEPT ![i] = w]
    PROVE  place' = [place EXCEPT ![i] =
                       CASE w = "none" -> "out"
                         [] w \in {"popped", "ready"} -> "held"
                         [] w = "sent" -> "given"
                         [] OTHER -> "dropped"]
BY DEF place, TypeOK

\* Every step is a step of the abstract queue or a stutter.
LEMMA NextQueue == ASSUME IInv, [Next]_vars PROVE [Promise!Next]_(Promise!vars)
<1> USE DEF redisVars, sendVars
<1> DEFINE Goal == [Promise!Next]_(Promise!vars)
<1>0. TypeOK /\ list \in Seq(Items)
  BY DEF IInv, TypeOK
<1>1. ASSUME UNCHANGED <<list, reply, work>> PROVE Goal
  BY <1>1 DEF Promise!vars, place
<1> HIDE DEF Goal
<1>2. ASSUME NEW i \in Items, NEW t \in Timeouts, NEW cap \in Caps, Register(i, t, cap)
      PROVE  Goal
  <2>1. Script(i, t, cap) /\ reply[i] = "none" /\ place' = place
        /\ reply' = [reply EXCEPT ![i] = IF OverCap(cap) THEN "full" ELSE "ok"]
    BY <1>2 DEF Register, place
  <2>2. Promise!Enter(i, cap) /\ (Promise!Fits(cap) <=> ~OverCap(cap))
    BY <1>0, <2>1, ScriptEnters
  <2>3. Promise!Put(i, cap)
    BY <2>1, <2>2 DEF Promise!Put
  <2>. QED  BY <2>3 DEF Goal, Promise!Next
<1>3. ASSUME NEW i \in Items, NEW t \in Timeouts, NEW cap \in Caps, RegisterNoReply(i, t, cap)
      PROVE  Goal
  <2>1. Script(i, t, cap) /\ reply[i] = "none" /\ place' = place
        /\ reply' = [reply EXCEPT ![i] = "error"]
    BY <1>3 DEF RegisterNoReply, place
  <2>2. Promise!Enter(i, cap)
    BY <1>0, <2>1, ScriptEnters
  <2>3. Promise!PutUnsure(i)
    BY <2>1, <2>2 DEF Promise!PutUnsure
  <2>. QED  BY <2>3 DEF Goal, Promise!Next
<1>4. ASSUME NEW i \in Items, RegisterFails(i) PROVE Goal
  <2>1. reply[i] = "none" /\ place' = place /\ list' = list
        /\ reply' = [reply EXCEPT ![i] = "error"]
    BY <1>4 DEF RegisterFails, place
  <2>2. Promise!PutUnsure(i)
    BY <2>1 DEF Promise!PutUnsure
  <2>. QED  BY <2>2 DEF Goal, Promise!Next
<1>5. ASSUME NEW i \in Items, Sender(i) PROVE Goal
  <2>1. /\ list' = list /\ reply' = reply /\ work[i] \in {"popped", "ready"}
        /\ \E w \in {"ready", "sent", "expired", "failed"} : work' = [work EXCEPT ![i] = w]
    BY <1>5 DEF Sender, ReadTTL, ReadTTLFails, Deliver
  <2>2. place[i] = "held"
    BY <2>1 DEF place
  <2>3. CASE work' = [work EXCEPT ![i] = "ready"]
    <3>1. place' = place
      BY <1>0, <2>1, <2>3 DEF place, TypeOK
    <3>. QED  BY <2>1, <3>1 DEF Goal, Promise!vars
  <2>4. CASE \E w \in {"sent", "expired", "failed"} : work' = [work EXCEPT ![i] = w]
    <3>1. \/ place' = [place EXCEPT ![i] = "given"]
          \/ place' = [place EXCEPT ![i] = "dropped"]
      BY <1>0, <2>4, PlaceOf
    <3>2. Promise!Give(i)
      BY <2>1, <2>2, <3>1 DEF Promise!Give
    <3>. QED  BY <3>2 DEF Goal, Promise!Next
  <2>. QED  BY <2>1, <2>3, <2>4
<1>6. ASSUME NEW k \in Conns, Pop(k) \/ PopLost(k) PROVE Goal
  <2>1. /\ list # <<>> /\ list' = SubSeq(list, 1, Len(list) - 1) /\ reply' = reply
        /\ \E w \in {"popped", "lost"} : work' = [work EXCEPT ![list[Len(list)]] = w]
    BY <1>6 DEF Pop, PopLost
  <2>2. list[Len(list)] \in Items /\ InList(list[Len(list)])
    BY <1>0, <2>1, PopLeaves DEF IInv, AtMostOnce
  <2>3. PICK i \in Items : i = list[Len(list)]
    BY <2>2
  <2>4. place[i] = "out"
    BY <2>2, <2>3 DEF place, IInv, AtMostOnce, InList
  <2>5. \/ place' = [place EXCEPT ![i] = "held"]
        \/ place' = [place EXCEPT ![i] = "dropped"]
    BY <1>0, <2>1, <2>3, PlaceOf
  <2>6. Promise!Take
    BY <2>1, <2>3, <2>4, <2>5 DEF Promise!Take
  <2>. QED  BY <2>6 DEF Goal, Promise!Next
<1>7. ASSUME NEW k \in Conns, StartPoll(k) \/ PollFails(k) \/ CloseChannel(k) \/ Close(k)
      PROVE  Goal
  BY <1>1, <1>7 DEF StartPoll, PollFails, CloseChannel, Close
<1>8. ASSUME Tick \/ UNCHANGED vars PROVE Goal
  BY <1>1, <1>8 DEF Tick, vars
<1>9. Goal
  BY <1>2, <1>3, <1>4, <1>5, <1>6, <1>7, <1>8 DEF Next, Caller, Poller
<1>. QED  BY <1>9 DEF Goal

\* The queue is empty in the beginning.
LEMMA InitQueue == Init => Promise!Init
BY DEF Init, Promise!Init, place

\* The redis list, its keys and the goroutines implement the abstract queue,
\* for any number of items and consumers, any timeouts and any capacities.
THEOREM ImplementsQueueHolds == Safety => ImplementsQueue
<1>1. IInv /\ [Next]_vars => [Promise!Next]_(Promise!vars)
  BY NextQueue
<1>. QED  BY <1>1, InitQueue, QueueInvariant, PTL DEF Safety, ImplementsQueue, Promise!Spec

=============================================================================
