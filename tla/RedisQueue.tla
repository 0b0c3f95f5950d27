----------------------------- MODULE RedisQueue -----------------------------
(***************************************************************************)
(* One queue of the redis broker (broker/redisbroker): the redis list of   *)
(* the calls of a URI, or of the results of a connection, with the         *)
(* expiring key that holds the timeout of each item.  Call and Result      *)
(* register an item with the same script; callsConn and resultsConn take   *)
(* items out with the same loop, so one module stands for both.            *)
(*                                                                         *)
(*   - a caller runs registerCallOrRes: the script is atomic in redis, but *)
(*     its reply can be lost;                                              *)
(*   - each consumer connection has a poll goroutine (pollCalls), which    *)
(*     starts a send goroutine (sendCall) per item it pops, which reads    *)
(*     and deletes the key of the item and sends it on an unbuffered       *)
(*     channel;                                                            *)
(*   - the receivers of the channel are the range loops of Callee.Listen   *)
(*     and Conn.results.                                                   *)
(*                                                                         *)
(* Time is counted in ticks, Ms of them to the millisecond, because a      *)
(* timeout is a time.Duration that the broker truncates to milliseconds;   *)
(* the redis clock is in milliseconds.                                     *)
(***************************************************************************)
EXTENDS Integers, Sequences, FiniteSets

CONSTANTS
    Items,       \* calls or results; their message UUIDs are unique
    Conns,       \* consumer connections
    Timeouts,    \* the timeouts, in ticks, that Call or Result are given
    Caps,        \* the capacities of the brokers that register, 0 for none
    Ms,          \* ticks in a millisecond
    DefaultMs,   \* broker.DefaultCallTimeout, in milliseconds
    MaxTime,     \* bound of the model: the last tick of the clock
    None         \* no connection

ASSUME TimeoutsAssumption == Timeouts \subseteq Int
ASSUME CapsAssumption == Caps \subseteq Nat
ASSUME TimeAssumption == Ms \in Nat \ {0} /\ DefaultMs \in Nat \ {0} /\ MaxTime \in Nat
ASSUME NoneAssumption == None \notin Conns

VARIABLES
    now,        \* the clock, in ticks
    list,       \* the redis list, from the LPUSH end to the BRPOP end
    keys,       \* items whose timeout key was set and not deleted
    expiry,     \* when each key expires, in milliseconds
    due,        \* when each item's timeout is over, in ticks (history)
    reply,      \* what Call or Result returned for each item
    open,       \* is each consumer connection open?
    blocked,    \* does redis hold a BRPOP of a connection that gave up?
    poll,       \* where the poll goroutine of each connection stands
    work,       \* where the send goroutine of each item stands
    owner,      \* the connection that popped each item
    left,       \* TTLAfterRead of each item, in milliseconds
    delivered   \* the items in the order they were received (history)

redisVars == <<list, keys, expiry>>
sendVars  == <<work, owner, left, delivered>>
vars == <<now, redisVars, due, reply, open, poll, blocked, sendVars>>

TypeOK ==
    /\ now \in 0..MaxTime
    /\ list \in Seq(Items)
    /\ keys \subseteq Items
    /\ expiry \in [Items -> Nat]
    /\ due \in [Items -> Nat]
    /\ reply \in [Items -> {"none", "ok", "full", "error"}]
    /\ open \in [Conns -> BOOLEAN]
    /\ blocked \in [Conns -> BOOLEAN]
    /\ poll \in [Conns -> {"new", "polling", "waiting", "closed"}]
    /\ work \in [Items -> {"none", "popped", "ready", "sent", "expired", "failed", "lost"}]
    /\ owner \in [Items -> Conns \cup {None}]
    /\ left \in [Items -> Nat]
    /\ delivered \in Seq(Items)

Init ==
    /\ now = 0
    /\ list = <<>>
    /\ keys = {}
    /\ expiry = [i \in Items |-> 0]
    /\ due = [i \in Items |-> 0]
    /\ reply = [i \in Items |-> "none"]
    /\ open = [k \in Conns |-> TRUE]
    /\ blocked = [k \in Conns |-> FALSE]
    /\ poll = [k \in Conns |-> "new"]
    /\ work = [i \in Items |-> "none"]
    /\ owner = [i \in Items |-> None]
    /\ left = [i \in Items |-> 0]
    /\ delivered = <<>>

\* The clock of redis.
mstime == now \div Ms

-----------------------------------------------------------------------------
(* registerCallOrRes and its script.                                       *)

\* int(timeout / time.Millisecond): Go truncates towards zero.
Millis(t) == IF t >= 0 THEN t \div Ms ELSE -((-t) \div Ms)

\* The timeout the script is given, in milliseconds.
TimeoutMs(t) == IF Millis(t) = 0 THEN DefaultMs ELSE Millis(t)

\* Mutant of LTrim: the newest elements are kept, and the oldest dropped.
LTrim_KeepsNewest(l, start, stop) == SubSeq(l, 1, stop - start)

\* LTRIM: keep the elements from start to stop, counted from 0.
LTrim(l, start, stop) ==
    SubSeq(l, start + 1, IF stop >= Len(l) THEN Len(l) ELSE stop + 1)

\* The list the script leaves for a capacity: it pushes the item, and trims
\* the list when it is over the capacity.
PushedList(i, cap) ==
    LET l    == <<i>> \o list
        diff == Len(l) - cap
    IN  IF cap > 0 /\ diff > 0 THEN LTrim(l, diff, cap + diff) ELSE l

OverCap(cap) == cap > 0 /\ Len(list) + 1 > cap

\* The script runs: SET with PX, LPUSH, LTRIM.  SET refuses a timeout that is
\* not positive, and the script stops there.
Script(i, t, cap) ==
    /\ TimeoutMs(t) > 0
    /\ keys' = keys \cup {i}
    /\ expiry' = [expiry EXCEPT ![i] = mstime + TimeoutMs(t)]
    /\ due' = [due EXCEPT ![i] = IF t > 0 THEN now + t ELSE now + DefaultMs * Ms]
    /\ list' = PushedList(i, cap)

\* Call or Result returns what the script returned.
Register(i, t, cap) ==
    /\ reply[i] = "none"
    /\ Script(i, t, cap)
    /\ reply' = [reply EXCEPT ![i] = IF OverCap(cap) THEN "full" ELSE "ok"]
    /\ UNCHANGED <<now, open, poll, blocked, sendVars>>

\* Mutant of RegisterNoReply: the caller registers the item again.
RegisterNoReply_Retries(i, t, cap) ==
    /\ reply[i] = "none"
    /\ Script(i, t, cap)
    /\ UNCHANGED <<reply, now, open, poll, blocked, sendVars>>

\* The script runs, and its reply does not reach the broker.
RegisterNoReply(i, t, cap) ==
    /\ reply[i] = "none"
    /\ Script(i, t, cap)
    /\ reply' = [reply EXCEPT ![i] = "error"]
    /\ UNCHANGED <<now, open, poll, blocked, sendVars>>

\* The payload cannot be encoded, the connection fails before the script
\* runs, or SET refuses the timeout.
RegisterFails(i) ==
    /\ reply[i] = "none"
    /\ reply' = [reply EXCEPT ![i] = "error"]
    /\ UNCHANGED <<now, redisVars, due, open, poll, blocked, sendVars>>

-----------------------------------------------------------------------------
(* The consumer connection: Calls, pollCalls, sendCall, Close.             *)

\* The first call of Calls or Results starts the poll goroutine.
StartPoll(k) ==
    /\ poll[k] = "new"
    /\ poll' = [poll EXCEPT ![k] = "polling"]
    /\ UNCHANGED <<now, redisVars, due, reply, open, blocked, sendVars>>

\* Mutant of Pop: the item is read and left on the list.
Pop_Peeks(k) ==
    /\ poll[k] = "polling"
    /\ open[k]
    /\ list # <<>>
    /\ LET i == list[Len(list)]
       IN  /\ work' = [work EXCEPT ![i] = "popped"]
           /\ owner' = [owner EXCEPT ![i] = k]
    /\ UNCHANGED <<now, redisVars, due, reply, open, poll, blocked, left, delivered>>

\* BRPOP takes the oldest item, and the poll goroutine starts sendCall.
Pop(k) ==
    /\ poll[k] = "polling"
    /\ open[k]
    /\ list # <<>>
    /\ LET i == list[Len(list)]
       IN  /\ work' = [work EXCEPT ![i] = "popped"]
           /\ owner' = [owner EXCEPT ![i] = k]
    /\ list' = SubSeq(list, 1, Len(list) - 1)
    /\ UNCHANGED <<now, keys, expiry, due, reply, open, poll, blocked, left, delivered>>

\* Mutant of PollFails: every error is taken for the lack of a value.
PollFails_Continues(k) ==
    /\ poll[k] = "polling"
    /\ blocked' = [blocked EXCEPT ![k] = TRUE]
    /\ UNCHANGED <<now, redisVars, due, reply, open, poll, sendVars>>

\* BRPOP fails, because the connection is closed or for another reason: the
\* poll goroutine stores the error and waits for its send goroutines.  Redis
\* may not know, and still hold the blocked command.
PollFails(k) ==
    /\ poll[k] = "polling"
    /\ poll' = [poll EXCEPT ![k] = "waiting"]
    /\ blocked' = [blocked EXCEPT ![k] = TRUE]
    /\ UNCHANGED <<now, redisVars, due, reply, open, sendVars>>

\* Redis serves the blocked command of a connection that nobody reads.
PopLost(k) ==
    /\ blocked[k]
    /\ list # <<>>
    /\ LET i == list[Len(list)]
       IN  work' = [work EXCEPT ![i] = "lost"]
    /\ list' = SubSeq(list, 1, Len(list) - 1)
    /\ blocked' = [blocked EXCEPT ![k] = FALSE]
    /\ UNCHANGED <<now, keys, expiry, due, reply, open, poll, owner, left, delivered>>

\* Send goroutines of a connection that have not returned: the WaitGroup.
Sending(k) == {i \in Items : owner[i] = k /\ work[i] \in {"popped", "ready"}}

\* Mutant of CloseChannel: the wait for the send goroutines is missing.
CloseChannel_NoWait(k) ==
    /\ poll[k] = "waiting"
    /\ poll' = [poll EXCEPT ![k] = "closed"]
    /\ UNCHANGED <<now, redisVars, due, reply, open, blocked, sendVars>>

\* wg.Wait returns and the channel is closed.
CloseChannel(k) ==
    /\ poll[k] = "waiting"
    /\ Sending(k) = {}
    /\ poll' = [poll EXCEPT ![k] = "closed"]
    /\ UNCHANGED <<now, redisVars, due, reply, open, blocked, sendVars>>

\* Mutant of PTTL: the script deletes the key before it reads its TTL.
PTTL_AfterDel(i) == IF i \in keys \ {i} THEN expiry[i] - mstime ELSE 0

\* Mutant of PTTL: a missing key is taken for the default timeout.
PTTL_Default(i) == IF i \in keys /\ expiry[i] > mstime THEN expiry[i] - mstime ELSE DefaultMs

\* PTTL of the key of an item: not positive once it expired or was deleted.
PTTL(i) == IF i \in keys /\ expiry[i] > mstime THEN expiry[i] - mstime ELSE 0

\* sendCall runs delAndPTTLScript and drops an item that is expired.
ReadTTL(i) ==
    /\ work[i] = "popped"
    /\ keys' = keys \ {i}
    /\ work' = [work EXCEPT ![i] = IF PTTL(i) > 0 THEN "ready" ELSE "expired"]
    /\ left' = [left EXCEPT ![i] = PTTL(i)]
    /\ UNCHANGED <<now, list, expiry, due, reply, open, blocked, poll,
                   owner, delivered>>

\* The payload cannot be decoded, or the script fails, before it runs or with
\* its reply lost: the item is dropped.
ReadTTLFails(i) ==
    /\ work[i] = "popped"
    /\ keys' \in {keys, keys \ {i}}
    /\ work' = [work EXCEPT ![i] = "failed"]
    /\ UNCHANGED <<now, list, expiry, due, reply, open, blocked, poll,
                   owner, left, delivered>>

\* The send on the channel meets a receive.
Deliver(i) ==
    /\ work[i] = "ready"
    /\ work' = [work EXCEPT ![i] = "sent"]
    /\ delivered' = Append(delivered, i)
    /\ UNCHANGED <<now, redisVars, due, reply, open, blocked, poll,
                   owner, left>>

\* Close closes the redis connection of the poll goroutine.
Close(k) ==
    /\ open[k]
    /\ open' = [open EXCEPT ![k] = FALSE]
    /\ UNCHANGED <<now, redisVars, due, reply, blocked, poll, sendVars>>

Tick ==
    /\ now < MaxTime
    /\ now' = now + 1
    /\ UNCHANGED <<redisVars, due, reply, open, blocked, poll, sendVars>>

-----------------------------------------------------------------------------

Caller(i) ==
    \/ \E t \in Timeouts, cap \in Caps : Register(i, t, cap) \/ RegisterNoReply(i, t, cap)
    \/ RegisterFails(i)

Sender(i) == ReadTTL(i) \/ ReadTTLFails(i) \/ Deliver(i)

Poller(k) == StartPoll(k) \/ Pop(k) \/ PollFails(k) \/ CloseChannel(k)

Next ==
    \/ \E i \in Items : Caller(i) \/ Sender(i)
    \/ \E k \in Conns : Poller(k) \/ PopLost(k) \/ Close(k)
    \/ Tick

Safety == Init /\ [][Next]_vars

-----------------------------------------------------------------------------
(* Properties.                                                             *)

InList(i) == \E n \in 1..Len(list) : list[n] = i

NoDup(l) == \A m, n \in 1..Len(l) : l[m] = l[n] => m = n

\* An item that is on the list is there once and was never popped, and no
\* item is received twice, whatever number of connections poll the list and
\* whichever of them fail: a call is executed at most once.
AtMostOnce ==
    /\ NoDup(list)
    /\ \A n \in 1..Len(list) : work[list[n]] = "none"
    /\ NoDup(delivered)

\* An item that Call or Result refused with "list capacity exceeded" is not
\* on the list and never gets to a consumer: LTRIM drops the item that was
\* just pushed, and not an older one.
RefusedNeverTaken ==
    \A i \in Items : reply[i] = "full" => ~InList(i) /\ work[i] = "none"

\* An item that Call or Result accepted stays on the list until a consumer
\* pops it.  This needs every broker to use the same capacity.
AcceptedKept ==
    \A i \in Items : reply[i] = "ok" => InList(i) \/ work[i] # "none"

\* No send goroutine is left when the channel is closed, so none panics with
\* a send on a closed channel: pollCalls waits for them.
NoSendOnClosed ==
    \A k \in Conns : poll[k] = "closed" => Sending(k) = {}

\* The inductive invariant of the four properties above: an item that was
\* not registered is nowhere, and only items that were sent are received.
IInv ==
    /\ TypeOK
    /\ AtMostOnce
    /\ RefusedNeverTaken
    /\ NoSendOnClosed
    /\ \A i \in Items : reply[i] = "none" => ~InList(i) /\ work[i] = "none"
    /\ \A n \in 1..Len(delivered) : work[delivered[n]] = "sent"

\* What AcceptedKept needs besides: brokers that agree on the capacity never
\* leave the list over it.
SameCap == \A c, d \in Caps : c = d
CapRespected == \A c \in Caps : c > 0 => Len(list) <= c

\* An item is dropped as expired only when its timeout is over, up to the two
\* roundings to the millisecond, of the timeout and of the redis clock.
DroppedOnlyIfExpired ==
    \A i \in Items : work[i] = "expired" => now + 2 * Ms > due[i]

\* The time left that the consumer is given does not extend past the end of
\* the timeout by a millisecond or more.
TTLWithinTimeout ==
    [][\A i \in Items :
        work[i] = "popped" /\ work'[i] = "ready" => now + left'[i] * Ms < due[i] + Ms]_vars

\* The invariant of the expiry of keys: an item that waits for the read of its
\* TTL has its key, and a key expires, at the earliest, two milliseconds before
\* the timeout is over.
TimeInv ==
    /\ \A i \in Items : InList(i) \/ work[i] = "popped" => i \in keys
    /\ \A i \in keys : due[i] < expiry[i] * Ms + 2 * Ms
    /\ DroppedOnlyIfExpired

\* The timeouts are a whole millisecond at least, or the default is used.
WholeMs == \A t \in Timeouts : t <= 0 \/ t >= Ms

\* No key outlives the timeout of its item.
KeyInTime == \A i \in keys : expiry[i] * Ms <= due[i]

-----------------------------------------------------------------------------
(* The abstract specification.                                             *)

\* What became of an item that left the list.
place == [i \in Items |->
            CASE work[i] = "none" -> "out"
              [] work[i] \in {"popped", "ready"} -> "held"
              [] work[i] = "sent" -> "given"
              [] OTHER -> "dropped"]

Promise == INSTANCE QueuePromise WITH queue <- list, answer <- reply

\* The scripts, the keys and the goroutines make a bounded queue that gives
\* out its oldest item first and each item once, whatever replies are lost,
\* connections fail or brokers differ in their capacity.
ImplementsQueue == Promise!Spec

=============================================================================
