---------------------------- MODULE QueuePromise ----------------------------
(***************************************************************************)
(* What a queue of the broker promises (the interfaces CallerBroker,       *)
(* CalleeBroker, CallsConn and ResultsConn of broker/broker.go): a list    *)
(* that is bounded by the capacity, that gives out its oldest item first,  *)
(* and each item at most once.  No script, key, clock, connection or       *)
(* goroutine appears here; module RedisQueue is shown to implement it.     *)
(***************************************************************************)
EXTENDS Naturals, Sequences

CONSTANTS
    Items,  \* calls or results
    Caps    \* the capacities of the brokers that put items in, 0 for none

VARIABLES
    queue,   \* the items that wait, the newest first
    answer,  \* what the broker answered to the caller that put each item in
    place    \* what became of each item that was taken out

vars == <<queue, answer, place>>

Init ==
    /\ queue = <<>>
    /\ answer = [i \in Items |-> "none"]
    /\ place = [i \in Items |-> "out"]

Fits(c) == c = 0 \/ Len(queue) < c

Oldest(c) == SubSeq(queue, Len(queue) - c + 1, Len(queue))

\* A full queue keeps its oldest items, and an item more than fits is not one.
Enter(i, c) == queue' = IF Fits(c) THEN <<i>> \o queue ELSE Oldest(c)

\* The broker answers that the item was put in, or that the queue is full.
Put(i, c) ==
    /\ answer[i] = "none"
    /\ Enter(i, c)
    /\ answer' = [answer EXCEPT ![i] = IF Fits(c) THEN "ok" ELSE "full"]
    /\ UNCHANGED place

\* An error leaves open whether the item was put in.
PutUnsure(i) ==
    /\ answer[i] = "none"
    /\ UNCHANGED queue \/ \E c \in Caps : Enter(i, c)
    /\ answer' = [answer EXCEPT ![i] = "error"]
    /\ UNCHANGED place

\* The oldest item is taken out, for a consumer or to be lost.  It was never
\* taken out before.
Take ==
    /\ queue # <<>>
    /\ LET i == queue[Len(queue)]
       IN  /\ place[i] = "out"
           /\ \/ place' = [place EXCEPT ![i] = "held"]
              \/ place' = [place EXCEPT ![i] = "dropped"]
    /\ queue' = SubSeq(queue, 1, Len(queue) - 1)
    /\ UNCHANGED answer

\* What was taken out is given to the consumer once, or dropped.
Give(i) ==
    /\ place[i] = "held"
    /\ \/ place' = [place EXCEPT ![i] = "given"]
       \/ place' = [place EXCEPT ![i] = "dropped"]
    /\ UNCHANGED <<queue, answer>>

Next ==
    \/ \E i \in Items : (\E c \in Caps : Put(i, c)) \/ PutUnsure(i) \/ Give(i)
    \/ Take

Spec == Init /\ [][Next]_vars

=============================================================================
