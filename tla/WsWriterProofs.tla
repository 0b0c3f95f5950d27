--------------------------- MODULE WsWriterProofs ---------------------------
(***************************************************************************)
(* Proofs about WsWriter, for any number of goroutines, any write limit    *)
(* and any choice of the goroutines that use a lock timeout.               *)
(***************************************************************************)
EXTENDS WsWriter, TLAPS

USE TimedAssumption, SizesAssumption, LimitAssumption, NoneAssumption

\* The parts of the invariant that are about the lock.
LockInv ==
    /\ OneWriter
    /\ TokenConserved
    /\ MessageIntact
    /\ \A w \in Writers : /\ pc[w] = "waiting" => ~init[w]
                          /\ pc[w] = "closing" => init[w]
                          /\ pc[w] \in {"ready", "waiting"} /\ ~init[w] => ~nw[w]
                          /\ frame = w => nw[w] /\ Holds(w) /\ pc[w] # "closing"

\* The parts of the invariant that are about the limit.
LimitInv ==
    /\ LimitRespected
    /\ \A w \in Writers :
          /\ pc[w] = "waiting" => msg[w] = 0
          /\ pc[w] = "ready" /\ ~init[w] => msg[w] = 0
          /\ Limit > 0 /\ pc[w] = "waiting" => pend[w] + left[w] <= Limit /\ left[w] >= 0
          /\ Limit > 0 /\ pc[w] = "ready" => msg[w] + left[w] <= Limit /\ left[w] >= 0

\* The two parts make up the inductive invariant.
LEMMA Parts == IInv <=> TypeOK /\ LockInv /\ LimitInv
  BY DEF IInv, LockInv, LimitInv

\* The connection starts with the token in the channel and no message.
LEMMA InitInv == Init => TypeOK /\ LockInv /\ LimitInv
  BY DEF Init, TypeOK, LockInv, LimitInv, OneWriter, TokenConserved, MessageIntact, LimitRespected, Holds

\* Every step preserves the types.
LEMMA NextTypeOK == TypeOK /\ [Next]_vars => TypeOK'
  <1> SUFFICES ASSUME TypeOK, [Next]_vars PROVE TypeOK'
    OBVIOUS
  <1> USE DEF TypeOK
  <1>1. ASSUME NEW w \in Writers, Exclusive(w) PROVE TypeOK'
    BY <1>1 DEF Exclusive
  <1>2. ASSUME NEW w \in Writers, NEW n \in Sizes, WriteRefused(w, n) PROVE TypeOK'
    BY <1>2 DEF WriteRefused, WithinLimit, CountDown
  <1>3. ASSUME NEW w \in Writers, NEW n \in Sizes, FirstWrite(w, n) PROVE TypeOK'
    BY <1>3 DEF FirstWrite, WithinLimit, CountDown
  <1>4. ASSUME NEW w \in Writers, NEW n \in Sizes, Write(w, n) PROVE TypeOK'
    BY <1>4 DEF Write, WithinLimit, CountDown
  <1>5. ASSUME NEW w \in Writers, LockTimeout(w) PROVE TypeOK'
    BY <1>5 DEF LockTimeout
  <1>6. ASSUME NEW w \in Writers, Acquire(w) PROVE TypeOK'
    <2>1. /\ token' \in BOOLEAN /\ frame' \in Writers \cup {None}
          /\ left' \in [Writers -> Int] /\ pend' \in [Writers -> Nat]
      BY Zenon, <1>6 DEF Acquire
    <2>2. init' \in [Writers -> BOOLEAN] /\ nw' \in [Writers -> BOOLEAN]
      BY <1>6 DEF Acquire
    <2>3. pc' \in [Writers -> {"idle", "ready", "waiting", "erred", "closing"}]
      BY <1>6 DEF Acquire
    <2>4. msg' \in [Writers -> Nat]
      BY <1>6 DEF Acquire
    <2>. QED  BY <2>1, <2>2, <2>3, <2>4
  <1>7. ASSUME NEW w \in Writers, AcquireFails(w) PROVE TypeOK'
    BY Zenon, <1>7 DEF AcquireFails
  <1>8. ASSUME NEW w \in Writers, CloseNoop(w) PROVE TypeOK'
    BY <1>8 DEF CloseNoop
  <1>9. ASSUME NEW w \in Writers, CloseMessage(w) PROVE TypeOK'
    BY <1>9 DEF CloseMessage
  <1>10. ASSUME NEW w \in Writers, Release(w) PROVE TypeOK'
    BY <1>10 DEF Release
  <1>11. CASE UNCHANGED vars
    BY <1>11 DEF vars
  <1> QED
    BY <1>1, <1>2, <1>3, <1>4, <1>5, <1>6, <1>7, <1>8, <1>9, <1>10, <1>11 DEF Next, Step

\* Every step preserves mutual exclusion and the token: a goroutine that
\* takes the token is the only holder because the token was there.
LEMMA NextLockInv == TypeOK /\ LockInv /\ [Next]_vars => LockInv'
  <1> SUFFICES ASSUME TypeOK, LockInv, [Next]_vars PROVE LockInv'
    OBVIOUS
  <1> USE DEF TypeOK, LockInv, OneWriter, TokenConserved, MessageIntact, Holds
  <1>1. ASSUME NEW w \in Writers, Exclusive(w) PROVE LockInv'
    BY <1>1 DEF Exclusive
  <1>2. ASSUME NEW w \in Writers, NEW n \in Sizes, WriteRefused(w, n) PROVE LockInv'
    BY <1>2 DEF WriteRefused, WithinLimit, CountDown
  <1>3. ASSUME NEW w \in Writers, NEW n \in Sizes, FirstWrite(w, n) PROVE LockInv'
    BY <1>3 DEF FirstWrite, WithinLimit, CountDown
  <1>4. ASSUME NEW w \in Writers, NEW n \in Sizes, Write(w, n) PROVE LockInv'
    BY <1>4 DEF Write, WithinLimit, CountDown
  <1>5. ASSUME NEW w \in Writers, LockTimeout(w) PROVE LockInv'
    BY <1>5 DEF LockTimeout
  <1>6. ASSUME NEW w \in Writers, Acquire(w) PROVE LockInv'
    BY <1>6 DEF Acquire
  <1>7. ASSUME NEW w \in Writers, AcquireFails(w) PROVE LockInv'
    BY <1>7 DEF AcquireFails
  <1>8. ASSUME NEW w \in Writers, CloseNoop(w) PROVE LockInv'
    BY <1>8 DEF CloseNoop
  <1>9. ASSUME NEW w \in Writers, CloseMessage(w) PROVE LockInv'
    BY <1>9 DEF CloseMessage
  <1>10. ASSUME NEW w \in Writers, Release(w) PROVE LockInv'
    BY <1>10 DEF Release
  <1>11. CASE UNCHANGED vars
    BY <1>11 DEF vars
  <1> QED
    BY <1>1, <1>2, <1>3, <1>4, <1>5, <1>6, <1>7, <1>8, <1>9, <1>10, <1>11 DEF Next, Step

\* Every step preserves the accounting of the limited writer.
LEMMA NextLimitInv == TypeOK /\ LockInv /\ LimitInv /\ [Next]_vars => LimitInv'
  <1> SUFFICES ASSUME TypeOK, LockInv, LimitInv, [Next]_vars PROVE LimitInv'
    OBVIOUS
  <1> USE DEF TypeOK, LimitInv, LimitRespected
  <1>1. ASSUME NEW w \in Writers, Exclusive(w) PROVE LimitInv'
    BY <1>1 DEF Exclusive
  <1>2. ASSUME NEW w \in Writers, NEW n \in Sizes, WriteRefused(w, n) PROVE LimitInv'
    BY <1>2 DEF WriteRefused, WithinLimit, CountDown
  <1>3. ASSUME NEW w \in Writers, NEW n \in Sizes, FirstWrite(w, n) PROVE LimitInv'
    BY <1>3 DEF FirstWrite, WithinLimit, CountDown
  <1>4. ASSUME NEW w \in Writers, NEW n \in Sizes, Write(w, n) PROVE LimitInv'
    BY <1>4 DEF Write, WithinLimit, CountDown
  <1>5. ASSUME NEW w \in Writers, LockTimeout(w) PROVE LimitInv'
    BY <1>5 DEF LockTimeout
  <1>6. ASSUME NEW w \in Writers, Acquire(w) PROVE LimitInv'
    BY <1>6 DEF Acquire
  <1>7. ASSUME NEW w \in Writers, AcquireFails(w) PROVE LimitInv'
    BY <1>7 DEF AcquireFails
  <1>8. ASSUME NEW w \in Writers, CloseNoop(w) PROVE LimitInv'
    BY <1>8 DEF CloseNoop
  <1>9. ASSUME NEW w \in Writers, CloseMessage(w) PROVE LimitInv'
    BY <1>9 DEF CloseMessage
  <1>10. ASSUME NEW w \in Writers, Release(w) PROVE LimitInv'
    BY <1>10 DEF Release
  <1>11. CASE UNCHANGED vars
    BY <1>11 DEF vars
  <1> QED
    BY <1>1, <1>2, <1>3, <1>4, <1>5, <1>6, <1>7, <1>8, <1>9, <1>10, <1>11 DEF Next, Step

\* The inductive invariant holds in every state that can be reached.
THEOREM WriterInvariant == Safety => []IInv
  <1> DEFINE I == TypeOK /\ LockInv /\ LimitInv
  <1>1. Init => I
    BY InitInv
  <1>2. I /\ [Next]_vars => I'
    BY NextTypeOK, NextLockInv, NextLimitInv
  <1>3. I => IInv
    BY Parts
  <1> QED
    BY <1>1, <1>2, <1>3, PTL DEF Safety

\* At most one goroutine writes to the connection at any time.
THEOREM OneWriterHolds == Safety => []OneWriter
  <1>1. IInv => OneWriter
    BY DEF IInv
  <1> QED
    BY WriterInvariant, <1>1, PTL

\* The token of the lock is never lost or doubled.
THEOREM TokenConservedHolds == Safety => []TokenConserved
  <1>1. IInv => TokenConserved
    BY DEF IInv
  <1> QED
    BY WriterInvariant, <1>1, PTL

\* No message is cut short by another goroutine's message.
THEOREM MessageIntactHolds == Safety => []MessageIntact
  <1>1. IInv => MessageIntact
    BY DEF IInv
  <1> QED
    BY WriterInvariant, <1>1, PTL

\* No message exceeds the write limit.
THEOREM LimitRespectedHolds == Safety => []LimitRespected
  <1>1. IInv => LimitRespected
    BY DEF IInv
  <1> QED
    BY WriterInvariant, <1>1, PTL

-----------------------------------------------------------------------------
(* The connection carries one whole message after the other.               *)

\* A step that leaves the message on the connection and its bytes alone is a
\* stutter of the stream.
LEMMA SameStream ==
  ASSUME TypeOK, frame' = frame, frame \in Writers => msg'[frame] = msg[frame]
  PROVE  UNCHANGED Stream!vars
  BY DEF TypeOK, Stream!vars

\* A message within the limit of the writer is one the stream allows.
LEMMA SizeAllowed ==
  ASSUME TypeOK', LimitInv', NEW w \in Writers
  PROVE  Stream!WithinLimit(msg'[w])
  BY DEF TypeOK, LimitInv, LimitRespected, Stream!WithinLimit

\* Every step is a step of the stream or a stutter.  The lock makes it so: a
\* goroutine begins a message with the token, and the token is in the channel
\* only when no goroutine has a message to close.
LEMMA NextStream ==
    /\ TypeOK /\ LockInv /\ LimitInv
    /\ TypeOK' /\ LimitInv'
    /\ [Next]_vars
    => [Stream!Next]_Stream!vars
  <1> SUFFICES ASSUME TypeOK, LockInv, LimitInv, TypeOK', LimitInv', [Next]_vars
               PROVE  [Stream!Next]_Stream!vars
    OBVIOUS
  <1> DEFINE Goal == [Stream!Next]_Stream!vars
  <1>0. UNCHANGED Stream!vars => Goal
    OBVIOUS
  <1> HIDE DEF Goal
  <1>1. ASSUME NEW w \in Writers, Exclusive(w) PROVE Goal
    <2>1. frame # w
      BY <1>1 DEF Exclusive, LockInv, Holds
    <2> QED  BY <1>0, <1>1, <2>1, SameStream DEF Exclusive, TypeOK
  <1>2. ASSUME NEW w \in Writers, NEW n \in Sizes, WriteRefused(w, n) PROVE Goal
    BY <1>0, <1>2, SameStream DEF WriteRefused
  <1>3. ASSUME NEW w \in Writers, NEW n \in Sizes, FirstWrite(w, n) PROVE Goal
    BY <1>0, <1>3, SameStream DEF FirstWrite
  <1>4. ASSUME NEW w \in Writers, NEW n \in Sizes, Write(w, n) PROVE Goal
    <2>1. nw[w] => frame = w
      BY <1>4 DEF Write, LockInv, MessageIntact, Holds
    <2>2. frame' = frame /\ (UNCHANGED msg \/ msg' = [msg EXCEPT ![w] = @ + n])
      BY <1>4 DEF Write
    <2>3. CASE UNCHANGED msg \/ frame # w
      BY <1>0, <2>2, <2>3, SameStream DEF TypeOK
    <2>4. CASE msg' = [msg EXCEPT ![w] = @ + n] /\ frame = w
      <3>1. Stream!WithinLimit(msg'[w])
        BY SizeAllowed
      <3>2. msg'[w] > msg[w]
        BY <2>4 DEF TypeOK
      <3>3. Stream!Extend(w)
        BY <2>2, <2>4, <3>1, <3>2 DEF Stream!Extend
      <3> QED  BY <3>3 DEF Goal, Stream!Next
    <2> QED  BY <2>2, <2>3, <2>4
  <1>5. ASSUME NEW w \in Writers, LockTimeout(w) PROVE Goal
    BY <1>0, <1>5, SameStream DEF LockTimeout
  <1>6. ASSUME NEW w \in Writers, Acquire(w) PROVE Goal
    <2>1. frame = None
      BY <1>6 DEF Acquire, LockInv, TokenConserved, TypeOK
    <2>2. frame' = w
      BY <1>6 DEF Acquire
    <2>3. Stream!WithinLimit(msg'[w])
      BY SizeAllowed
    <2>4. Stream!Begin(w)
      BY <2>1, <2>2, <2>3 DEF Stream!Begin
    <2> QED  BY <2>4 DEF Goal, Stream!Next
  <1>7. ASSUME NEW w \in Writers, AcquireFails(w) PROVE Goal
    BY <1>0, <1>7, SameStream DEF AcquireFails
  <1>8. ASSUME NEW w \in Writers, CloseNoop(w) PROVE Goal
    BY <1>0, <1>8, SameStream DEF CloseNoop
  <1>9. ASSUME NEW w \in Writers, CloseMessage(w) PROVE Goal
    <2>1. CASE ~nw[w]
      BY <1>0, <1>9, <2>1, SameStream DEF CloseMessage
    <2>2. CASE nw[w]
      <3>1. frame = w
        BY <1>9, <2>2 DEF CloseMessage, LockInv, MessageIntact, Holds
      <3>2. Stream!End(w)
        BY <1>9, <2>2, <3>1 DEF CloseMessage, Stream!End
      <3> QED  BY <3>2 DEF Goal, Stream!Next
    <2> QED  BY <2>1, <2>2
  <1>10. ASSUME NEW w \in Writers, Release(w) PROVE Goal
    BY <1>0, <1>10, SameStream DEF Release
  <1>11. ASSUME UNCHANGED vars PROVE Goal
    BY <1>0, <1>11, SameStream DEF vars
  <1>12. Goal
    BY <1>1, <1>2, <1>3, <1>4, <1>5, <1>6, <1>7, <1>8, <1>9, <1>10, <1>11 DEF Next, Step
  <1> QED
    BY <1>12 DEF Goal

\* The lock implements the stream of messages: for any number of goroutines,
\* any limit and whoever gives up waiting, each message on the connection is
\* begun, extended and ended by one goroutine before the next one is begun.
THEOREM ImplementsStreamHolds == Safety => ImplementsStream
  <1> DEFINE I == TypeOK /\ LockInv /\ LimitInv
  <1>1. Init => Stream!Init
    BY DEF Init, Stream!Init
  <1>2. I /\ I' /\ [Next]_vars => [Stream!Next]_Stream!vars
    BY NextStream
  <1>3. IInv <=> I
    BY Parts
  <1> QED
    BY <1>1, <1>2, <1>3, WriterInvariant, PTL DEF Safety, ImplementsStream, Stream!Spec

=============================================================================
