----------------------------- MODULE ConnProofs -----------------------------
(***************************************************************************)
(* Proofs about Conn, for any sets of allowed messages, with and without   *)
(* Upgrade and for any number of messages.                                 *)
(***************************************************************************)
EXTENDS Conn, SequenceTheorems, TLAPS

\* The sequences of callbacks, as Append makes them.
LEMMA AppendOne == ASSUME NEW a, NEW b PROVE Append(<<a>>, b) = <<a, b>>
<1>1. /\ Append(<<a>>, b) \in Seq({a, b}) /\ Len(Append(<<a>>, b)) = 2
      /\ Append(<<a>>, b)[1] = a /\ Append(<<a>>, b)[2] = b
  OBVIOUS
<1>2. /\ <<a, b>> \in Seq({a, b}) /\ Len(<<a, b>>) = 2
      /\ <<a, b>>[1] = a /\ <<a, b>>[2] = b
  OBVIOUS
<1>3. \A i \in 1..2 : i = 1 \/ i = 2
  OBVIOUS
<1>. QED  BY Zenon, <1>1, <1>2, <1>3, SeqEqual

\* A third callback appended to two.
LEMMA AppendTwo == ASSUME NEW a, NEW b, NEW c PROVE Append(<<a, b>>, c) = <<a, b, c>>
<1>1. /\ Append(<<a, b>>, c) \in Seq({a, b, c}) /\ Len(Append(<<a, b>>, c)) = 3
      /\ Append(<<a, b>>, c)[1] = a /\ Append(<<a, b>>, c)[2] = b /\ Append(<<a, b>>, c)[3] = c
  OBVIOUS
<1>2. /\ <<a, b, c>> \in Seq({a, b, c}) /\ Len(<<a, b, c>>) = 3
      /\ <<a, b, c>>[1] = a /\ <<a, b, c>>[2] = b /\ <<a, b, c>>[3] = c
  OBVIOUS
<1>3. \A i \in 1..3 : i = 1 \/ i = 2 \/ i = 3
  OBVIOUS
<1>. QED  BY Zenon, <1>1, <1>2, <1>3, SeqEqual

\* Nothing has been set up yet when the upgrade begins.
LEMMA InitIInv == Init => IInv
BY BoundAssumption DEF Init, IInv, TypeOK, ServeInv, CallbackInv, CloseInv, killed, Goroutines, Loops, Streams,
    RequestTypes

\* Every step of ServeConn, receive, Close and the pumps keeps the types.
LEMMA NextTypeOK == ASSUME TypeOK, [Next]_vars PROVE TypeOK'
<1> USE DEF Goto, Goroutines, Loops, Streams
<1>1. ASSUME Accept \/ Connect \/ ServeReturns PROVE TypeOK'
  <2>1. PICK st \in {"Accepting", "Connected", "Closed"} : states' = Append(states, st)
    BY <1>1 DEF Accept, Connect, ServeReturns
  <2>2. states' \in Seq({"Accepting", "Connected", "Closed"})
    BY <2>1 DEF TypeOK
  <2>3. PICK to \in {"setup", "connected", "returned"} : pc' = [pc EXCEPT !["serve"] = to]
    BY <1>1 DEF Accept, Connect, ServeReturns
  <2>4. UNCHANGED <<given, req, bconn, chan, ws, once, closeErr, count>>
    BY <1>1 DEF Accept, Connect, ServeReturns
  <2>. QED  BY <2>2, <2>3, <2>4 DEF TypeOK
<1>2. ASSUME NEW s \in Streams, NEW n, NEW f, NEW t \in {"resOK", "psOK"}, Setup(s, n, f, t)
      PROVE  TypeOK'
  BY <1>2 DEF Setup, TypeOK
<1>3. ASSUME StartLoops PROVE TypeOK'
  BY <1>3 DEF StartLoops, TypeOK
<1>4. ASSUME UpgradeReturns \/ ClientGone PROVE TypeOK'
  BY <1>4 DEF UpgradeReturns, ClientGone, TypeOK
<1>5. ASSUME NEW g \in Goroutines, CloseEnter(g) \/ CloseReturns(g) PROVE TypeOK'
  BY <1>5 DEF CloseEnter, CloseReturns, TypeOK
<1>6. ASSUME ClosePsc \/ CloseResc \/ CloseKill PROVE TypeOK'
  BY <1>6 DEF ClosePsc, CloseResc, CloseKill, CloseBroker, TypeOK
<1>7. ASSUME AppClose PROVE TypeOK'
  BY <1>7 DEF AppClose, TypeOK
<1>8. ASSUME NEW t \in RequestTypes, ReadRequest(t) PROVE TypeOK'
  BY <1>8, BoundAssumption DEF ReadRequest, TypeOK
<1>9. ASSUME ReadInvalid \/ Receive PROVE TypeOK'
  BY <1>9 DEF ReadInvalid, Receive, ReadFails, ProcessRequest, HandlerSaysBye, HandlerPanics, TypeOK
<1>10. ASSUME NEW s \in Streams, StreamNext(s) PROVE TypeOK'
  BY <1>10, BoundAssumption DEF StreamNext, TypeOK
<1>11. ASSUME NEW s \in Streams, StreamEnds(s) \/ BrokerEnds(s) PROVE TypeOK'
  BY <1>11 DEF StreamEnds, BrokerEnds, TypeOK
<1>12. ASSUME NEW g \in Loops, SendOK(g) \/ SendFails(g) PROVE TypeOK'
  BY <1>12 DEF SendOK, SendFails, TypeOK
<1>13. ASSUME UNCHANGED vars PROVE TypeOK'
  BY <1>13 DEF vars, TypeOK
<1>. QED
  BY <1>1, <1>2, <1>3, <1>4, <1>5, <1>6, <1>7, <1>8, <1>9, <1>10, <1>11, <1>12, <1>13
  DEF Next, Serve, SetupResults, SetupPubSub, CloseOnce

\* Every step keeps the callbacks in step with ServeConn: no other goroutine
\* makes one, and ServeConn makes the last one after c.kill is closed.
LEMMA NextCallback == ASSUME TypeOK, CallbackInv, [Next]_vars PROVE CallbackInv'
<1> USE DEF CallbackInv, Goto, Goroutines, Loops, Streams, killed
<1>1. CASE Accept
  BY <1>1 DEF Accept, TypeOK
<1>2. CASE SetupResults
  BY <1>2 DEF SetupResults, Setup, TypeOK
<1>3. CASE SetupPubSub
  BY <1>3 DEF SetupPubSub, Setup, TypeOK
<1>4. CASE Connect
  <2>1. states' = <<"Accepting", "Connected">>
    BY Zenon, <1>4, AppendOne DEF Connect
  <2>. QED  BY Zenon, <1>4, <2>1 DEF Connect, TypeOK
<1>5. CASE StartLoops
  BY <1>5 DEF StartLoops, TypeOK
<1>6. CASE ServeReturns
  <2>1. states' \in {<<"Accepting", "Closed">>, <<"Accepting", "Connected", "Closed">>}
    <3>1. CASE states = <<"Accepting">>
      BY <1>6, <3>1, AppendOne DEF ServeReturns
    <3>2. CASE states = <<"Accepting", "Connected">>
      BY <1>6, <3>2, AppendTwo DEF ServeReturns
    <3>. QED  BY <1>6, <3>1, <3>2 DEF ServeReturns
  <2>. QED  BY <1>6, <2>1 DEF ServeReturns, TypeOK
<1>7. ASSUME NEW g \in Goroutines, CloseReturns(g) PROVE CallbackInv'
  BY <1>7 DEF CloseReturns, TypeOK
<1>8. CASE CloseOnce
  BY <1>8 DEF CloseOnce, ClosePsc, CloseResc, CloseKill, CloseBroker
<1>9. ASSUME UNCHANGED <<pc, states, once>> PROVE CallbackInv'
  BY <1>9
<1>10. ASSUME NEW g \in Goroutines, CloseEnter(g) PROVE CallbackInv'
  BY <1>10 DEF CloseEnter, TypeOK
<1>11. ASSUME NEW g \in Goroutines \ {"serve"}, NEW to, Goto(g, to), UNCHANGED <<states, once>>
      PROVE  CallbackInv'
  BY <1>11 DEF TypeOK
<1> HIDE DEF CallbackInv
<1>12. CASE UpgradeReturns \/ ClientGone \/ UNCHANGED vars
  BY <1>9, <1>12 DEF UpgradeReturns, ClientGone, vars
<1>13. CASE AppClose
  BY <1>11, <1>13 DEF AppClose
<1>14. ASSUME NEW t \in RequestTypes, ReadRequest(t) PROVE CallbackInv'
  BY <1>11, <1>14 DEF ReadRequest
<1>15. CASE ReadInvalid \/ Receive
  BY <1>11, <1>15 DEF ReadInvalid, Receive, ReadFails, ProcessRequest, HandlerSaysBye, HandlerPanics
<1>16. ASSUME NEW s \in Streams, StreamNext(s) \/ StreamEnds(s) PROVE CallbackInv'
  BY <1>11, <1>16 DEF StreamNext, StreamEnds
<1>17. ASSUME NEW s \in Streams, BrokerEnds(s) PROVE CallbackInv'
  BY <1>9, <1>17 DEF BrokerEnds
<1>18. ASSUME NEW g \in Loops, SendOK(g) \/ SendFails(g) PROVE CallbackInv'
  BY <1>11, <1>18 DEF SendOK, SendFails
<1>. QED
  BY <1>1, <1>2, <1>3, <1>4, <1>5, <1>6, <1>7, <1>8, <1>10, <1>12, <1>13, <1>14, <1>15, <1>16,
     <1>17, <1>18
  DEF Next, Serve

\* Every step keeps the invariant when no ConnState callback closes the
\* connection from outside.
LEMMA NextInv ==
    ASSUME AppCloses # "any", IInv, [Next]_vars
    PROVE  ServeInv' /\ CloseInv'
<1> DEFINE Goal == /\ \A g \in Loops : pc'[g] # "off" => pc'["serve"] \in {"waiting", "returned"}
                   /\ pc'["app"] # "off" => pc'["serve"] \in {"connected", "waiting", "returned"}
                   /\ CloseInv'
<1> USE DEF IInv, Goto, Goroutines, Loops, Streams, killed
<1>1. ASSUME Accept PROVE Goal
  BY <1>1 DEF Accept, TypeOK, ServeInv, CallbackInv, CloseInv
<1>2. ASSUME SetupResults PROVE Goal
  BY <1>2 DEF SetupResults, Setup, TypeOK, ServeInv, CallbackInv, CloseInv
<1>3. ASSUME SetupPubSub PROVE Goal
  BY <1>3 DEF SetupPubSub, Setup, TypeOK, ServeInv, CallbackInv, CloseInv
<1>4. ASSUME Connect PROVE Goal
  BY <1>4 DEF Connect, TypeOK, ServeInv, CallbackInv, CloseInv
<1>5. ASSUME StartLoops PROVE Goal
  BY <1>5 DEF StartLoops, TypeOK, ServeInv, CallbackInv, CloseInv
<1>6. ASSUME ServeReturns PROVE Goal
  BY <1>6 DEF ServeReturns, TypeOK, ServeInv, CallbackInv, CloseInv
<1>7. ASSUME UpgradeReturns \/ ClientGone PROVE Goal
  BY <1>7 DEF UpgradeReturns, ClientGone, ServeInv, CallbackInv, CloseInv
<1>8. ASSUME NEW g \in Goroutines, CloseEnter(g) PROVE Goal
  BY <1>8 DEF CloseEnter, TypeOK, ServeInv, CallbackInv, CloseInv
<1>9. ASSUME NEW g \in Goroutines, CloseReturns(g) PROVE Goal
  BY <1>9 DEF CloseReturns, TypeOK, ServeInv, CallbackInv, CloseInv
<1>10. ASSUME ClosePsc PROVE Goal
  BY <1>10 DEF ClosePsc, CloseBroker, TypeOK, ServeInv, CallbackInv, CloseInv
<1>11. ASSUME CloseResc PROVE Goal
  BY <1>11 DEF CloseResc, CloseBroker, TypeOK, ServeInv, CallbackInv, CloseInv
<1>12. ASSUME CloseKill PROVE Goal
  BY <1>12 DEF CloseKill, TypeOK, ServeInv, CallbackInv, CloseInv
<1>13. ASSUME AppClose PROVE Goal
  <2>1. Len(states) >= 2
    BY <1>13 DEF AppClose
  <2>2. pc["serve"] \in {"connected", "waiting", "returned"}
    <3>1. Len(<<>>) = 0 /\ Len(<<"Accepting">>) = 1
      OBVIOUS
    <3>2. ASSUME states = <<>> PROVE FALSE
      <4>1. Len(states) = 0
        BY <3>1, <3>2, Zenon
      <4>. QED  BY <2>1, <4>1
    <3>3. ASSUME states = <<"Accepting">> PROVE FALSE
      <4>1. Len(states) = 1
        BY <3>1, <3>3, Zenon
      <4>. QED  BY <2>1, <4>1
    <3>. QED  BY <3>2, <3>3 DEF ServeInv, CallbackInv
  <2>. QED  BY <1>13, <2>2 DEF AppClose, TypeOK, ServeInv, CallbackInv, CloseInv
<1>14. ASSUME NEW t \in RequestTypes, ReadRequest(t) PROVE Goal
  BY <1>14 DEF ReadRequest, TypeOK, ServeInv, CallbackInv, CloseInv
<1>15. ASSUME ReadInvalid \/ Receive PROVE Goal
  BY <1>15 DEF ReadInvalid, Receive, ReadFails, ProcessRequest, HandlerSaysBye, HandlerPanics,
     TypeOK, ServeInv, CallbackInv, CloseInv
<1>16. ASSUME NEW s \in Streams, StreamNext(s) \/ StreamEnds(s) PROVE Goal
  BY <1>16 DEF StreamNext, StreamEnds, TypeOK, ServeInv, CallbackInv, CloseInv
<1>17. ASSUME NEW s \in Streams, BrokerEnds(s) PROVE Goal
  BY <1>17 DEF BrokerEnds, ServeInv, CallbackInv, CloseInv
<1>18. ASSUME NEW g \in Loops, SendOK(g) \/ SendFails(g) PROVE Goal
  BY <1>18 DEF SendOK, SendFails, TypeOK, ServeInv, CallbackInv, CloseInv
<1>19. ASSUME UNCHANGED vars PROVE Goal
  BY <1>19 DEF vars, ServeInv, CallbackInv, CloseInv
<1> HIDE DEF Goal
<1>20. Goal
  BY <1>1, <1>2, <1>3, <1>4, <1>5, <1>6, <1>7, <1>8, <1>9, <1>10, <1>11, <1>12, <1>13, <1>14,
     <1>15, <1>16, <1>17, <1>18, <1>19
  DEF Next, Serve, CloseOnce
<1>. QED  BY <1>20, NextCallback DEF Goal, ServeInv

\* How far ServeConn and closeOnce are determines the callbacks made and the
\* broker connections that are open, if the application closes a connection
\* only after its Connected callback.
THEOREM ConnInvariant == AppCloses # "any" => (Safety => []IInv)
<1> SUFFICES ASSUME AppCloses # "any" PROVE Safety => []IInv
  OBVIOUS
<1>1. IInv /\ [Next]_vars => IInv'
  BY NextTypeOK, NextInv DEF IInv
<1>. QED  BY <1>1, InitIInv, PTL DEF Safety

\* ServeConn leaves no broker connection open, whichever of the setup, the
\* loops, a write and the application closes the connection.
THEOREM NoBrokerConnLeftHolds == AppCloses # "any" => (Safety => []NoBrokerConnLeft)
<1> SUFFICES ASSUME AppCloses # "any" PROVE Safety => []NoBrokerConnLeft
  OBVIOUS
<1>1. IInv => NoBrokerConnLeft
  BY DEF IInv, ServeInv, CallbackInv, CloseInv, NoBrokerConnLeft, killed, Streams
<1>. QED  BY <1>1, ConnInvariant, PTL

-----------------------------------------------------------------------------
(* CloseErr is set once, whenever the application closes the connection.   *)

\* CloseErr is nil exactly until closeOnce runs its function.
ErrOnce == once = "free" <=> closeErr = "nil"

\* The first caller of Close sets CloseErr and takes closeOnce in one step,
\* and no step gives closeOnce back.
LEMMA NextErrOnce ==
    ASSUME TypeOK, ErrOnce, [Next]_vars
    PROVE  ErrOnce' /\ (closeErr # "nil" => closeErr' = closeErr)
<1> USE DEF ErrOnce
<1>1. ASSUME NEW g \in Goroutines, CloseEnter(g)
      PROVE  ErrOnce' /\ (closeErr # "nil" => closeErr' = closeErr)
  BY <1>1 DEF CloseEnter, Goroutines, Loops, Streams
<1>2. CASE CloseOnce
  BY <1>2 DEF CloseOnce, ClosePsc, CloseResc, CloseKill, CloseBroker
<1>3. CASE Serve
  BY <1>3 DEF Serve, Accept, SetupResults, SetupPubSub, Setup, Connect, StartLoops, ServeReturns,
     UpgradeReturns
<1>4. ASSUME NEW g \in Goroutines, CloseReturns(g)
      PROVE  ErrOnce' /\ (closeErr # "nil" => closeErr' = closeErr)
  BY <1>4 DEF CloseReturns
<1>5. CASE AppClose \/ ReadInvalid \/ Receive \/ ClientGone
  BY <1>5 DEF AppClose, ReadInvalid, Receive, ReadFails, ProcessRequest, HandlerSaysBye,
     HandlerPanics, ClientGone
<1>6. ASSUME NEW t \in RequestTypes, ReadRequest(t)
      PROVE  ErrOnce' /\ (closeErr # "nil" => closeErr' = closeErr)
  BY <1>6 DEF ReadRequest
<1>7. ASSUME NEW s \in Streams, StreamNext(s) \/ StreamEnds(s) \/ BrokerEnds(s)
      PROVE  ErrOnce' /\ (closeErr # "nil" => closeErr' = closeErr)
  BY <1>7 DEF StreamNext, StreamEnds, BrokerEnds
<1>8. ASSUME NEW g \in Loops, SendOK(g) \/ SendFails(g)
      PROVE  ErrOnce' /\ (closeErr # "nil" => closeErr' = closeErr)
  BY <1>8 DEF SendOK, SendFails
<1>9. CASE UNCHANGED vars
  BY <1>9 DEF vars
<1>. QED  BY <1>1, <1>2, <1>3, <1>4, <1>5, <1>6, <1>7, <1>8, <1>9 DEF Next

\* The error of the first goroutine that closes the connection is the one the
\* application sees: however many loops fail at the same time, and whenever
\* the application closes the connection, no later error replaces it.
THEOREM CloseErrKeptHolds == Safety => CloseErrKept
<1>1. Init => TypeOK /\ ErrOnce
  BY InitIInv DEF Init, ErrOnce, IInv
<1>2. TypeOK /\ ErrOnce /\ [Next]_vars => TypeOK' /\ ErrOnce'
  BY NextTypeOK, NextErrOnce
<1>3. TypeOK /\ ErrOnce /\ [Next]_vars => [closeErr # "nil" => closeErr' = closeErr]_vars
  BY NextErrOnce
<1>. QED  BY <1>1, <1>2, <1>3, PTL DEF Safety, CloseErrKept

\* The ConnState callbacks come in one of the documented orders, and CloseErr
\* is set and c.kill closed when Closed is called, whoever closes the
\* connection and whenever: also an application that does it in a callback.
THEOREM CallbackOrderHolds == Safety => []CallbackOrder
<1> DEFINE I == TypeOK /\ CallbackInv /\ ErrOnce
<1>1. Init => I
  BY InitIInv DEF Init, ErrOnce, IInv, ServeInv
<1>2. I /\ [Next]_vars => I'
  BY NextTypeOK, NextCallback, NextErrOnce
<1>3. I => CallbackOrder
  BY DEF TypeOK, CallbackInv, ErrOnce, CallbackOrder, killed
<1>. QED  BY <1>1, <1>2, <1>3, PTL DEF Safety

-----------------------------------------------------------------------------
(* The broker connections that are used were set up.                       *)

\* Every list of allowed messages is empty or names a type of request, as the
\* lists of AllowedMessagesFromHeader.
RequestLists == \A a \in AllowedSets : a = {} \/ a \cap RequestTypes # {}

\* How far ServeConn is determines the connections that were set up, and a
\* loop runs with its own.
SetupInv ==
    LET at == pc["serve"]
        usesPsc == "sub" \in ServeTypes \/ "unsb" \in ServeTypes
    IN  /\ at \in {"resOK", "psOK", "connected", "waiting"} /\ "call" \in ServeTypes =>
             bconn["res"] # "nil"
        /\ at \in {"psOK", "connected", "waiting"} /\ usesPsc => bconn["ps"] # "nil"
        /\ \A s \in Streams : pc[s] # "off" => bconn[s] # "nil"
        /\ pc["recv"] # "off" /\ usesPsc => bconn["ps"] # "nil"
        /\ pc["recv"] = "process" => req \in ReadTypes

\* Nothing is set up, and no loop runs, in the beginning.
LEMMA InitSetup == Init => SetupInv
BY DEF Init, SetupInv, Goroutines, Loops, Streams

\* No step takes a broker connection away, and the loops are started after
\* the setup.
LEMMA NextSetup == ASSUME TypeOK, SetupInv, [Next]_vars PROVE SetupInv'
<1> USE DEF SetupInv, ServeTypes, ReadTypes, Goto, Goroutines, Loops, Streams
<1>1. CASE Accept \/ Connect \/ ServeReturns
  BY <1>1 DEF Accept, Connect, ServeReturns, TypeOK
<1>2. CASE SetupResults
  BY <1>2 DEF SetupResults, Setup, TypeOK
<1>3. CASE SetupPubSub
  BY <1>3 DEF SetupPubSub, Setup, TypeOK
<1>4. CASE StartLoops
  BY <1>4 DEF StartLoops, Started, TypeOK
<1>5. CASE UpgradeReturns \/ ClientGone
  BY <1>5 DEF UpgradeReturns, ClientGone
<1>6. ASSUME NEW g \in Goroutines, CloseEnter(g) PROVE SetupInv'
  BY <1>6 DEF CloseEnter
<1>7. ASSUME NEW g \in Goroutines, CloseReturns(g) PROVE SetupInv'
  BY <1>7 DEF CloseReturns, TypeOK
<1>8. CASE CloseOnce
  BY <1>8 DEF CloseOnce, ClosePsc, CloseResc, CloseKill, CloseBroker, TypeOK
<1>9. CASE AppClose
  BY <1>9 DEF AppClose, TypeOK
<1>10. ASSUME NEW t \in RequestTypes, ReadRequest(t) PROVE SetupInv'
  BY <1>10 DEF ReadRequest, TypeOK
<1>11. CASE ReadInvalid \/ Receive
  BY <1>11 DEF ReadInvalid, Receive, ReadFails, ProcessRequest, HandlerSaysBye, HandlerPanics, TypeOK
<1>12. ASSUME NEW s \in Streams, StreamNext(s) \/ StreamEnds(s) PROVE SetupInv'
  BY <1>12 DEF StreamNext, StreamEnds, TypeOK
<1>13. ASSUME NEW s \in Streams, BrokerEnds(s) PROVE SetupInv'
  BY <1>13 DEF BrokerEnds
<1>14. ASSUME NEW g \in Loops, SendOK(g) \/ SendFails(g) PROVE SetupInv'
  BY <1>14 DEF SendOK, SendFails, TypeOK
<1>15. CASE UNCHANGED vars
  BY <1>15 DEF vars
<1>. QED
  BY Zenon, <1>1, <1>2, <1>3, <1>4, <1>5, <1>6, <1>7, <1>8, <1>9, <1>10, <1>11, <1>12, <1>13, <1>14, <1>15
  DEF Next, Serve

\* No goroutine uses a broker connection that ServeConn did not set up, for
\* every set of lists of allowed messages that name a type of request.
THEOREM NoNilConnHolds == RequestLists => (Safety => []NoNilConn)
<1> SUFFICES ASSUME RequestLists PROVE Safety => []NoNilConn
  OBVIOUS
<1>1. Init => TypeOK /\ SetupInv
  BY InitIInv, InitSetup DEF IInv
<1>2. TypeOK /\ SetupInv /\ [Next]_vars => TypeOK' /\ SetupInv'
  BY NextTypeOK, NextSetup
<1>3. TypeOK /\ SetupInv => NoNilConn
  <2> SUFFICES ASSUME TypeOK, SetupInv PROVE NoNilConn
    OBVIOUS
  <2>1. ReadTypes \subseteq ServeTypes
    BY DEF RequestLists, ReadTypes, ServeTypes, TypeOK
  <2>2. \A s \in Streams : pc[s] # "off" => bconn[s] # "nil"
    BY DEF SetupInv
  <2>3. pc["recv"] = "process" /\ req \in {"sub", "unsb"} => bconn["ps"] # "nil"
    BY <2>1 DEF SetupInv
  <2>. QED  BY <2>2, <2>3 DEF NoNilConn
<1>. QED  BY <1>1, <1>2, <1>3, PTL DEF Safety
=============================================================================
