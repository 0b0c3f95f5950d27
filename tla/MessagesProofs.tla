--------------------------- MODULE MessagesProofs ---------------------------
(***************************************************************************)
(* Proofs about Messages, for any names, subjects, headers and number of   *)
(* messages.                                                               *)
(***************************************************************************)
EXTENDS Messages, TLAPS

USE DEF startRead, CallMsg, PubMsg, SubMsg, UnsbMsg, endRead, startWrite, NackMsg, AckMsg,
        ResMsg, EvntMsg, endWrite, customMsg

\* The decoders part the standard types: UnmarshalRequest accepts requests
\* only, UnmarshalResponse answers only, and neither accepts a custom type.
LEMMA Decoders ==
    /\ \A allowed : UnmarshalRequest(allowed) \subseteq allReqMsgs
    /\ UnmarshalResponse = {NackMsg, AckMsg, ResMsg, EvntMsg}
    /\ \A allowed : \A t \in unmarshalIf(allowed) : t < customMsg
<1>1. ASSUME NEW allowed PROVE UnmarshalRequest(allowed) \subseteq allReqMsgs
  <2>1. ASSUME NEW t \in stdTypes, IsRead(t) PROVE t \in allReqMsgs
    BY <2>1 DEF stdTypes, allReqMsgs, IsRead
  <2>2. QED
    BY <2>1 DEF UnmarshalRequest, unmarshalIf, allReqMsgs
<1>2. UnmarshalResponse = {NackMsg, AckMsg, ResMsg, EvntMsg}
  BY DEF UnmarshalResponse, unmarshalIf, stdTypes, allReqMsgs
<1>3. ASSUME NEW allowed, NEW t \in unmarshalIf(allowed) PROVE t < customMsg
  BY DEF unmarshalIf, stdTypes, allReqMsgs
<1>4. QED
  BY <1>1, <1>2, <1>3

\* What UnmarshalRequest accepts for a header that names request types is what
\* the header names.
LEMMA HeaderTypes ==
    ASSUME NEW h \in Headers, h \cap Words # {},
           NEW t \in UnmarshalRequest(AllowedMessagesFromHeader(h))
    PROVE  \E w \in h \cap Words : t = TypeOf[w]
<1> DEFINE allowed == AllowedMessagesFromHeader(h)
           cleaned == {u \in allowed : IsRead(u)}
<1>1. allowed = {TypeOf[w] : w \in h \cap Words}
  BY DEF AllowedMessagesFromHeader, Words
<1>2. \A w \in h \cap Words : TypeOf[w] \in 1..4
  BY DEF TypeOf, Words
<1>3. cleaned = allowed /\ cleaned # {}
  BY <1>1, <1>2 DEF IsRead
<1>4. UnmarshalRequest(allowed) \subseteq allowed
  BY <1>3 DEF UnmarshalRequest, unmarshalIf
<1>5. QED
  BY <1>1, <1>4

\* What a new message preserves: it is enough that the message, if it is an
\* answer, names its request and, if it is an ACK, one that the header lets in.
LEMMA NewMsgPreserves ==
    ASSUME IInv, NEW t \in Nat, NEW s \in Subjects, NEW for \in 0..MaxMsgs, NEW forType \in Nat,
           NewMsg(t, s, for, forType),
           IsWrite(t) =>
             \E r \in msgs :
               /\ IsRead(r.type) /\ r.id = for /\ r.subject = s
               /\ r.type = IF t = ResMsg THEN CallMsg ELSE IF t = EvntMsg THEN PubMsg ELSE forType,
           t = AckMsg => forType \in UnmarshalRequest(AllowedMessagesFromHeader(header))
    PROVE  IInv'
<1> DEFINE new == [id |-> last + 1, type |-> t, subject |-> s, for |-> for, forType |-> forType]
<1> USE BoundAssumption, HeadersAssumption
<1>1. /\ last < MaxMsgs /\ last' = last + 1 /\ msgs' = msgs \cup {new}
      /\ UNCHANGED <<header, lookupType, nextCustomMsg, registered>>
  BY DEF NewMsg
<1>2. TypeOK'
  BY <1>1 DEF IInv, TypeOK, Msg
<1>3. Correlated'
  <2>1. SUFFICES ASSUME NEW a \in msgs', IsWrite(a.type)
                 PROVE  \E r \in msgs' : /\ IsRead(r.type) /\ r.id = a.for
                                         /\ r.type = AboutType(a) /\ r.subject = a.subject
    BY DEF Correlated
  <2>2. CASE a \in msgs
    BY <1>1, <2>1, <2>2 DEF IInv, Correlated
  <2>3. CASE a = new
    <3>1. a.type = t /\ a.for = for /\ a.forType = forType /\ a.subject = s
      BY <2>3
    <3>2. AboutType(a) = IF t = ResMsg THEN CallMsg ELSE IF t = EvntMsg THEN PubMsg ELSE forType
      BY <3>1 DEF AboutType
    <3>3. QED
      BY <1>1, <2>1, <3>1, <3>2
  <2>4. QED
    BY <1>1, <2>2, <2>3
<1>4. OnePeer'
  <2>1. SUFFICES ASSUME NEW m \in msgs', NEW u \in stdTypes
                 PROVE  /\ m.type \in UnmarshalRequest({u, m.type}) => m.type \notin UnmarshalResponse
                        /\ m.type \in unmarshalIf({u, m.type}) => m.type < customMsg
    BY Zenon DEF OnePeer
  <2>2. QED
    BY Decoders DEF allReqMsgs
<1>5. \A a \in msgs' : a.type = AckMsg =>
         a.forType \in UnmarshalRequest(AllowedMessagesFromHeader(header))
  <2>1. SUFFICES ASSUME NEW a \in msgs', a.type = AckMsg
                 PROVE  a.forType \in UnmarshalRequest(AllowedMessagesFromHeader(header))
    OBVIOUS
  <2>2. CASE a \in msgs
    BY <2>1, <2>2 DEF IInv
  <2>3. CASE a = new
    BY <2>1, <2>3
  <2>4. QED
    BY <1>1, <2>2, <2>3
<1>6. CustomDistinct'
  BY <1>1 DEF IInv, CustomDistinct
<1>7. /\ nextCustomMsg' >= customMsg
      /\ \A p \in lookupType' : p \in stdNames \/ (customMsg <= p[1] /\ p[1] < nextCustomMsg')
  BY <1>1 DEF IInv
<1>8. QED
  BY Zenon, <1>1, <1>2, <1>3, <1>4, <1>5, <1>6, <1>7 DEF IInv

\* IInv is inductive: one case per constructor, and Register.
LEMMA Step == IInv /\ [Next]_vars => IInv'
<1> SUFFICES ASSUME IInv, [Next]_vars PROVE IInv'
  OBVIOUS
<1> USE BoundAssumption
<1>0. /\ msgs \subseteq Msg /\ Correlated
      /\ \A p \in lookupType : p[1] \in Nat
      /\ \A p \in lookupType \ stdNames : customMsg <= p[1]
      /\ \A p \in lookupType : p[1] < nextCustomMsg
  <2>1. nextCustomMsg \in Nat /\ nextCustomMsg >= customMsg /\ \A p \in stdNames : p[1] < customMsg
    BY DEF IInv, TypeOK, stdNames
  <2>2. \A p \in lookupType : p[1] \in Nat /\ (p \in stdNames \/ (customMsg <= p[1] /\ p[1] < nextCustomMsg))
    BY DEF IInv, TypeOK
  <2>3. \A p \in lookupType : p[1] < nextCustomMsg
    BY <2>1, <2>2
  <2>4. msgs \subseteq Msg /\ Correlated
    BY DEF IInv, TypeOK
  <2>5. QED
    BY <2>2, <2>3, <2>4
<1>1. ASSUME NEW n \in Names, Register(n) PROVE IInv'
  <2>1. /\ lookupType' = lookupType \cup {<<nextCustomMsg, n>>}
        /\ nextCustomMsg' = nextCustomMsg + 1 /\ registered' = registered \cup {n}
        /\ UNCHANGED <<header, last, msgs>>
        /\ \A p \in lookupType : p[2] # n
    BY <1>0, <1>1 DEF Register, IInv, TypeOK
  <2>2. TypeOK' /\ nextCustomMsg' >= customMsg
    BY <2>1 DEF IInv, TypeOK
  <2>3. \A p \in lookupType' : p \in stdNames \/ (customMsg <= p[1] /\ p[1] < nextCustomMsg')
    BY <2>1 DEF IInv, TypeOK
  <2>4. CustomDistinct'
    <3>1. SUFFICES ASSUME NEW k \in registered'
                   PROVE  \E p \in lookupType' :
                            p[2] = k /\ \A q \in lookupType' : q # p => q[1] # p[1] /\ q[2] # k
      BY DEF CustomDistinct
    <3>2. CASE k = n
      <4>1. \A q \in lookupType : q[1] # nextCustomMsg /\ q[2] # n
        BY <1>0, <2>1 DEF IInv, TypeOK
      <4>2. QED
        BY Zenon, <2>1, <3>2, <4>1
    <3>3. CASE k \in registered /\ k # n
      <4>1. PICK p \in lookupType :
                 p[2] = k /\ \A q \in lookupType : q # p => q[1] # p[1] /\ q[2] # k
        BY <3>3 DEF IInv, CustomDistinct
      <4>2. p[1] # nextCustomMsg
        BY <1>0 DEF IInv, TypeOK
      <4>3. QED
        BY <2>1, <3>3, <4>1, <4>2
    <3>4. QED
      BY <2>1, <3>2, <3>3
  <2>5. Correlated' /\ OnePeer'
    BY <2>1 DEF IInv, Correlated, OnePeer
  <2>6. \A a \in msgs' : a.type = AckMsg =>
           a.forType \in UnmarshalRequest(AllowedMessagesFromHeader(header'))
    BY <2>1 DEF IInv
  <2>7. QED
    BY Zenon, <2>2, <2>3, <2>4, <2>5, <2>6 DEF IInv
<1>2. ASSUME NEW s \in Subjects, NewCall(s) \/ NewPub(s) \/ NewSub(s) \/ NewUnsb(s) PROVE IInv'
  <2>1. PICK t \in allReqMsgs : NewMsg(t, s, 0, startRead)
    BY <1>2 DEF NewCall, NewPub, NewSub, NewUnsb, allReqMsgs
  <2>2. t \in Nat /\ ~IsWrite(t) /\ t # AckMsg
    BY DEF allReqMsgs, IsWrite
  <2>3. 0 \in 0..MaxMsgs /\ startRead \in Nat
    OBVIOUS
  <2>4. QED
    BY <2>1, <2>2, <2>3, NewMsgPreserves
<1>3. ASSUME NEW m \in msgs PROVE /\ m.id \in 1..MaxMsgs /\ m.type \in Nat /\ m.subject \in Subjects
                                  /\ m.for \in 0..MaxMsgs /\ m.forType \in Nat
                                  /\ m.id \in 0..MaxMsgs
  BY <1>0 DEF Msg
<1>4. ASSUME NEW m \in msgs, NewAck(m) PROVE IInv'
  <2>1. /\ IsRead(m.type) /\ NewMsg(AckMsg, m.subject, m.id, m.type)
        /\ m.type \in UnmarshalRequest(AllowedMessagesFromHeader(header))
    BY <1>4 DEF NewAck, Accepted
  <2>2. QED
    BY <1>3, <2>1, NewMsgPreserves
<1>5. ASSUME NEW m \in msgs, NewNack(m) PROVE IInv'
  <2>1. IsWrite(m.type) \/ IsRead(m.type)
    BY <1>5, Decoders DEF NewNack, Accepted, IsRead, allReqMsgs
  <2>2. NewMsg(NackMsg, m.subject, NackFor(m)[1], NackFor(m)[2])
    BY <1>5 DEF NewNack
  <2>3. /\ NackFor(m)[1] \in 0..MaxMsgs /\ NackFor(m)[2] \in Nat
        /\ \E r \in msgs : /\ IsRead(r.type) /\ r.id = NackFor(m)[1] /\ r.subject = m.subject
                           /\ r.type = NackFor(m)[2]
    <3>1. CASE IsRead(m.type)
      <4>1. NackFor(m) = <<m.id, m.type>>
        BY <3>1 DEF NackFor, IsRead
      <4>2. QED
        BY <1>3, <3>1, <4>1
    <3>2. CASE IsWrite(m.type)
      <4>1. m.type \in {AckMsg, NackMsg, ResMsg, EvntMsg}
        BY <1>3, <3>2 DEF IsWrite
      <4>2. NackFor(m) = <<m.for, AboutType(m)>>
        BY <4>1 DEF NackFor, AboutType
      <4>3. AboutType(m) \in Nat
        BY <1>3, <4>1 DEF AboutType
      <4>4. QED
        BY <1>0, <1>3, <3>2, <4>2, <4>3 DEF Correlated
    <3>3. QED
      BY <2>1, <3>1, <3>2
  <2>4. QED
    BY <1>3, <2>2, <2>3, NewMsgPreserves
<1>6. ASSUME NEW m \in msgs, NewRes(m) PROVE IInv'
  <2>1. m.type = CallMsg /\ IsRead(m.type) /\ NewMsg(ResMsg, m.subject, m.id, startRead)
    BY <1>6 DEF NewRes, IsRead
  <2>2. QED
    BY <1>3, <2>1, NewMsgPreserves
<1>7. ASSUME NEW m \in msgs, NewEvnt(m) PROVE IInv'
  <2>1. m.type = PubMsg /\ IsRead(m.type) /\ NewMsg(EvntMsg, m.subject, m.id, startRead)
    BY <1>7 DEF NewEvnt, IsRead
  <2>2. QED
    BY <1>3, <2>1, NewMsgPreserves
<1>8. ASSUME NEW m \in msgs, NEW p \in lookupType \ stdNames, NewExp(m, p[1]) PROVE IInv'
  <2>1. p[1] \in Nat /\ ~IsWrite(p[1]) /\ p[1] # AckMsg
    BY <1>0 DEF IsWrite
  <2>2. NewMsg(p[1], m.subject, m.id, startRead)
    BY <1>8 DEF NewExp
  <2>3. QED
    BY <1>3, <2>1, <2>2, NewMsgPreserves
<1>9. CASE UNCHANGED vars
  <2>1. UNCHANGED <<header, nextCustomMsg, lookupType, registered, last, msgs>>
    BY <1>9 DEF vars
  <2>2. TypeOK' /\ CustomDistinct'
    BY <2>1 DEF IInv, TypeOK, CustomDistinct
  <2>3. Correlated' /\ OnePeer'
    BY <2>1 DEF IInv, Correlated, OnePeer
  <2>4. /\ nextCustomMsg' >= customMsg
        /\ \A p \in lookupType' : p \in stdNames \/ (customMsg <= p[1] /\ p[1] < nextCustomMsg')
        /\ \A a \in msgs' : a.type = AckMsg =>
             a.forType \in UnmarshalRequest(AllowedMessagesFromHeader(header'))
    BY <2>1 DEF IInv
  <2>. QED  BY Zenon, <2>2, <2>3, <2>4 DEF IInv
<1>10. QED
  BY <1>1, <1>2, <1>4, <1>5, <1>6, <1>7, <1>8, <1>9 DEF Next

\* IInv holds in every state: however the messages of a connection are made
\* from each other, what Correlated, OnePeer and CustomDistinct say of them is
\* true, and an ACK is for a request that the decoder accepts.
THEOREM MessagesInvariant == Safety => []IInv
<1>1. Init => IInv
  <2> SUFFICES ASSUME Init PROVE IInv
    OBVIOUS
  <2>1. \A p \in stdNames : p[1] \in Nat /\ p = <<p[1], p[2]>>
    BY DEF stdNames
  <2>2. stdNames \subseteq Nat \X (Names \cup {p[2] : p \in stdNames})
    BY <2>1
  <2>3. TypeOK
    BY <2>2, BoundAssumption DEF Init, TypeOK
  <2>4. QED
    BY <2>3 DEF Init, IInv, Correlated, OnePeer, CustomDistinct
<1>2. QED
  BY <1>1, Step, PTL DEF Safety

\* Every ACK, NACK, RES and EVNT names the request that it answers (NewAck,
\* NewNack, NewRes, NewEvnt).
THEOREM CorrelatedHolds == Safety => []Correlated
<1>1. IInv => Correlated
  BY DEF IInv
<1>2. QED
  BY <1>1, MessagesInvariant, PTL

\* For headers that are empty, "*" or name a request type, the server answers
\* only requests of the types that the header names, whatever else it names
\* (AllowedMessagesFromHeader, UnmarshalRequest).
THEOREM HeaderRestrictsHolds == NamesRequests => (Safety => []HeaderRestricts)
<1> SUFFICES ASSUME NamesRequests PROVE Safety => []HeaderRestricts
  OBVIOUS
<1>1. IInv => HeaderRestricts
  <2> SUFFICES ASSUME IInv, NEW a \in msgs, a.type = AckMsg, header \notin {{}, {"*"}}
               PROVE  \E w \in header \cap Words : a.forType = TypeOf[w]
    BY DEF HeaderRestricts
  <2>1. header \in Headers /\ header \cap Words # {}
    BY DEF IInv, TypeOK, NamesRequests
  <2>2. a.forType \in UnmarshalRequest(AllowedMessagesFromHeader(header))
    BY DEF IInv
  <2>3. QED
    BY <2>1, <2>2, HeaderTypes
<1>2. QED
  BY <1>1, MessagesInvariant, PTL

=============================================================================
