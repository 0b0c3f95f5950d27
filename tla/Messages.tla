------------------------------ MODULE Messages ------------------------------
(***************************************************************************)
(* The messages of the protocol (message/message.go): their types, the     *)
(* constructors of the requests and of the messages that answer them, and  *)
(* the decoders that say which types a peer takes from the other one.      *)
(*                                                                         *)
(* A message is a record: its UUID, its type, the URI or channel it is     *)
(* about and, in an answer, the UUID and the type of the message it is     *)
(* for.  A UUID is the number of the message, since UUIDs do not collide.  *)
(* The arguments of a message are passed on as they are and left out.      *)
(***************************************************************************)
EXTENDS Naturals

CONSTANTS
    Names,    \* names that packages register, as "EXP" of the client
    Subjects, \* URIs and channels
    Headers,  \* the values of the Juggler-Allowed-Messages header, each a set of words
    MaxMsgs   \* bound of the model: messages that are created

\* The words of the header that name a type.
Words == {"call", "sub", "unsb", "pub"}

ASSUME BoundAssumption == MaxMsgs \in Nat
ASSUME HeadersAssumption == Headers \subseteq SUBSET (Words \cup {"*", "other"})

-----------------------------------------------------------------------------
(* The types.                                                              *)

startRead  == 0
CallMsg    == 1
PubMsg     == 2
SubMsg     == 3
UnsbMsg    == 4
endRead    == 5
startWrite == 6
NackMsg    == 7
AckMsg     == 8
ResMsg     == 9
EvntMsg    == 10
endWrite   == 11
customMsg  == 256

IsRead(t) == startRead < t /\ t < endRead

IsWrite(t) == startWrite < t /\ t < endWrite

IsStd(t) == IsRead(t) \/ IsWrite(t)

allReqMsgs == {CallMsg, SubMsg, UnsbMsg, PubMsg}

\* What lookupType holds before any package registers a name.
stdNames ==
    {<<CallMsg, "CALL">>, <<PubMsg, "PUB">>, <<SubMsg, "SUB">>, <<UnsbMsg, "UNSB">>,
     <<NackMsg, "NACK">>, <<AckMsg, "ACK">>, <<ResMsg, "RES">>, <<EvntMsg, "EVNT">>}

-----------------------------------------------------------------------------
(* The decoders, as the set of the types that they accept.                 *)

stdTypes == allReqMsgs \cup {NackMsg, AckMsg, ResMsg, EvntMsg}

\* unmarshalIf: the type is in the list, unless this is empty, and known.
unmarshalIf(allowed) == IF allowed = {} THEN stdTypes ELSE allowed \cap stdTypes

\* UnmarshalRequest drops the types that are not requests from its list, and
\* takes an empty list for all the requests.
UnmarshalRequest(allowed) ==
    LET cleaned == {t \in allowed : IsRead(t)}
    IN  unmarshalIf(IF cleaned = {} THEN allReqMsgs ELSE cleaned)

UnmarshalResponse == unmarshalIf({NackMsg, AckMsg, EvntMsg, ResMsg})

TypeOf == [call |-> CallMsg, sub |-> SubMsg, unsb |-> UnsbMsg, pub |-> PubMsg]

\* Mutant of AllowedMessagesFromHeader: UNSB is let in with SUB.
AllowedMessagesFromHeader_SubUnsb(h) ==
    {TypeOf[w] : w \in h \cap Words} \cup (IF "sub" \in h THEN {UnsbMsg} ELSE {})

\* AllowedMessagesFromHeader skips the words it does not know.
AllowedMessagesFromHeader(h) ==
    IF h = {} \/ h = {"*"} THEN {} ELSE {TypeOf[w] : w \in h \cap Words}

-----------------------------------------------------------------------------

VARIABLES
    header,        \* the header of the connection
    lookupType,    \* the types and their names
    nextCustomMsg, \* the next custom type
    registered,    \* the names that Register returned a type for (history)
    last,          \* the last UUID
    msgs           \* the messages that were created

vars == <<header, lookupType, nextCustomMsg, registered, last, msgs>>

Msg == [id : 1..MaxMsgs, type : Nat, subject : Subjects, for : 0..MaxMsgs, forType : Nat]

TypeOK ==
    /\ header \in Headers
    /\ lookupType \subseteq Nat \X (Names \cup {p[2] : p \in stdNames})
    /\ nextCustomMsg \in Nat
    /\ registered \subseteq Names
    /\ last \in 0..MaxMsgs
    /\ msgs \subseteq Msg

Init ==
    /\ header \in Headers
    /\ lookupType = stdNames
    /\ nextCustomMsg = customMsg
    /\ registered = {}
    /\ last = 0
    /\ msgs = {}

\* Mutant of Register: the next type is not counted up.
Register_SameType(n) ==
    /\ \A p \in lookupType : p[2] # n
    /\ lookupType' = {p \in lookupType : p[1] # nextCustomMsg} \cup {<<nextCustomMsg, n>>}
    /\ registered' = registered \cup {n}
    /\ UNCHANGED <<header, nextCustomMsg, last, msgs>>

\* Register gives a new name the next type; it panics for a known name.
Register(n) ==
    /\ \A p \in lookupType : p[2] # n
    /\ lookupType' = {p \in lookupType : p[1] # nextCustomMsg} \cup {<<nextCustomMsg, n>>}
    /\ nextCustomMsg' = nextCustomMsg + 1
    /\ registered' = registered \cup {n}
    /\ UNCHANGED <<header, last, msgs>>

\* NewMeta gives the message a UUID of its own.
NewMsg(t, s, for, forType) ==
    /\ last < MaxMsgs
    /\ last' = last + 1
    /\ msgs' = msgs \cup
        {[id |-> last + 1, type |-> t, subject |-> s, for |-> for, forType |-> forType]}
    /\ UNCHANGED <<header, lookupType, nextCustomMsg, registered>>

-----------------------------------------------------------------------------
(* Requests.  The arguments of a CALL or a PUB that cannot be encoded give *)
(* no message.                                                             *)

NewCall(s) == NewMsg(CallMsg, s, 0, startRead)
NewPub(s)  == NewMsg(PubMsg, s, 0, startRead)
NewSub(s)  == NewMsg(SubMsg, s, 0, startRead)
NewUnsb(s) == NewMsg(UnsbMsg, s, 0, startRead)

-----------------------------------------------------------------------------
(* Answers.  The server answers what its decoder accepts.                  *)

Accepted(m) == m.type \in UnmarshalRequest(AllowedMessagesFromHeader(header))

NewAck(from) ==
    /\ IsRead(from.type) /\ Accepted(from)
    /\ NewMsg(AckMsg, from.subject, from.id, from.type)

\* Mutant of NackFor: the case of a RES is missing.
NackFor_NoRes(from) ==
    CASE from.type \in {AckMsg, NackMsg} -> <<from.for, from.forType>>
      [] from.type = EvntMsg -> <<from.for, PubMsg>>
      [] OTHER -> <<from.id, from.type>>

\* The message a NACK is for: the request, also when it is an answer to the
\* request that could not be sent.
NackFor(from) ==
    CASE from.type \in {AckMsg, NackMsg} -> <<from.for, from.forType>>
      [] from.type = EvntMsg -> <<from.for, PubMsg>>
      [] from.type = ResMsg -> <<from.for, CallMsg>>
      [] OTHER -> <<from.id, from.type>>

NewNack(from) ==
    /\ IsWrite(from.type) \/ Accepted(from)
    /\ NewMsg(NackMsg, from.subject, NackFor(from)[1], NackFor(from)[2])

\* The payloads of a call in the broker and of its result carry the UUID and
\* the URI of the CALL.
NewRes(call) ==
    /\ call.type = CallMsg /\ Accepted(call)
    /\ NewMsg(ResMsg, call.subject, call.id, startRead)

\* The payloads of a published event carry the UUID of the PUB; redis tells
\* the channel.
NewEvnt(pub) ==
    /\ pub.type = PubMsg /\ Accepted(pub)
    /\ NewMsg(EvntMsg, pub.subject, pub.id, startRead)

\* A message of a custom type, as the client's newExp.
NewExp(call, t) ==
    /\ call.type = CallMsg
    /\ NewMsg(t, call.subject, call.id, startRead)

-----------------------------------------------------------------------------
Next ==
    \/ \E n \in Names : Register(n)
    \/ \E s \in Subjects : NewCall(s) \/ NewPub(s) \/ NewSub(s) \/ NewUnsb(s)
    \/ \E m \in msgs : NewAck(m) \/ NewNack(m) \/ NewRes(m) \/ NewEvnt(m)
    \/ \E m \in msgs, p \in lookupType \ stdNames : NewExp(m, p[1])

Safety == Init /\ [][Next]_vars

-----------------------------------------------------------------------------
(* Properties.                                                             *)

\* What answer a is about, as its ForType says or, in a RES or an EVNT, its
\* type.
AboutType(a) ==
    CASE a.type = ResMsg -> CallMsg
      [] a.type = EvntMsg -> PubMsg
      [] OTHER -> a.forType

\* Every answer names a request that was made, with its type and its URI or
\* channel, through any chain of answers that a NACK replaces.  The client
\* finds the pending call of a RES or a NACK by this UUID and this type.
Correlated ==
    \A a \in msgs : IsWrite(a.type) =>
        \E r \in msgs : /\ IsRead(r.type)
                        /\ r.id = a.for /\ r.type = AboutType(a) /\ r.subject = a.subject

\* A message is accepted by the decoder of one peer at most, and a custom
\* message by none, even where the list given to ServeConn names its type: the
\* server never takes an answer for a request, and an EXP stays in the client.
OnePeer ==
    \A m \in msgs, t \in stdTypes :
        /\ m.type \in UnmarshalRequest({t, m.type}) => m.type \notin UnmarshalResponse
        /\ m.type \in unmarshalIf({t, m.type}) => m.type < customMsg

\* When the header is non-empty and not "*", only the messages that it names
\* are allowed: the server answers no other with an ACK.
HeaderRestricts ==
    \A a \in msgs : a.type = AckMsg =>
        \/ header \in {{}, {"*"}}
        \/ \E w \in header \cap Words : a.forType = TypeOf[w]

\* The headers for which this is so: AllowedMessagesFromHeader returns an empty
\* list, which stands for all the requests, also for a header that is neither
\* empty nor "*" and names no request.
NamesRequests == \A h \in Headers : h \in {{}, {"*"}} \/ h \cap Words # {}

\* No custom message shares its type or its name with another one or with a
\* standard one, and none loses its name, however many packages register one.
CustomDistinct ==
    \A n \in registered : \E p \in lookupType :
        p[2] = n /\ \A q \in lookupType : q # p => q[1] # p[1] /\ q[2] # n

\* The inductive invariant of the properties above: a type that is not a
\* standard one is beyond these and before the next one, and an ACK is for a
\* request that the decoder accepts.
IInv ==
    /\ TypeOK
    /\ Correlated
    /\ OnePeer
    /\ \A a \in msgs : a.type = AckMsg =>
            a.forType \in UnmarshalRequest(AllowedMessagesFromHeader(header))
    /\ CustomDistinct
    /\ nextCustomMsg >= customMsg
    /\ \A p \in lookupType : p \in stdNames \/ (customMsg <= p[1] /\ p[1] < nextCustomMsg)

=============================================================================
