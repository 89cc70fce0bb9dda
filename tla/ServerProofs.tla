---------------------------- MODULE ServerProofs ----------------------------
(***************************************************************************)
(* Proofs about the server's session registry, for any number of           *)
(* connections, clients and streams and any limits, and about the          *)
(* connections it makes through an upstream proxy.                         *)
(***************************************************************************)
EXTENDS ServerSessions, Upstream, FiniteSetTheorems, TLAPS

(***************************************************************************)
(* Upstream: answers, names and data of any length.                        *)
(***************************************************************************)
\* The types, without the bounds on data and names.
Typed ==
    /\ mode \in {"connect", "associate", "front"} /\ password \in BOOLEAN
    /\ stage \in {"dial", "greet", "auth", "request", "address", "listen", "ready", "failed", "closed"}
    /\ answer \in {"none", "yes", "no"} /\ bound \in [type : AddressType, len : Nat]
    /\ sent \in Nat /\ answered \in Nat /\ drawn \in Nat /\ buffered \in Nat
    /\ received \in Seq(Nat)

\* Where the reader stands in the stream.  Between two requests it has read all that
\* has come; an answer is ahead of it whole, and the target's bytes are behind that.
Position ==
    /\ stage \in {"dial", "greet", "auth", "request", "address"} =>
           received = <<>> /\ buffered = 0
    /\ stage = "dial" => answer = "none"
    /\ stage \in {"dial", "greet", "auth", "request"} /\ answer = "none" =>
           drawn = answered /\ sent = answered
    /\ stage \in {"greet", "auth"} => mode # "front"
    /\ stage \in {"greet", "auth"} /\ answer # "none" =>
           answered = drawn + 2 /\ sent = answered
    /\ stage = "request" /\ answer # "none" =>
           /\ sent >= answered
           /\ mode # "front" => answered = drawn + 4 + AddressLen(bound)
    /\ stage = "address" =>
           /\ mode # "front" /\ bound.type # "other" /\ sent >= answered
           /\ answered = drawn + AddressLen(bound)
    /\ stage = "listen" => mode = "associate" /\ received = <<>>
    /\ stage = "ready" /\ mode # "associate" => drawn = answered + Len(received) + buffered
    /\ stage = "ready" /\ mode = "associate" => received = <<>>

\* What is open.
Held ==
    /\ stage \in {"greet", "auth", "request", "address", "listen", "ready"} => tcp = "open"
    /\ stage = "dial" => tcp = "none"
    /\ stage \in {"failed", "closed"} => tcp # "open" /\ udp # "open"
    /\ stage \notin {"ready", "closed"} => udp = "none"
    /\ stage = "ready" /\ mode = "associate" => udp = "open"

InOrder == \A i \in 1..Len(received) : received[i] = answered + i

UpstreamInv == Typed /\ Position /\ Held /\ InOrder

\* The inductive invariant holds before the proxy is dialled.
LEMMA UpstreamInitially == UpstreamInit => UpstreamInv
<1> SUFFICES ASSUME UpstreamInit PROVE UpstreamInv
  OBVIOUS
<1>1. Typed
  BY DEF UpstreamInit, Typed, AddressType
<1>2. Position /\ Held /\ InOrder
  BY DEF UpstreamInit, Position, Held, InOrder
<1> QED BY <1>1, <1>2 DEF UpstreamInv

\* An address takes the bytes of the answer that socks5Connect and newSOCKS5UDPRelay
\* read for it, whatever its type.
LEMMA ReadsWholeAddress ==
    ASSUME NEW b \in [type : AddressType, len : Nat], b.type # "other"
    PROVE  BoundAddress(b) = AddressLen(b) /\ AddressLen(b) \in Nat
<1>1. b.type \in {"v4", "v6", "domain"} /\ b.len \in Nat
  BY DEF AddressType
<1>2. CASE b.type = "v4"
  BY <1>2 DEF BoundAddress, AddressLen
<1>3. CASE b.type = "v6"
  BY <1>3 DEF BoundAddress, AddressLen
<1>4. CASE b.type = "domain"
  BY <1>1, <1>4 DEF BoundAddress, AddressLen
<1> QED BY <1>1, <1>2, <1>3, <1>4

\* The length of any answer is a natural number.
LEMMA AddressLenNat ==
    ASSUME NEW b \in [type : AddressType, len : Nat]
    PROVE  AddressLen(b) \in Nat
<1>1. CASE b.type = "other"
  BY <1>1 DEF AddressLen
<1>2. CASE b.type # "other"
  BY <1>2, ReadsWholeAddress
<1> QED BY <1>1, <1>2

\* Every step of the exchange keeps the inductive invariant.
LEMMA UpstreamStep == UpstreamInv /\ [UpstreamNext]_upstreamVars => UpstreamInv'
<1> SUFFICES ASSUME UpstreamInv, [UpstreamNext]_upstreamVars PROVE UpstreamInv'
  OBVIOUS
<1> USE UpstreamAssumption
<1>i. Typed /\ Position /\ Held /\ InOrder
  BY DEF UpstreamInv
<1>a. AddressLen(bound) \in Nat
  BY <1>i, AddressLenNat, SMTT(30) DEF Typed
<1>1. CASE DialProxy
  BY <1>i, <1>1, SMTT(30) DEF DialProxy, UpstreamInv, Typed, Position, Held, InOrder
<1>2. CASE ProxyAnswers
  <2>1. CASE stage = "request" /\ mode # "front"
    <3>1. PICK type \in AddressType, len \in 0..NameLen :
              bound' = [type |-> type, len |-> len] /\ sent' = sent + 4 + AddressLen(bound')
      BY <1>2, <2>1 DEF ProxyAnswers
    <3>2. bound' \in [type : AddressType, len : Nat]
      BY <3>1
    <3>3. AddressLen(bound') \in Nat /\ AddressLen(bound)' = AddressLen(bound')
      BY <3>2, AddressLenNat
    <3>4. Typed'
      BY <1>i, <1>2, <3>1, <3>2, <3>3, SMTT(30) DEF ProxyAnswers, Typed
    <3>5. Position'
      BY <1>i, <1>2, <2>1, <3>1, <3>3, SMTT(30) DEF ProxyAnswers, Typed, Position
    <3> QED BY <1>i, <1>2, <2>1, <3>4, <3>5, SMTT(30) DEF ProxyAnswers, UpstreamInv, Position, Held, InOrder
  <2>2. CASE ~(stage = "request" /\ mode # "front")
    BY <1>i, <1>2, <2>2, SMTT(30) DEF ProxyAnswers, UpstreamInv, Typed, Position, Held, InOrder
  <2> QED BY <2>1, <2>2
<1>3. CASE TargetSends
  <2>1. AddressLen(bound)' = AddressLen(bound)
    BY <1>3 DEF TargetSends, AddressLen
  <2> QED BY <1>i, <1>a, <1>3, <2>1, SMTT(30) DEF TargetSends, UpstreamInv, Typed, Position, Held, InOrder
<1>4. CASE BreaksOff
  BY <1>i, <1>4, SMTT(30) DEF BreaksOff, Abandon, UpstreamInv, Typed, Position, Held, InOrder
<1>5. CASE ReadMethod
  BY <1>i, <1>5, SMTT(30) DEF ReadMethod, Abandon, UpstreamInv, Typed, Position, Held, InOrder
<1>6. CASE ReadAuth
  BY <1>i, <1>6, SMTT(30) DEF ReadAuth, Abandon, UpstreamInv, Typed, Position, Held, InOrder
<1>7. CASE ReadReply
  <2>1. AddressLen(bound)' = AddressLen(bound)
    BY <1>7 DEF ReadReply, AddressLen
  <2> QED BY <1>i, <1>a, <1>7, <2>1, SMTT(30) DEF ReadReply, Abandon, UpstreamInv, Typed, Position, Held, InOrder
<1>8. CASE ReadBoundAddress
  <2>1. BoundAddress(bound) = AddressLen(bound) /\ AddressLen(bound) \in Nat
    BY <1>i, <1>8, ReadsWholeAddress, SMTT(30) DEF ReadBoundAddress, Typed, Position
  <2> QED BY <1>i, <1>8, <2>1, SMTT(30) DEF ReadBoundAddress, Abandon, UpstreamInv, Typed, Position, Held, InOrder
<1>9. CASE OpenRelaySocket
  BY <1>i, <1>9, SMTT(30) DEF OpenRelaySocket, Abandon, UpstreamInv, Typed, Position, Held, InOrder
<1>10. CASE ReadConnectResponse
  <2>1. PICK n \in answered..sent :
            \/ /\ answer = "yes" /\ stage' = "ready"
               /\ drawn' = n /\ buffered' = n - answered /\ UNCHANGED tcp
            \/ answer = "no" /\ Abandon(n) /\ buffered' = 0
    BY <1>10 DEF ReadConnectResponse
  <2>2. n \in Nat /\ n - answered \in Nat
    BY <1>i, <2>1, SMTT(30) DEF Typed
  <2> QED BY <1>i, <1>10, <2>1, <2>2, SMTT(30)
          DEF ReadConnectResponse, Abandon, UpstreamInv, Typed, Position, Held, InOrder
<1>11. CASE ReadTarget
  <2>1. CASE buffered > 0
    <3>1. received' = Append(received, drawn - buffered + 1) /\ buffered' = buffered - 1
          /\ drawn' = drawn
      BY <1>11, <2>1, <1>i DEF ReadTarget, Typed
    <3>2. drawn - buffered + 1 = answered + Len(received) + 1
      BY <1>i, <1>11, SMTT(30) DEF ReadTarget, Typed, Position
    <3>3. InOrder'
      BY <1>i, <1>11, <3>1, <3>2, SMTT(30) DEF ReadTarget, InOrder, Typed
    <3> QED BY <1>i, <1>11, <2>1, <3>1, <3>2, <3>3, SMTT(30)
            DEF ReadTarget, UpstreamInv, Typed, Position, Held
  <2>2. CASE ~(buffered > 0)
    <3>1. received' = Append(received, drawn + 1) /\ drawn' = drawn + 1 /\ buffered' = 0 /\ buffered = 0
      BY <1>11, <2>2, <1>i DEF ReadTarget, Typed
    <3>2. drawn + 1 = answered + Len(received) + 1
      BY <1>i, <1>11, <3>1, SMTT(30) DEF ReadTarget, Typed, Position
    <3>3. InOrder'
      BY <1>i, <1>11, <3>1, <3>2, SMTT(30) DEF ReadTarget, InOrder, Typed
    <3> QED BY <1>i, <1>11, <3>1, <3>2, <3>3, SMTT(30)
            DEF ReadTarget, UpstreamInv, Typed, Position, Held
  <2> QED BY <2>1, <2>2
<1>12. CASE CloseProxied
  BY <1>i, <1>12, SMTT(30) DEF CloseProxied, UpstreamInv, Typed, Position, Held, InOrder
<1>13. CASE UNCHANGED upstreamVars
  <2>1. AddressLen(bound)' = AddressLen(bound)
    BY <1>13 DEF upstreamVars, AddressLen
  <2> QED BY <1>i, <1>13, <2>1, SMTT(30) DEF upstreamVars, UpstreamInv, Typed, Position, Held, InOrder
<1> QED BY <1>1, <1>2, <1>3, <1>4, <1>5, <1>6, <1>7, <1>8, <1>9, <1>10, <1>11, <1>12, <1>13
        DEF UpstreamNext

(***************************************************************************)
(* Whatever the lengths of answers and names and however much the proxy's  *)
(* bytes run ahead: what dialViaSocks5 and dialWebSocketFrontProxy hand    *)
(* over begins with the target's first byte, and every error return and    *)
(* Close leaves no connection and no socket open.                          *)
(***************************************************************************)
THEOREM HandedOverWhole == UpstreamSpec => []UpstreamHandedOver
<1>1. UpstreamInv => UpstreamHandedOver
  BY DEF UpstreamInv, UpstreamHandedOver, Held, InOrder
<1> QED BY UpstreamInitially, UpstreamStep, <1>1, PTL DEF UpstreamSpec

(***************************************************************************)
(* ServerSessions: who holds a session, its channels and its streams.      *)
(***************************************************************************)
\* A handler holds a session exactly from the lookup on.
SessionHeld ==
    \A c \in Conn :
        /\ pc[c] \in {"keying", "failed"} \cup Published => sess[c] \in Conn
        /\ pc[c] \in {"idle", "preauth", "authed", "rejected"} => sess[c] = None

\* A mapped channel belongs to the session that maps it and has not been removed.
ChannelsOwned ==
    \A s \in Conn : \A c \in channels[s] :
        /\ sess[c] = s
        /\ pc[c] \in {"superseding", "attaching", "accepting", "serving",
                      "rejecting", "removing"}

\* Sessions are registered under, and held for, the SessionID of their maker.
SessionOfClient ==
    /\ \A cl \in Client : registry[cl] # None => client[registry[cl]] = cl
    /\ \A c \in Conn : sess[c] # None => client[sess[c]] = client[c]

\* A stream is served only on a connection whose channel was published.
StreamsServed ==
    \A x \in Stream : stream[x] # None => pc[stream[x]] \in Published

Shape == TypeOK /\ SessionHeld /\ ChannelsOwned /\ SessionOfClient /\ StreamsServed

\* SupersededEnds, from the moment the channel is published.
Superseded ==
    \A c \in Conn \ Quic :
        /\ pc[c] \in {"superseding", "attaching", "accepting", "serving", "rejecting"}
        /\ c \notin channels[sess[c]]
        => \/ conn[c] = "closed"
           \/ \E d \in Conn : pc[d] = "superseding" /\ c \in replaced[d]
-----------------------------------------------------------------------------
\* Every handler starts without a session, a channel or a stream.
LEMMA ShapeInit == Init => Shape
<1> SUFFICES ASSUME Init
             PROVE  Shape
    OBVIOUS
<1> USE ServerAssumption DEF Init
<1>1. chanID \in [Conn -> Nat]
    OBVIOUS
<1>2. TypeOK
    BY <1>1 DEF TypeOK, Phase
<1>3. SessionHeld /\ ChannelsOwned /\ SessionOfClient /\ StreamsServed
    BY DEF SessionHeld, ChannelsOwned, SessionOfClient, StreamsServed, Published
<1> QED
    BY <1>2, <1>3 DEF Shape

\* Every step of every handler keeps the state well formed: types, which handler
\* holds which session, which session maps which channel.
LEMMA ShapeNext == Shape /\ [Next]_vars => Shape'
<1> SUFFICES ASSUME Shape, [Next]_vars
             PROVE  Shape'
    OBVIOUS
<1> USE ServerAssumption
        DEF Shape, TypeOK, Phase, Published, Final, SessionHeld, ChannelsOwned,
            SessionOfClient, StreamsServed, Goto, Close
<1>1. ASSUME NEW c \in Conn, AcceptConnection(c)
      PROVE  Shape'
    BY <1>1 DEF AcceptConnection
<1>2. ASSUME NEW c \in Conn, PreAuthPass(c)
      PROVE  Shape'
    BY <1>2 DEF PreAuthPass
<1>3. ASSUME NEW c \in Conn, PreAuthFail(c)
      PROVE  Shape'
    BY <1>3 DEF PreAuthFail
<1>4. ASSUME NEW c \in Conn, JoinSession(c)
      PROVE  Shape'
    BY <1>4 DEF JoinSession
<1>5. ASSUME NEW c \in Conn, CreateSession(c)
      PROVE  Shape'
    BY <1>5 DEF CreateSession
<1>6. ASSUME NEW c \in Conn, RejectSession(c)
      PROVE  Shape'
    BY <1>6 DEF RejectSession
<1>7. ASSUME NEW c \in Conn, KeyFailure(c)
      PROVE  Shape'
    <2>1. TypeOK'
        BY <1>7 DEF KeyFailure
    <2>2. SessionHeld' /\ ChannelsOwned' /\ SessionOfClient' /\ StreamsServed'
        BY <1>7 DEF KeyFailure
    <2> QED
        BY <2>1, <2>2, Zenon DEF Shape
<1>8. ASSUME NEW c \in Conn, AddChannel(c)
      PROVE  Shape'
    <2>1. TypeOK'
        BY <1>8 DEF AddChannel, NewChanID
    <2>2. SessionHeld' /\ ChannelsOwned'
        BY <1>8 DEF AddChannel
    <2>3. SessionOfClient' /\ StreamsServed'
        BY <1>8 DEF AddChannel
    <2> QED
        BY <2>1, <2>2, <2>3, Zenon DEF Shape
<1>9. ASSUME NEW c \in Conn, CloseReplaced(c)
      PROVE  Shape'
    BY <1>9 DEF CloseReplaced
<1>10. ASSUME NEW c \in Conn, AttachTransport(c)
      PROVE  Shape'
    BY <1>10 DEF AttachTransport
<1>11. ASSUME NEW c \in Conn, WriteAcceptOK(c)
      PROVE  Shape'
    BY <1>11 DEF WriteAcceptOK
<1>12. ASSUME NEW c \in Conn, WriteAcceptFail(c)
      PROVE  Shape'
    BY <1>12 DEF WriteAcceptFail
<1>13. ASSUME NEW c \in Conn, RejectStreamDone(c)
      PROVE  Shape'
    BY <1>13 DEF RejectStreamDone
<1>14. ASSUME NEW c \in Conn, AcceptStreamError(c)
      PROVE  Shape'
    BY <1>14 DEF AcceptStreamError
<1>15. ASSUME NEW c \in Conn, RemoveChannel(c)
      PROVE  Shape'
    BY <1>15 DEF RemoveChannel
<1>16. ASSUME NEW c \in Conn, DeregisterSession(c)
      PROVE  Shape'
    BY <1>16 DEF DeregisterSession
<1>17. ASSUME NEW c \in Conn, RejectStream(c)
      PROVE  Shape'
    BY <1>17 DEF RejectStream
<1>18. ASSUME NEW c \in Conn, PeerLost(c)
      PROVE  Shape'
    BY <1>18 DEF PeerLost
<1>19. ASSUME NEW c \in Conn, NEW x \in Stream, OpenStream(c, x)
      PROVE  Shape'
    BY <1>19 DEF OpenStream
<1>20. ASSUME NEW x \in Stream, EndStream(x)
      PROVE  Shape'
    BY <1>20 DEF EndStream
<1>21. CASE UNCHANGED vars
    BY <1>21 DEF vars
<1> QED
    BY <1>1, <1>2, <1>3, <1>4, <1>5, <1>6, <1>7, <1>8, <1>9, <1>10, <1>11, <1>12, <1>13, <1>14, <1>15, <1>16, <1>17, <1>18, <1>19, <1>20, <1>21
       DEF Next, Handshake, Teardown

\* The state is well formed in every reachable state: TypeOK, and who holds what.
THEOREM TypeCorrect == Spec => []TypeOK
<1>1. Spec => []Shape
    BY ShapeInit, ShapeNext, PTL DEF Spec
<1>2. Shape => TypeOK
    BY DEF Shape
<1> QED
    BY <1>1, <1>2, PTL
-----------------------------------------------------------------------------
\* The registry is a finite map, so that its size is a number.
LEMMA RegisteredFinite == IsFiniteSet(Registered) /\ Cardinality(Registered) \in Nat
<1>1. Registered \subseteq Client
    BY DEF Registered
<1> QED
    BY <1>1, ServerAssumption, FS_Subset, FS_CardinalityType

\* Only CreateSession adds to the registry, and it does so below the limit.
LEMMA ClientLimitNext == Shape /\ ClientLimit /\ [Next]_vars => ClientLimit'
<1> SUFFICES ASSUME Shape, ClientLimit, [Next]_vars, MaxClients > 0
             PROVE  Cardinality(Registered') <= MaxClients
    BY DEF ClientLimit, Registered
<1> USE ServerAssumption
<1>0. /\ IsFiniteSet(Registered) /\ Cardinality(Registered) \in Nat
      /\ Cardinality(Registered) <= MaxClients
    BY RegisteredFinite DEF ClientLimit
<1>1. ASSUME Registered' \subseteq Registered
      PROVE  Cardinality(Registered') <= MaxClients
    <2>1. Cardinality(Registered') <= Cardinality(Registered) /\ Cardinality(Registered') \in Nat
        BY <1>0, <1>1, FS_Subset, FS_CardinalityType
    <2> QED
        BY <1>0, <2>1
<1>2. ASSUME NEW c \in Conn, CreateSession(c)
      PROVE  Cardinality(Registered') <= MaxClients
    <2>1. Registered' = Registered \cup {client[c]}
        BY <1>2 DEF CreateSession, Registered, Shape, TypeOK
    <2>2. client[c] \notin Registered
        BY <1>2 DEF CreateSession, Registered
    <2>3. Cardinality(Registered') = Cardinality(Registered) + 1
        BY <1>0, <2>1, <2>2, FS_AddElement
    <2>4. Cardinality(Registered) < MaxClients
        BY <1>0, <1>2 DEF CreateSession, AtClientLimit
    <2> QED
        BY <1>0, <2>3, <2>4
<1>3. ASSUME NEW c \in Conn, DeregisterSession(c)
      PROVE  Registered' \subseteq Registered
    BY <1>3 DEF DeregisterSession, Registered, Shape, TypeOK
<1>4. ASSUME UNCHANGED registry
      PROVE  Registered' \subseteq Registered
    BY <1>4 DEF Registered
<1> QED
    BY <1>1, <1>2, <1>3, <1>4
       DEF Next, Handshake, Teardown, vars, AcceptConnection, PreAuthPass,
           PreAuthFail, JoinSession, RejectSession, KeyFailure, AddChannel,
           CloseReplaced, AttachTransport, WriteAcceptOK, WriteAcceptFail,
           RejectStreamDone, AcceptStreamError, RemoveChannel, RejectStream,
           PeerLost, OpenStream, EndStream

\* However handshakes interleave, the registry never exceeds -max-clients.
THEOREM ClientLimitHolds == Spec => []ClientLimit
<1>1. Init => ClientLimit
    <2> SUFFICES ASSUME Init PROVE ClientLimit
        OBVIOUS
    <2>1. Registered = {}
        BY DEF Init, Registered
    <2> QED
        BY <2>1, FS_EmptySet, ServerAssumption DEF ClientLimit
<1> QED
    BY <1>1, ShapeInit, ShapeNext, ClientLimitNext, PTL DEF Spec
-----------------------------------------------------------------------------
\* The streams of a session are finitely many.
LEMMA StreamsOfFinite ==
    ASSUME NEW s
    PROVE  IsFiniteSet(StreamsOf(s)) /\ Cardinality(StreamsOf(s)) \in Nat
<1>1. StreamsOf(s) \subseteq Stream
    BY DEF StreamsOf
<1> QED
    BY <1>1, ServerAssumption, FS_Subset, FS_CardinalityType

\* A step that neither starts nor ends a stream leaves the streams of every
\* session alone: a lookup gives a session only to a handler without streams.
LEMMA StreamsOfStable ==
    ASSUME Shape, [Next]_vars, UNCHANGED stream, NEW s \in Conn
    PROVE  StreamsOf(s)' = StreamsOf(s)
<1> USE ServerAssumption
<1>1. ASSUME NEW x \in Stream, stream[x] # None
      PROVE  sess'[stream[x]] = sess[stream[x]]
    <2>1. stream[x] \in Conn /\ pc[stream[x]] \in Published
        BY <1>1 DEF Shape, TypeOK, StreamsServed
    <2>2. \A c \in Conn : JoinSession(c) \/ CreateSession(c) => stream[x] # c
        BY <2>1 DEF JoinSession, CreateSession, Published
    <2>3. \A c \in Conn : JoinSession(c) \/ CreateSession(c) =>
              sess'[stream[x]] = sess[stream[x]]
        <3>1. sess \in [Conn -> Conn \cup {None}]
            BY DEF Shape, TypeOK
        <3> QED
            BY <2>1, <2>2, <3>1 DEF JoinSession, CreateSession
    <2> QED
        BY <2>3
           DEF Next, Handshake, Teardown, vars,
               AcceptConnection, PreAuthPass, PreAuthFail, RejectSession,
               KeyFailure, AddChannel, CloseReplaced, AttachTransport,
               WriteAcceptOK, WriteAcceptFail, RejectStreamDone, AcceptStreamError,
               RemoveChannel, DeregisterSession, RejectStream, PeerLost,
               OpenStream, EndStream
<1> QED
    BY <1>1 DEF StreamsOf

\* The counter of a session moves with the set of its running streams.
LEMMA StreamAccountingNext ==
    Shape /\ StreamAccounting /\ [Next]_vars => StreamAccounting'
<1> SUFFICES ASSUME Shape, StreamAccounting, [Next]_vars, NEW s \in Conn
             PROVE  /\ activeStreams'[s] = Cardinality(StreamsOf(s)')
                    /\ MaxStreams > 0 => activeStreams'[s] <= MaxStreams
    BY DEF StreamAccounting, StreamsOf
<1> USE ServerAssumption
<1>0. /\ IsFiniteSet(StreamsOf(s)) /\ Cardinality(StreamsOf(s)) \in Nat
      /\ activeStreams[s] = Cardinality(StreamsOf(s))
      /\ MaxStreams > 0 => activeStreams[s] <= MaxStreams
    BY StreamsOfFinite DEF StreamAccounting
<1>1. ASSUME NEW c \in Conn, NEW x \in Stream, OpenStream(c, x)
      PROVE  /\ activeStreams'[s] = Cardinality(StreamsOf(s)')
             /\ MaxStreams > 0 => activeStreams'[s] <= MaxStreams
    <2>1. sess[c] \in Conn /\ stream' = [stream EXCEPT ![x] = c] /\ sess' = sess
        BY <1>1 DEF OpenStream, Shape, SessionHeld, Published
    <2>2. CASE s = sess[c]
        <3>1. StreamsOf(s)' = StreamsOf(s) \cup {x}
            BY <1>1, <2>1, <2>2 DEF StreamsOf, OpenStream, Shape, TypeOK
        <3>2. x \notin StreamsOf(s)
            BY <1>1 DEF StreamsOf, OpenStream
        <3>3. Cardinality(StreamsOf(s)') = Cardinality(StreamsOf(s)) + 1
            BY <1>0, <3>1, <3>2, FS_AddElement
        <3>4. activeStreams'[s] = activeStreams[s] + 1
            BY <1>1, <2>1, <2>2 DEF OpenStream, Shape, TypeOK
        <3> QED
            BY <1>0, <1>1, <2>2, <3>3, <3>4 DEF OpenStream, AtStreamLimit
    <2>3. CASE s # sess[c]
        <3>1. StreamsOf(s)' = StreamsOf(s)
            BY <1>1, <2>1, <2>3 DEF StreamsOf, OpenStream, Shape, TypeOK
        <3>2. activeStreams'[s] = activeStreams[s]
            BY <1>1, <2>1, <2>3 DEF OpenStream, Shape, TypeOK
        <3> QED
            BY <1>0, <3>1, <3>2
    <2> QED
        BY <2>2, <2>3
<1>2. ASSUME NEW x \in Stream, EndStream(x)
      PROVE  /\ activeStreams'[s] = Cardinality(StreamsOf(s)')
             /\ MaxStreams > 0 => activeStreams'[s] <= MaxStreams
    <2> DEFINE c == stream[x]
    <2>1. c \in Conn /\ sess[c] \in Conn /\ stream' = [stream EXCEPT ![x] = None]
          /\ sess' = sess
        BY <1>2 DEF EndStream, Shape, TypeOK, SessionHeld, StreamsServed
    <2>2. CASE s = sess[c]
        <3>1. StreamsOf(s)' = StreamsOf(s) \ {x} /\ x \in StreamsOf(s)
            BY <1>2, <2>1, <2>2 DEF StreamsOf, EndStream, Shape, TypeOK
        <3>2. Cardinality(StreamsOf(s)') = Cardinality(StreamsOf(s)) - 1
              /\ Cardinality(StreamsOf(s)') \in Nat
            BY <1>0, <3>1, FS_RemoveElement, FS_CardinalityType
        <3>3. activeStreams'[s] = IF activeStreams[s] > 0 THEN activeStreams[s] - 1
                                                          ELSE activeStreams[s]
            BY <1>2, <2>1, <2>2 DEF EndStream, Shape, TypeOK
        <3> QED
            BY <1>0, <3>2, <3>3
    <2>3. CASE s # sess[c]
        <3>1. StreamsOf(s)' = StreamsOf(s)
            BY <1>2, <2>1, <2>3 DEF StreamsOf, EndStream, Shape, TypeOK
        <3>2. activeStreams'[s] = activeStreams[s]
            BY <1>2, <2>1, <2>3 DEF EndStream, Shape, TypeOK
        <3> QED
            BY <1>0, <3>1, <3>2
    <2> QED
        BY <2>2, <2>3
<1>3. ASSUME UNCHANGED <<stream, activeStreams>>
      PROVE  /\ activeStreams'[s] = Cardinality(StreamsOf(s)')
             /\ MaxStreams > 0 => activeStreams'[s] <= MaxStreams
    BY <1>0, <1>3, StreamsOfStable
<1> QED
    BY ZenonT(60), <1>1, <1>2, <1>3
       DEF Next, Handshake, Teardown, vars,
           AcceptConnection, PreAuthPass, PreAuthFail, JoinSession,
           CreateSession, RejectSession, KeyFailure, AddChannel, CloseReplaced,
           AttachTransport, WriteAcceptOK, WriteAcceptFail, RejectStreamDone,
           AcceptStreamError, RemoveChannel, DeregisterSession, RejectStream,
           PeerLost

\* tryAcquireStream and releaseStream balance on every path, and no session
\* counts more streams than -max-streams.
THEOREM StreamAccountingHolds == Spec => []StreamAccounting
<1>1. Init => StreamAccounting
    <2> SUFFICES ASSUME Init, NEW s \in Conn
                 PROVE  /\ activeStreams[s] = Cardinality(StreamsOf(s))
                        /\ MaxStreams > 0 => activeStreams[s] <= MaxStreams
        BY DEF StreamAccounting
    <2>1. StreamsOf(s) = {} /\ activeStreams[s] = 0
        BY DEF Init, StreamsOf
    <2> QED
        BY <2>1, FS_EmptySet, ServerAssumption
<1> QED
    BY <1>1, ShapeInit, ShapeNext, StreamAccountingNext, PTL DEF Spec
-----------------------------------------------------------------------------
\* The step that empties a session is the one that sets out to deregister it, and
\* the session is held by the handshake that makes it.
LEMMA EmptySessionNext == Shape /\ EmptySessionAccounted /\ [Next]_vars => EmptySessionAccounted'
<1> SUFFICES ASSUME Shape, EmptySessionAccounted, [Next]_vars
             PROVE  EmptySessionAccounted'
    OBVIOUS
<1>t. /\ registry \in [Client -> Conn \cup {None}]
      /\ channels \in [Conn -> SUBSET Conn]
      /\ pc \in [Conn -> Phase]
      /\ client \in [Conn -> Client]
      /\ sess \in [Conn -> Conn \cup {None}]
      /\ None \notin Conn
    BY ServerAssumption DEF Shape, TypeOK
<1>h. \A c \in Conn : pc[c] \in {"keying", "removing", "deregistering"} => sess[c] \in Conn
    BY DEF Shape, SessionHeld, Published
<1> USE <1>t DEF EmptySessionAccounted, Registered, Goto
<1>1. ASSUME NEW c \in Conn, AcceptConnection(c)
      PROVE  EmptySessionAccounted'
    BY <1>1 DEF AcceptConnection
<1>2. ASSUME NEW c \in Conn, PreAuthPass(c)
      PROVE  EmptySessionAccounted'
    BY <1>2 DEF PreAuthPass
<1>3. ASSUME NEW c \in Conn, PreAuthFail(c)
      PROVE  EmptySessionAccounted'
    BY <1>3 DEF PreAuthFail
<1>4. ASSUME NEW c \in Conn, JoinSession(c)
      PROVE  EmptySessionAccounted'
    BY <1>4 DEF JoinSession
<1>5. ASSUME NEW c \in Conn, CreateSession(c)
      PROVE  EmptySessionAccounted'
    BY <1>5 DEF CreateSession
<1>6. ASSUME NEW c \in Conn, RejectSession(c)
      PROVE  EmptySessionAccounted'
    BY <1>6 DEF RejectSession
<1>7. ASSUME NEW c \in Conn, KeyFailure(c)
      PROVE  EmptySessionAccounted'
    BY <1>7 DEF KeyFailure
<1>8. ASSUME NEW c \in Conn, AddChannel(c)
      PROVE  EmptySessionAccounted'
    BY <1>8, <1>h DEF AddChannel
<1>9. ASSUME NEW c \in Conn, CloseReplaced(c)
      PROVE  EmptySessionAccounted'
    BY <1>9 DEF CloseReplaced
<1>10. ASSUME NEW c \in Conn, AttachTransport(c)
      PROVE  EmptySessionAccounted'
    BY <1>10 DEF AttachTransport
<1>11. ASSUME NEW c \in Conn, WriteAcceptOK(c)
      PROVE  EmptySessionAccounted'
    BY <1>11 DEF WriteAcceptOK
<1>12. ASSUME NEW c \in Conn, WriteAcceptFail(c)
      PROVE  EmptySessionAccounted'
    BY <1>12 DEF WriteAcceptFail
<1>13. ASSUME NEW c \in Conn, RejectStreamDone(c)
      PROVE  EmptySessionAccounted'
    BY <1>13 DEF RejectStreamDone
<1>14. ASSUME NEW c \in Conn, AcceptStreamError(c)
      PROVE  EmptySessionAccounted'
    BY <1>14 DEF AcceptStreamError
<1>15. ASSUME NEW c \in Conn, RemoveChannel(c)
      PROVE  EmptySessionAccounted'
    BY <1>15, <1>h DEF RemoveChannel
<1>16. ASSUME NEW c \in Conn, DeregisterSession(c)
      PROVE  EmptySessionAccounted'
    BY <1>16, <1>h DEF DeregisterSession, Shape, SessionOfClient
<1>17. ASSUME NEW c \in Conn, RejectStream(c)
      PROVE  EmptySessionAccounted'
    BY <1>17 DEF RejectStream
<1>18. ASSUME NEW c \in Conn, PeerLost(c)
      PROVE  EmptySessionAccounted'
    BY <1>18 DEF PeerLost
<1>19. ASSUME NEW c \in Conn, NEW x \in Stream, OpenStream(c, x)
      PROVE  EmptySessionAccounted'
    BY <1>19 DEF OpenStream
<1>20. ASSUME NEW x \in Stream, EndStream(x)
      PROVE  EmptySessionAccounted'
    BY <1>20 DEF EndStream
<1>21. CASE UNCHANGED vars
    BY <1>21 DEF vars
<1> QED
    BY <1>1, <1>2, <1>3, <1>4, <1>5, <1>6, <1>7, <1>8, <1>9, <1>10, <1>11, <1>12,
       <1>13, <1>14, <1>15, <1>16, <1>17, <1>18, <1>19, <1>20, <1>21
       DEF Next, Handshake, Teardown

\* No session is left in the registry by channels that came and went; the only
\* way to leave an empty one is a handshake that fails after the lookup.
THEOREM EmptySessionHolds == Spec => []EmptySessionAccounted
<1>1. Init => EmptySessionAccounted
    BY DEF Init, EmptySessionAccounted, Registered
<1> QED
    BY <1>1, ShapeInit, ShapeNext, EmptySessionNext, PTL DEF Spec
-----------------------------------------------------------------------------
\* A displaced WebSocket channel is in the replaced set of the handler that
\* displaced it until that handler has closed it, and closed is final.
LEMMA SupersededNext == Shape /\ Superseded /\ [Next]_vars => Superseded'
<1> SUFFICES ASSUME Shape, Superseded, [Next]_vars
             PROVE  Superseded'
    OBVIOUS
<1>t. /\ channels \in [Conn -> SUBSET Conn]
      /\ pc \in [Conn -> Phase]
      /\ sess \in [Conn -> Conn \cup {None}]
      /\ replaced \in [Conn -> SUBSET Conn]
      /\ conn \in [Conn -> {"open", "lost", "closed"}]
    BY DEF Shape, TypeOK
<1>h. \A c \in Conn :
          pc[c] \in {"keying", "superseding", "attaching", "accepting", "serving",
                    "rejecting", "removing"} => sess[c] \in Conn
    BY DEF Shape, SessionHeld, Published
<1>o. \A s \in Conn : \A c \in channels[s] : sess[c] = s
    BY DEF Shape, ChannelsOwned
<1> USE <1>t DEF Superseded, Goto, Close
<1>1. ASSUME NEW c \in Conn, AcceptConnection(c)
      PROVE  Superseded'
    BY <1>1 DEF AcceptConnection
<1>2. ASSUME NEW c \in Conn, PreAuthPass(c)
      PROVE  Superseded'
    BY <1>2 DEF PreAuthPass
<1>3. ASSUME NEW c \in Conn, PreAuthFail(c)
      PROVE  Superseded'
    BY <1>3 DEF PreAuthFail
<1>4. ASSUME NEW c \in Conn, JoinSession(c)
      PROVE  Superseded'
    BY <1>4 DEF JoinSession
<1>5. ASSUME NEW c \in Conn, CreateSession(c)
      PROVE  Superseded'
    BY <1>5 DEF CreateSession
<1>6. ASSUME NEW c \in Conn, RejectSession(c)
      PROVE  Superseded'
    BY <1>6 DEF RejectSession
<1>7. ASSUME NEW c \in Conn, KeyFailure(c)
      PROVE  Superseded'
    BY <1>7 DEF KeyFailure
<1>8. ASSUME NEW c \in Conn, AddChannel(c)
      PROVE  Superseded'
    BY <1>8, <1>h, <1>o DEF AddChannel
<1>9. ASSUME NEW c \in Conn, CloseReplaced(c)
      PROVE  Superseded'
    BY <1>9 DEF CloseReplaced
<1>10. ASSUME NEW c \in Conn, AttachTransport(c)
      PROVE  Superseded'
    BY <1>10 DEF AttachTransport
<1>11. ASSUME NEW c \in Conn, WriteAcceptOK(c)
      PROVE  Superseded'
    BY <1>11 DEF WriteAcceptOK
<1>12. ASSUME NEW c \in Conn, WriteAcceptFail(c)
      PROVE  Superseded'
    BY <1>12 DEF WriteAcceptFail
<1>13. ASSUME NEW c \in Conn, RejectStreamDone(c)
      PROVE  Superseded'
    BY <1>13 DEF RejectStreamDone
<1>14. ASSUME NEW c \in Conn, AcceptStreamError(c)
      PROVE  Superseded'
    BY <1>14 DEF AcceptStreamError
<1>15. ASSUME NEW c \in Conn, RemoveChannel(c)
      PROVE  Superseded'
    BY <1>15, <1>h DEF RemoveChannel
<1>16. ASSUME NEW c \in Conn, DeregisterSession(c)
      PROVE  Superseded'
    BY <1>16 DEF DeregisterSession
<1>17. ASSUME NEW c \in Conn, RejectStream(c)
      PROVE  Superseded'
    BY <1>17 DEF RejectStream
<1>18. ASSUME NEW c \in Conn, PeerLost(c)
      PROVE  Superseded'
    BY <1>18 DEF PeerLost
<1>19. ASSUME NEW c \in Conn, NEW x \in Stream, OpenStream(c, x)
      PROVE  Superseded'
    BY <1>19 DEF OpenStream
<1>20. ASSUME NEW x \in Stream, EndStream(x)
      PROVE  Superseded'
    BY <1>20 DEF EndStream
<1>21. CASE UNCHANGED vars
    BY <1>21 DEF vars
<1> QED
    BY <1>1, <1>2, <1>3, <1>4, <1>5, <1>6, <1>7, <1>8, <1>9, <1>10, <1>11, <1>12,
       <1>13, <1>14, <1>15, <1>16, <1>17, <1>18, <1>19, <1>20, <1>21
       DEF Next, Handshake, Teardown

\* Every WebSocket channel whose id was taken over ends.
THEOREM SupersededEndsHolds == Spec => []SupersededEnds
<1>1. Init => Superseded
    BY DEF Init, Superseded
<1>2. Superseded => SupersededEnds
    BY DEF Superseded, SupersededEnds
<1> QED
    BY <1>1, <1>2, ShapeInit, ShapeNext, SupersededNext, PTL DEF Spec
-----------------------------------------------------------------------------
\* A stale handler never unmaps the channel that replaced its own.
THEOREM RemovesOnlyOwnChannelHolds == Spec => RemovesOnlyOwnChannel
<1> DEFINE Step ==
        \A s \in Conn : \A d \in channels[s] :
            d \notin channels'[s] =>
                \/ pc[d] = "removing" /\ pc'[d] # "removing"
                \/ \E c \in channels'[s] : d \in replaced'[c]
<1>1. ASSUME Shape, Next
      PROVE  Step
    <2> USE <1>1, ServerAssumption DEF Shape, TypeOK
    <2>1. ASSUME NEW c \in Conn, AddChannel(c)
          PROVE  Step
        <3> SUFFICES ASSUME NEW s \in Conn, NEW d \in channels[s],
                            d \notin channels'[s]
                     PROVE  \E e \in channels'[s] : d \in replaced'[e]
            OBVIOUS
        <3>1. sess[c] \in Conn
            BY <2>1 DEF AddChannel, SessionHeld
        <3>2. s = sess[c] /\ c \in channels'[s] /\ d \in replaced'[c]
            BY <2>1, <3>1 DEF AddChannel
        <3> QED
            BY <3>2
    <2>2. ASSUME NEW c \in Conn, RemoveChannel(c)
          PROVE  Step
        <3> SUFFICES ASSUME NEW s \in Conn, NEW d \in channels[s],
                            d \notin channels'[s]
                     PROVE  pc[d] = "removing" /\ pc'[d] # "removing"
            OBVIOUS
        <3>1. d = c
            BY <2>2 DEF RemoveChannel
        <3> QED
            BY <2>2, <3>1 DEF RemoveChannel, Goto
    <2>3. ASSUME UNCHANGED channels
          PROVE  Step
        BY <2>3
    <2> QED
        BY <1>1, <2>1, <2>2, <2>3
           DEF Next, Handshake, Teardown, AcceptConnection, PreAuthPass,
               PreAuthFail, JoinSession, CreateSession, RejectSession,
               KeyFailure, CloseReplaced, AttachTransport, WriteAcceptOK,
               WriteAcceptFail, RejectStreamDone, AcceptStreamError,
               DeregisterSession, RejectStream, PeerLost, OpenStream, EndStream
<1>2. Shape /\ [Next]_vars => [Step]_vars
    BY <1>1
<1> QED
    BY <1>2, ShapeInit, ShapeNext, PTL DEF Spec, RemovesOnlyOwnChannel
=============================================================================
