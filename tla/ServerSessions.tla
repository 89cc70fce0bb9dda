--------------------------- MODULE ServerSessions ---------------------------
(***************************************************************************)
(* The server's registry of client sessions and the channels and streams   *)
(* that live in them (internal/app/server.go).                             *)
(*                                                                         *)
(* One goroutine handles each transport connection.  It authenticates the  *)
(* peer, finds or creates the ClientSession of the peer's SessionID, adds a*)
(* WSChannel to it, answers ChannelAccept and then accepts streams until   *)
(* the transport fails, when it takes the channel out again.  A step of    *)
(* this module is one critical section, or the code between two of them:   *)
(* serverSessionsMu guards the registry, session.mu the channel map and the*)
(* stream counter, and nothing guards the gaps in between.                 *)
(*                                                                         *)
(* A ClientSession object is named by the connection whose handshake made  *)
(* it, so an object that has left the registry keeps its identity.         *)
(***************************************************************************)
EXTENDS Integers, FiniteSets

CONSTANTS Conn,        \* transport connections, one handler goroutine each
          Quic,        \* those of Conn that are QUIC; the others are WebSocket
          Client,      \* SessionIDs a peer may present
          PreferredID, \* ChannelIDs a peer may present; 0 asks for a fresh one
          Stream,      \* identities for concurrently running streams
          MaxClients,  \* maxClientSessions (-max-clients); 0 is unlimited
          MaxStreams,  \* maxStreamsPerClient (-max-streams); 0 is unlimited
          None         \* the nil pointer

ASSUME ServerAssumption ==
    /\ IsFiniteSet(Conn) /\ Quic \subseteq Conn
    /\ IsFiniteSet(Client) /\ IsFiniteSet(Stream)
    /\ PreferredID \subseteq Nat
    /\ MaxClients \in Nat /\ MaxStreams \in Nat
    /\ None \notin Conn

VARIABLES
    registry,      \* serverSessions: the ClientSession of each SessionID
    channels,      \* ClientSession.channels: the channels mapped by the session
    nextChanID,    \* ClientSession.nextChanID
    activeStreams, \* ClientSession.activeStreams
    pc,            \* where the connection's handler is
    client,        \* the SessionID of the connection's ChannelInit
    chanID,        \* the ChannelID asked for, then WSChannel.id
    sess,          \* the ClientSession the handler holds
    replaced,      \* addChannel's local: the channels it displaced (at most one)
    attached,      \* WSChannel.transport has been assigned
    conn,          \* the transport: "open", "lost" (peer gone) or "closed"
    stream         \* the connection whose handleSmuxStream serves the stream

vars == <<registry, channels, nextChanID, activeStreams, pc, client, chanID,
          sess, replaced, attached, conn, stream>>

Phase == {"idle", "preauth", "authed", "keying", "superseding", "attaching",
          "accepting", "serving", "rejecting", "removing", "deregistering",
          "rejected", "failed", "gone"}

\* Handlers that have published a channel with addChannel.
Published == {"superseding", "attaching", "accepting", "serving", "rejecting",
              "removing", "deregistering", "gone"}

Final == {"rejected", "failed", "gone"}

Goto(c, p) == pc' = [pc EXCEPT ![c] = p]

Close(S) == conn' = [d \in Conn |-> IF d \in S THEN "closed" ELSE conn[d]]

Registered == {cl \in Client : registry[cl] # None}

StreamsOf(s) == {x \in Stream : stream[x] # None /\ sess[stream[x]] = s}

Init ==
    /\ registry = [cl \in Client |-> None]
    /\ channels = [s \in Conn |-> {}]
    /\ nextChanID = [s \in Conn |-> 0]
    /\ activeStreams = [s \in Conn |-> 0]
    /\ pc = [c \in Conn |-> "idle"]
    /\ client \in [Conn -> Client]
    /\ chanID \in [Conn -> PreferredID]
    /\ sess = [c \in Conn |-> None]
    /\ replaced = [c \in Conn |-> {}]
    /\ attached = [c \in Conn |-> FALSE]
    /\ conn = [c \in Conn |-> "open"]
    /\ stream = [x \in Stream |-> None]

(***************************************************************************)
(* The handshake, up to the session lookup.  What the checks before the    *)
(* lookup decide is the subject of module Handshake; here a peer passes    *)
(* them or not.  A timeout of PreAuthTimeout is one way not to.            *)
(***************************************************************************)
AcceptConnection(c) ==
    /\ pc[c] = "idle"
    /\ Goto(c, "preauth")
    /\ UNCHANGED <<registry, channels, nextChanID, activeStreams, client, chanID,
                   sess, replaced, attached, conn, stream>>

PreAuthPass(c) ==
    /\ pc[c] = "preauth"
    /\ Goto(c, "authed")
    /\ UNCHANGED <<registry, channels, nextChanID, activeStreams, client, chanID,
                   sess, replaced, attached, conn, stream>>

PreAuthFail(c) ==
    /\ pc[c] = "preauth"
    /\ Goto(c, "rejected")
    /\ Close({c})
    /\ UNCHANGED <<registry, channels, nextChanID, activeStreams, client, chanID,
                   sess, replaced, attached, stream>>

(***************************************************************************)
(* getOrCreateClientSession: one critical section of serverSessionsMu.     *)
(***************************************************************************)
\* Mutant: the limit is off by one.
AtClientLimitOffByOne == MaxClients > 0 /\ Cardinality(Registered) > MaxClients

AtClientLimit == MaxClients > 0 /\ Cardinality(Registered) >= MaxClients

JoinSession(c) ==
    /\ pc[c] = "authed"
    /\ registry[client[c]] # None
    /\ sess' = [sess EXCEPT ![c] = registry[client[c]]]
    /\ Goto(c, "keying")
    /\ UNCHANGED <<registry, channels, nextChanID, activeStreams, client, chanID,
                   replaced, attached, conn, stream>>

CreateSession(c) ==
    /\ pc[c] = "authed"
    /\ registry[client[c]] = None
    /\ ~AtClientLimit
    /\ registry' = [registry EXCEPT ![client[c]] = c]
    /\ sess' = [sess EXCEPT ![c] = c]
    /\ Goto(c, "keying")
    /\ UNCHANGED <<channels, nextChanID, activeStreams, client, chanID, replaced,
                   attached, conn, stream>>

RejectSession(c) ==
    /\ pc[c] = "authed"
    /\ registry[client[c]] = None
    /\ AtClientLimit
    /\ Goto(c, "rejected")
    /\ Close({c})
    /\ UNCHANGED <<registry, channels, nextChanID, activeStreams, client, chanID,
                   sess, replaced, attached, stream>>

\* Ephemeral key, shared secret, nonce, transcript, proof or key derivation
\* fails: the handler closes the connection and returns, and leaves the session
\* that getOrCreateClientSession may have made for it where it is.
KeyFailure(c) ==
    /\ pc[c] = "keying"
    /\ Goto(c, "failed")
    /\ Close({c})
    /\ UNCHANGED <<registry, channels, nextChanID, activeStreams, client, chanID,
                   sess, replaced, attached, stream>>

(***************************************************************************)
(* addChannel.  The id is the preferred one, or the session's next; under  *)
(* session.mu the new channel takes the place of the one mapped at that id.*)
(* The displaced channel is closed after the unlock, through the fields it *)
(* has by then: conn for WebSocket, and transport, which its own handler   *)
(* assigns only after its addChannel returned.                             *)
(***************************************************************************)
NewChanID(c) ==
    IF chanID[c] = 0 THEN nextChanID[sess[c]] + 1 ELSE chanID[c]

AddChannel(c) ==
    LET s   == sess[c]
        id  == NewChanID(c)
        old == {d \in channels[s] : chanID[d] = id}
    IN  /\ pc[c] = "keying"
        /\ nextChanID' = [nextChanID EXCEPT
                             ![s] = IF chanID[c] = 0 THEN @ + 1 ELSE @]
        /\ chanID' = [chanID EXCEPT ![c] = id]
        /\ channels' = [channels EXCEPT ![s] = (@ \ old) \cup {c}]
        /\ replaced' = [replaced EXCEPT ![c] = old]
        /\ Goto(c, "superseding")
        /\ UNCHANGED <<registry, activeStreams, client, sess, attached, conn,
                       stream>>

\* Mutant: only the transport field of the displaced channel is closed.
CloseReplacedTransportOnly(c) ==
    /\ pc[c] = "superseding"
    /\ Close({d \in replaced[c] : attached[d]})
    /\ Goto(c, "attaching")
    /\ UNCHANGED <<registry, channels, nextChanID, activeStreams, client, chanID,
                   sess, replaced, attached, stream>>

CloseReplaced(c) ==
    /\ pc[c] = "superseding"
    /\ Close({d \in replaced[c] : d \notin Quic \/ attached[d]})
    /\ Goto(c, "attaching")
    /\ UNCHANGED <<registry, channels, nextChanID, activeStreams, client, chanID,
                   sess, replaced, attached, stream>>

AttachTransport(c) ==
    /\ pc[c] = "attaching"
    /\ attached' = [attached EXCEPT ![c] = TRUE]
    /\ Goto(c, "accepting")
    /\ UNCHANGED <<registry, channels, nextChanID, activeStreams, client, chanID,
                   sess, replaced, conn, stream>>

\* A write to a peer that has gone may still succeed; one to a transport closed
\* at this end does not.
WriteAcceptOK(c) ==
    /\ pc[c] = "accepting"
    /\ conn[c] # "closed"
    /\ Goto(c, "serving")
    /\ UNCHANGED <<registry, channels, nextChanID, activeStreams, client, chanID,
                   sess, replaced, attached, conn, stream>>

\* Mutant: the failed handshake leaves its channel in the session.
WriteAcceptFailKeepsChannel(c) ==
    /\ pc[c] = "accepting"
    /\ Goto(c, "gone")
    /\ Close({c})
    /\ UNCHANGED <<registry, channels, nextChanID, activeStreams, client, chanID,
                   sess, replaced, attached, stream>>

WriteAcceptFail(c) ==
    /\ pc[c] = "accepting"
    /\ Goto(c, "removing")
    /\ UNCHANGED <<registry, channels, nextChanID, activeStreams, client, chanID,
                   sess, replaced, attached, conn, stream>>

(***************************************************************************)
(* handleAuthenticatedTransportSession: the accept loop.  A stream over the*)
(* session's limit is answered by this goroutine itself, which accepts     *)
(* nothing else meanwhile.                                                 *)
(***************************************************************************)
AtStreamLimit(s) == MaxStreams > 0 /\ activeStreams[s] >= MaxStreams

OpenStream(c, x) ==
    /\ pc[c] = "serving" /\ conn[c] = "open"
    /\ stream[x] = None
    /\ ~AtStreamLimit(sess[c])
    /\ activeStreams' = [activeStreams EXCEPT ![sess[c]] = @ + 1]
    /\ stream' = [stream EXCEPT ![x] = c]
    /\ UNCHANGED <<registry, channels, nextChanID, pc, client, chanID, sess,
                   replaced, attached, conn>>

RejectStream(c) ==
    /\ pc[c] = "serving" /\ conn[c] = "open"
    /\ AtStreamLimit(sess[c])
    /\ Goto(c, "rejecting")
    /\ UNCHANGED <<registry, channels, nextChanID, activeStreams, client, chanID,
                   sess, replaced, attached, conn, stream>>

\* Mutant: the rejected stream releases a slot it never acquired.
RejectStreamDoneReleases(c) ==
    /\ pc[c] = "rejecting"
    /\ Goto(c, "serving")
    /\ activeStreams' = [activeStreams EXCEPT ![sess[c]] = @ - 1]
    /\ UNCHANGED <<registry, channels, nextChanID, client, chanID, sess, replaced,
                   attached, conn, stream>>

RejectStreamDone(c) ==
    /\ pc[c] = "rejecting"
    /\ Goto(c, "serving")
    /\ UNCHANGED <<registry, channels, nextChanID, activeStreams, client, chanID,
                   sess, replaced, attached, conn, stream>>

\* Mutant: the slot is released only while the stream's channel is still mapped.
EndStreamIfMapped(x) ==
    /\ stream[x] # None
    /\ activeStreams' = [activeStreams EXCEPT
                            ![sess[stream[x]]] =
                               IF stream[x] \in channels[sess[stream[x]]] THEN @ - 1
                                                                         ELSE @]
    /\ stream' = [stream EXCEPT ![x] = None]
    /\ UNCHANGED <<registry, channels, nextChanID, pc, client, chanID, sess,
                   replaced, attached, conn>>

\* handleSmuxStream returns; its deferred releaseStream runs whatever the path.
EndStream(x) ==
    /\ stream[x] # None
    /\ activeStreams' = [activeStreams EXCEPT
                            ![sess[stream[x]]] = IF @ > 0 THEN @ - 1 ELSE @]
    /\ stream' = [stream EXCEPT ![x] = None]
    /\ UNCHANGED <<registry, channels, nextChanID, pc, client, chanID, sess,
                   replaced, attached, conn>>

\* AcceptStream fails once the transport is dead.  Closing it again, as the code
\* does for WebSocket, changes nothing but that writes to it now fail.
AcceptStreamError(c) ==
    /\ pc[c] = "serving"
    /\ conn[c] # "open"
    /\ Close({c})
    /\ Goto(c, "removing")
    /\ UNCHANGED <<registry, channels, nextChanID, activeStreams, client, chanID,
                   sess, replaced, attached, stream>>

(***************************************************************************)
(* removeChannel: session.mu guards the removal and the emptiness test,    *)
(* serverSessionsMu the deletion that follows from it.                     *)
(***************************************************************************)
\* Mutant: whatever channel is mapped at the id is removed.
RemoveChannelByID(c) ==
    LET left == {d \in channels[sess[c]] : chanID[d] # chanID[c]}
    IN  /\ pc[c] = "removing"
        /\ channels' = [channels EXCEPT ![sess[c]] = left]
        /\ Goto(c, IF left = {} THEN "deregistering" ELSE "gone")
        /\ IF left = {} THEN UNCHANGED conn ELSE Close({c})
        /\ UNCHANGED <<registry, nextChanID, activeStreams, client, chanID, sess,
                       replaced, attached, stream>>

\* Mutant: the map is found empty or not before the channel is taken out.
RemoveChannelTestsFirst(c) ==
    LET left == channels[sess[c]] \ {c}
    IN  /\ pc[c] = "removing"
        /\ channels' = [channels EXCEPT ![sess[c]] = left]
        /\ Goto(c, IF channels[sess[c]] = {} THEN "deregistering" ELSE "gone")
        /\ Close({c})
        /\ UNCHANGED <<registry, nextChanID, activeStreams, client, chanID, sess,
                       replaced, attached, stream>>

RemoveChannel(c) ==
    LET left == channels[sess[c]] \ {c}
    IN  /\ pc[c] = "removing"
        /\ channels' = [channels EXCEPT ![sess[c]] = left]
        /\ Goto(c, IF left = {} THEN "deregistering" ELSE "gone")
        /\ IF left = {} THEN UNCHANGED conn ELSE Close({c})
        /\ UNCHANGED <<registry, nextChanID, activeStreams, client, chanID, sess,
                       replaced, attached, stream>>

DeregisterSession(c) ==
    /\ pc[c] = "deregistering"
    /\ registry' = [registry EXCEPT
                       ![client[c]] = IF @ = sess[c] THEN None ELSE @]
    /\ Goto(c, "gone")
    /\ Close({c})
    /\ UNCHANGED <<channels, nextChanID, activeStreams, client, chanID, sess,
                   replaced, attached, stream>>

\* The peer disconnects or the network loses the connection.
PeerLost(c) ==
    /\ pc[c] \notin {"idle"} \cup Final
    /\ conn[c] = "open"
    /\ conn' = [conn EXCEPT ![c] = "lost"]
    /\ UNCHANGED <<registry, channels, nextChanID, activeStreams, pc, client,
                   chanID, sess, replaced, attached, stream>>

Handshake(c) ==
    \/ PreAuthPass(c) \/ PreAuthFail(c)
    \/ JoinSession(c) \/ CreateSession(c) \/ RejectSession(c)
    \/ KeyFailure(c) \/ AddChannel(c) \/ CloseReplaced(c) \/ AttachTransport(c)
    \/ WriteAcceptOK(c) \/ WriteAcceptFail(c)

Teardown(c) ==
    \/ RejectStreamDone(c) \/ AcceptStreamError(c)
    \/ RemoveChannel(c) \/ DeregisterSession(c)

Next ==
    \/ \E c \in Conn :
          \/ AcceptConnection(c) \/ Handshake(c) \/ Teardown(c)
          \/ RejectStream(c) \/ PeerLost(c)
          \/ \E x \in Stream : OpenStream(c, x)
    \/ \E x \in Stream : EndStream(x)

Spec == Init /\ [][Next]_vars

(***************************************************************************)
(* Fairness: the Go scheduler runs every goroutine that can take a step,   *)
(* each blocking call of the handshake has a deadline, and what the handler*)
(* of a connection waits for after it fails once the transport is gone.    *)
(* Nothing makes a peer connect, disconnect or open a stream, and nothing  *)
(* makes a stream's handler return: it may be waiting for a target or a    *)
(* proxy, of which it hears nothing when the transport goes.               *)
(***************************************************************************)
Fairness ==
    \A c \in Conn : WF_vars(Handshake(c)) /\ WF_vars(conn[c] # "open" /\ Teardown(c))

FairSpec == Spec /\ Fairness
-----------------------------------------------------------------------------
\* The shape of the state.
TypeOK ==
    /\ registry \in [Client -> Conn \cup {None}]
    /\ channels \in [Conn -> SUBSET Conn]
    /\ nextChanID \in [Conn -> Nat]
    /\ activeStreams \in [Conn -> Nat]
    /\ pc \in [Conn -> Phase]
    /\ client \in [Conn -> Client]
    /\ chanID \in [Conn -> Nat]
    /\ sess \in [Conn -> Conn \cup {None}]
    /\ replaced \in [Conn -> SUBSET Conn]
    /\ attached \in [Conn -> BOOLEAN]
    /\ conn \in [Conn -> {"open", "lost", "closed"}]
    /\ stream \in [Stream -> Conn \cup {None}]

\* -max-clients: however many handshakes look up a session at once, the registry
\* never holds more sessions than the limit (server.go:125-143).
ClientLimit == MaxClients > 0 => Cardinality(Registered) <= MaxClients

\* tryAcquireStream and releaseStream keep the counter of a session equal to the
\* streams being served on its channels, over every exit path of a stream and
\* also after the channel or the session itself is gone, and within -max-streams.
StreamAccounting ==
    \A s \in Conn :
        /\ activeStreams[s] = Cardinality(StreamsOf(s))
        /\ MaxStreams > 0 => activeStreams[s] <= MaxStreams

\* A session that sits in the registry without any channel is there for one of
\* three reasons: a handshake holds it and has not added its channel yet, the
\* removal of its last channel is about to take it out, or a handshake failed
\* between getOrCreateClientSession and addChannel.  An empty session left by
\* channels that came and went is never left behind (server.go:184-200).
EmptySessionAccounted ==
    \A cl \in Registered :
        channels[registry[cl]] = {} =>
            \E c \in Conn : /\ sess[c] = registry[cl]
                            /\ pc[c] \in {"keying", "deregistering", "failed"}

\* A WebSocket channel that is being served although another channel has taken
\* its id is about to end: its transport is closed, or the handler that replaced
\* it has not reached the close in addChannel yet (server.go:172-180).
SupersededEnds ==
    \A c \in Conn \ Quic :
        /\ pc[c] \in {"attaching", "accepting", "serving", "rejecting"}
        /\ c \notin channels[sess[c]]
        => \/ conn[c] = "closed"
           \/ \E d \in Conn : pc[d] = "superseding" /\ c \in replaced[d]

\* removeChannel removes only the channel whose handler calls it: a stale
\* handler that outlives its replacement never unmaps the replacement.  Only
\* addChannel may displace another connection's channel.
RemovesOnlyOwnChannel ==
    [][\A s \in Conn : \A d \in channels[s] :
          d \notin channels'[s] =>
              \/ pc[d] = "removing" /\ pc'[d] # "removing"
              \/ \E c \in channels'[s] : d \in replaced'[c]]_vars

\* A connection that has been lost ends: its handler returns and its channel is no
\* longer mapped, wherever the loss meets the handshake, a replacement or a stream
\* that is being rejected, and whatever the handlers of its streams are waiting for
\* (server.go:1058-1082, 184-200).
LostConnectionDrains ==
    \A c \in Conn :
        conn[c] # "open" /\ pc[c] # "idle" ~>
            pc[c] \in Final /\ \A s \in Conn : c \notin channels[s]

\* docs/deployment.md:69 of -max-streams: "counts all active TCP/UDP/Ping streams
\* for the same session across that client's WebSocket channels".  So the streams
\* carried by the channels being served for one SessionID stay within the limit.
StreamLimitPerClient ==
    MaxStreams > 0 =>
        \A cl \in Client :
            Cardinality({x \in Stream : /\ stream[x] # None
                                       /\ client[stream[x]] = cl
                                       /\ pc[stream[x]] = "serving"
                                       /\ conn[stream[x]] = "open"}) <= MaxStreams
=============================================================================
