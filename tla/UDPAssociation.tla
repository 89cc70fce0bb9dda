--------------------------- MODULE UDPAssociation ---------------------------
(***************************************************************************)
(* One SOCKS5 UDP association of a client (internal/app/local_socks5.go):  *)
(* the goroutine that reads the client's datagrams and sends them, through *)
(* a stream or a socket of its own, the goroutines that read replies, the  *)
(* one that watches the control connection, and Close, which any of them   *)
(* may call.  a.mu guards the fields; streams and sockets are opened and   *)
(* closed outside of it.                                                   *)
(*                                                                         *)
(* Datagrams that loop drops (another source, a malformed packet, a        *)
(* blocked port, the wrong address family) change nothing and are left     *)
(* out.  The routing decision is free: the rules may be reloaded at any    *)
(* time.                                                                   *)
(***************************************************************************)
EXTENDS Integers, FiniteSets

CONSTANTS Target,   \* destinations, after the rewriting of DNS queries
          NoTarget,
          MaxOpen   \* bound: streams and sockets opened

ASSUME UDPAssumption == NoTarget \notin Target /\ MaxOpen \in Nat

Res == 1 .. MaxOpen   \* streams and sockets; 0 is nil

VARIABLES
    closed, receiving, target, stream, directConn,   \* the fields
    listener,   \* udpListener and tcpConn are open
    opened,     \* the number of streams and sockets opened so far
    tunnels,    \* those of them that are streams
    open,       \* those that are not closed
    reading,    \* those with a goroutine that reads replies
    closing,    \* what Close has taken out of the fields and not yet closed
    sender,     \* loop and send: where it is, the target of its datagram, its stream
    control,    \* handleSOCKS5UDP reads the control connection
    late        \* stored in a field after Close had emptied it

udpFields == <<closed, receiving, target, stream, directConn, closing>>
udpThings == <<opened, tunnels, open, late>>
udpVars == <<udpFields, udpThings, listener, reading, sender, control>>

Waiting == [at |-> "read", target |-> NoTarget, via |-> 0]

UDPInit ==
    /\ closed = FALSE /\ receiving = FALSE /\ target = NoTarget
    /\ stream = 0 /\ directConn = 0 /\ closing = {}
    /\ listener = TRUE /\ control = TRUE /\ sender = Waiting
    /\ opened = 0 /\ tunnels = {}
    /\ open = {} /\ reading = {} /\ late = {}

(***************************************************************************)
(* Close: the fields are emptied under the lock, by the first call only,   *)
(* and what they held is closed afterwards.                                *)
(***************************************************************************)
\* Mutant: the direct socket is forgotten.
CloseForgetsDirect ==
    IF closed THEN UNCHANGED udpFields
    ELSE /\ closed' = TRUE
         /\ closing' = {stream} \ {0}
         /\ stream' = 0 /\ directConn' = 0
         /\ UNCHANGED <<receiving, target>>

Close ==
    IF closed THEN UNCHANGED udpFields
    ELSE /\ closed' = TRUE
         /\ closing' = {stream, directConn} \ {0}
         /\ stream' = 0 /\ directConn' = 0
         /\ UNCHANGED <<receiving, target>>

\* The stream first: its Close waits for a write that is going on (writeMu) and sends
\* what is buffered, before the listener and the control connection are closed.
FinishClose ==
    /\ closed /\ listener
    /\ ~(sender.at = "writing" /\ sender.via \in closing)
    /\ open' = open \ closing
    /\ closing' = {} /\ listener' = FALSE
    /\ UNCHANGED <<closed, receiving, target, stream, directConn, opened, tunnels, late,
                   reading, sender, control>>

ControlEnds ==
    /\ control
    /\ control' = FALSE
    /\ Close
    /\ UNCHANGED <<udpThings, listener, reading, sender>>

(***************************************************************************)
(* The sender.                                                             *)
(***************************************************************************)
At(at) == [at |-> at, target |-> sender.target, via |-> sender.via]
Via(r) == [at |-> "write", target |-> sender.target, via |-> r]

ReadDatagram ==
    /\ sender.at = "read" /\ listener
    /\ \E t \in Target, way \in {"tunnel", "direct"} : sender' = [at |-> way, target |-> t, via |-> 0]
    /\ UNCHANGED <<udpFields, udpThings, listener, reading, control>>

LoopEnds ==
    /\ sender.at = "read" /\ ~listener
    /\ sender' = At("done")
    /\ UNCHANGED <<udpFields, udpThings, listener, reading, control>>

\* send, under the lock: the first datagram binds the association to its target.
Send ==
    /\ sender.at = "tunnel"
    /\ receiving' = (receiving \/ ~closed)
    /\ target' = IF ~closed /\ ~receiving THEN sender.target ELSE target
    /\ sender' = IF closed \/ (receiving /\ sender.target # target) THEN Waiting
                 ELSE IF receiving THEN Via(stream) ELSE At("opening")
    /\ UNCHANGED <<closed, stream, directConn, closing, udpThings, listener, reading, control>>

\* Something new is open, is stored in its field, and has a reader.
Store(r) ==
    /\ opened < MaxOpen
    /\ r = opened + 1
    /\ opened' = r
    /\ reading' = reading \cup {r}
    /\ late' = IF closed THEN late \cup {r} ELSE late

\* openUDPStream returns; whether the association was closed meanwhile is not asked.
StreamOpened ==
    /\ sender.at = "opening"
    /\ \E r \in Res :
           /\ Store(r)
           /\ stream' = r /\ tunnels' = tunnels \cup {r} /\ open' = open \cup {r}
           /\ sender' = Via(r)
    /\ UNCHANGED <<closed, receiving, target, directConn, closing, listener, control>>

StreamNotOpened ==
    /\ sender.at = "opening"
    /\ Close
    /\ sender' = Waiting
    /\ UNCHANGED <<udpThings, listener, reading, control>>

\* writeChunk on the stream that was read under the lock, or has just been opened.
\* On none, or a closed one, it fails at once; otherwise it takes its time.
BeginWrite ==
    /\ sender.at = "write"
    /\ \/ sender.via \in open /\ sender' = At("writing") /\ UNCHANGED udpFields
       \/ sender.via \notin open /\ sender' = Waiting /\ Close
    /\ UNCHANGED <<udpThings, listener, reading, control>>

WriteStream ==
    /\ sender.at = "writing"
    /\ UNCHANGED udpFields \/ Close
    /\ sender' = Waiting
    /\ UNCHANGED <<udpThings, listener, reading, control>>

\* sendDirect, under the lock: a socket is made if there is none or the tunnel is
\* bound to another target; otherwise the datagram leaves by the one that is there.
SendDirect ==
    /\ sender.at = "direct"
    /\ sender' = IF ~closed /\ (directConn = 0 \/ target \notin {NoTarget, sender.target})
                 THEN At("bind") ELSE Waiting
    /\ UNCHANGED <<udpFields, udpThings, listener, reading, control>>

SocketOpened ==
    /\ sender.at = "bind"
    /\ \E r \in Res :
           /\ Store(r)
           /\ directConn' = r /\ open' = (open \ {directConn}) \cup {r}
    /\ sender' = Waiting
    /\ UNCHANGED <<closed, receiving, target, stream, closing, tunnels, listener, control>>

SocketNotOpened ==
    /\ sender.at = "bind"
    /\ sender' = Waiting
    /\ UNCHANGED <<udpFields, udpThings, listener, reading, control>>

(***************************************************************************)
(* The readers.  One that forwards a reply changes nothing here.           *)
(***************************************************************************)
\* readUDPReply fails: the stream is closed, or its other end is gone.
StreamReadFails(r) ==
    /\ r \in reading \cap tunnels
    /\ reading' = reading \ {r}
    /\ Close
    /\ UNCHANGED <<udpThings, listener, sender, control>>

\* directReadLoop leaves when its socket is closed, or when a reply comes and the
\* association is closed; a timeout only makes it wait again.
SocketReadEnds(r) ==
    /\ r \in reading \ tunnels
    /\ r \notin open \/ closed
    /\ reading' = reading \ {r}
    /\ UNCHANGED <<udpFields, udpThings, listener, sender, control>>

SenderStep ==
    \/ ReadDatagram \/ LoopEnds
    \/ Send \/ StreamOpened \/ StreamNotOpened \/ BeginWrite \/ WriteStream
    \/ SendDirect \/ SocketOpened \/ SocketNotOpened

\* What happens without a peer: reads on what is closed fail.
ReaderNotices(r) == r \notin open /\ (StreamReadFails(r) \/ SocketReadEnds(r))
ControlNotices == ~listener /\ ControlEnds

UDPNext ==
    \/ SenderStep \/ FinishClose \/ ControlEnds
    \/ \E r \in Res : StreamReadFails(r) \/ SocketReadEnds(r)

UDPSpec == UDPInit /\ [][UDPNext]_udpVars

SenderState == [at : {"read", "tunnel", "opening", "write", "writing", "direct", "bind", "done"},
                target : Target \cup {NoTarget}, via : Res \cup {0}]

UDPTypeOK ==
    /\ {closed, receiving, listener, control} \subseteq BOOLEAN
    /\ target \in Target \cup {NoTarget}
    /\ {stream, directConn} \subseteq Res \cup {0}
    /\ opened \in 0 .. MaxOpen
    /\ UNION {tunnels, open, reading, closing, late} \subseteq 1 .. opened
    /\ sender \in SenderState

(***************************************************************************)
(* Nothing that an association opens is lost sight of: it is in a field,   *)
(* or about to be closed.  Once Close is through nothing is open but what  *)
(* the sender was opening at that very moment: send and sendDirect store   *)
(* it without asking again whether the association is closed, and then     *)
(* nobody closes it.  That is one stream or socket at most.                *)
(***************************************************************************)
OpenIsAccounted ==
    /\ open \subseteq {stream, directConn} \cup closing
    /\ closed /\ ~listener => open \subseteq late
    /\ Cardinality(late) <= 1

\* The calls without a deadline: the open header, a chunk, and what Close does with the
\* stream.  They last as long as the carrier takes no bytes.
SenderWaits == sender.at \in {"opening", "writing"}
CloseWaits == listener /\ closing \cap tunnels # {}

(***************************************************************************)
(* After Close every goroutine of the association ends, except the reader  *)
(* of something that was stored too late.  Only a carrier that takes no    *)
(* bytes for ever prevents it: openUDPStream, writeChunk and the stream's  *)
(* Close have no deadline, and Close reaches the listener and the control  *)
(* connection, which everyone else waits for, only after the stream        *)
(* (local_socks5.go:759-772).                                              *)
(***************************************************************************)
AssociationEnds ==
    \/ closed ~> (sender.at = "done" /\ ~control /\ open \subseteq late /\ reading \subseteq late)
    \/ <>[]SenderWaits
    \/ <>[]CloseWaits
=============================================================================
