----------------------------- MODULE LocalProxy -----------------------------
(***************************************************************************)
(* One connection accepted by a local listener of the client: SOCKS5       *)
(* CONNECT (local_socks5.go), HTTP CONNECT and a plain HTTP request        *)
(* (local_http.go), or a forwarded port (client.go), from the request to   *)
(* the end of the relay, through the tunnel or directly (route.go).        *)
(*                                                                         *)
(* The bytes that follow the client's request are numbered 1, 2, ...; the  *)
(* first BodyLen of them are the body of a plain HTTP request.  Bytes may  *)
(* be taken from the connection into a bufio.Reader before they are        *)
(* forwarded.  The bytes of the other direction have no numbers.           *)
(***************************************************************************)
EXTENDS Integers, Sequences, Functions

CONSTANTS MaxBytes,  \* bound: bytes the client sends after its request
          BodyLen    \* Content-Length of a plain HTTP request

ASSUME ProxyAssumption == BodyLen \in Nat /\ MaxBytes \in Nat /\ BodyLen <= MaxBytes

VARIABLES
    kind,       \* "socks5", "connect", "plain" or "tcp"
    phase,      \* where the handler is
    way,        \* "tunnel" or "direct", once it is decided
    sniff,      \* the SNI of the first TLS record is looked for (sniSniff, IP:443)
    reply,      \* what the client has been told
    conn,       \* the client's connection is open on our side
    gone,       \* the client has closed its side
    arrived,    \* number of bytes that have arrived from the client
    taken,      \* number of bytes read from the connection
    buf,        \* bytes in the bufio.Reader
    upstream,   \* "none", "open" or "closed": the stream or the direct connection
    remote,     \* its other end is there
    chunk,      \* bytes being written to upstream
    got,        \* bytes written to upstream
    body,       \* bytes of the body still to be read
    lost,       \* bytes taken from the connection and thrown away
    copyUp, copyDown   \* the two copying goroutines: "off", "read", "write", "done"

worldVars == <<gone, arrived, remote>>
bytesVars == <<taken, buf, chunk, got, body, lost>>
copyVars == <<copyUp, copyDown>>
proxyVars == <<kind, phase, way, sniff, reply, conn, upstream, worldVars, bytesVars, copyVars>>

ProxyInit ==
    /\ kind \in {"socks5", "connect", "plain", "tcp"}
    /\ sniff \in BOOLEAN /\ (sniff => kind = "socks5")
    /\ phase = IF kind = "tcp" THEN "dial" ELSE "request"
    /\ way = "tunnel" /\ reply = "none" /\ conn = TRUE /\ gone = FALSE
    /\ arrived = 0 /\ taken = 0 /\ buf = <<>> /\ chunk = <<>> /\ got = <<>>
    /\ body = BodyLen /\ lost = {}
    /\ upstream = "none" /\ remote = TRUE /\ copyUp = "off" /\ copyDown = "off"

HTTP == kind \in {"connect", "plain"}
Bytes(a, b) == [i \in 1 .. b - a |-> a + i]   \* a + 1 up to b

\* Read ahead into the bufio.Reader: everything that has arrived up to n.
Fill(n) == n \in taken .. arrived /\ taken' = n /\ buf' = buf \o Bytes(taken, n)

(***************************************************************************)
(* The request and the routing decision.                                   *)
(***************************************************************************)
\* A request that is malformed, not authorised, of the wrong address family or
\* for an invalid target ends here, with an error reply or none.
BadRequest ==
    /\ phase = "request"
    /\ reply' \in {"none", "error"}
    /\ conn' = FALSE
    /\ phase' = "done"
    /\ UNCHANGED <<kind, way, sniff, upstream, worldVars, bytesVars, copyVars>>

\* handleSOCKS5 reads exactly the request; handleHTTP through a bufio.Reader.
ReadRequest ==
    /\ phase = "request"
    /\ IF HTTP THEN \E n \in taken .. arrived : Fill(n) ELSE UNCHANGED <<taken, buf>>
    /\ phase' = "route"
    /\ UNCHANGED <<kind, way, sniff, reply, conn, upstream, worldVars, chunk, got, body, lost, copyVars>>

\* Mutant: what the reader holds after the request is thrown away.
RouteDropsBuffer ==
    /\ phase = "route"
    /\ way' \in {"tunnel", "direct"}
    /\ phase' = IF sniff /\ way' = "tunnel" THEN "reply" ELSE "dial"
    /\ lost' = lost \cup Range(buf)
    /\ buf' = <<>>
    /\ UNCHANGED <<kind, sniff, reply, conn, upstream, worldVars, taken, chunk, got, body, copyVars>>

\* decideForTarget.  handleHTTP empties the reader first (readBufferedHTTPBytes):
\* after CONNECT these bytes are written to upstream later, and after a plain
\* request never.
Route ==
    /\ phase = "route"
    /\ way' \in {"tunnel", "direct"}
    /\ phase' = IF sniff /\ way' = "tunnel" THEN "reply" ELSE "dial"
    /\ IF kind = "plain" THEN lost' = lost \cup Range(buf) /\ buf' = <<>>
       ELSE UNCHANGED <<lost, buf>>
    /\ UNCHANGED <<kind, sniff, reply, conn, upstream, worldVars, taken, chunk, got, body, copyVars>>

RouteReject ==
    /\ phase = "route"
    /\ reply' = "denied" /\ conn' = FALSE
    /\ phase' = "done"
    /\ UNCHANGED <<kind, way, sniff, upstream, worldVars, bytesVars, copyVars>>

(***************************************************************************)
(* openTCPStream or directDialTCP, and the reply.                          *)
(***************************************************************************)
DialOpens ==
    /\ phase = "dial"
    /\ upstream' = "open"
    /\ phase' = CASE kind = "plain" -> "body"
                  [] kind = "tcp" \/ reply = "ok" -> "relay"
                  [] OTHER -> "reply"
    /\ copyUp' = IF phase' = "relay" THEN "read" ELSE "off"
    /\ copyDown' = copyUp'
    /\ UNCHANGED <<kind, way, sniff, reply, conn, worldVars, bytesVars>>

\* A refusal by the server's policy has a reply of its own.  Where the client was
\* told "ok" before, or nothing can be said (a forwarded port), there is none.
DialRefused ==
    /\ phase = "dial"
    /\ IF kind = "tcp" \/ reply = "ok" THEN UNCHANGED reply
       ELSE reply' = "failed" \/ (way = "tunnel" /\ reply' = "denied")
    /\ conn' = FALSE
    /\ phase' = "done"
    /\ UNCHANGED <<kind, way, sniff, upstream, worldVars, bytesVars, copyVars>>

\* The success reply, after the dial, or before it when the SNI is wanted.
ReplyOK ==
    /\ phase = "reply"
    /\ reply' = "ok"
    /\ phase' = IF upstream = "none" THEN "sniff" ELSE IF HTTP THEN "flush" ELSE "relay"
    /\ copyUp' = IF phase' = "relay" THEN "read" ELSE "off"
    /\ copyDown' = copyUp'
    /\ UNCHANGED <<kind, way, sniff, conn, upstream, worldVars, bytesVars>>

\* The reply cannot be written: what is open is closed.
ReplyFails ==
    /\ phase = "reply" /\ gone
    /\ IF upstream = "open" THEN phase' = "close" /\ UNCHANGED conn
       ELSE phase' = "done" /\ conn' = FALSE
    /\ UNCHANGED <<kind, way, sniff, reply, upstream, worldVars, bytesVars, copyVars>>

\* sniffSNITarget waits up to a second for a record and peeks at it; the bytes
\* stay in the reader, which replaces the connection.
SniffSNI ==
    /\ phase = "sniff"
    /\ \E n \in taken .. arrived : Fill(n)
    /\ phase' = "dial"
    /\ UNCHANGED <<kind, way, sniff, reply, conn, upstream, worldVars, chunk, got, body, lost, copyVars>>

(***************************************************************************)
(* Before the relay: what HTTP has to forward first.                       *)
(***************************************************************************)
\* A write to upstream is complete when the other end has room for it, and fails
\* when it or upstream is gone.
Accepted(bytes) == upstream = "open" /\ remote /\ got' = got \o bytes
Broken == upstream = "closed" \/ ~remote

FailHTTP == phase' = "close" /\ UNCHANGED copyVars

StartRelay == phase' = "relay" /\ copyUp' = "read" /\ copyDown' = "read"

\* After CONNECT: the bytes that came with the request.
Flush ==
    /\ phase = "flush"
    /\ \/ buf = <<>> /\ StartRelay /\ UNCHANGED <<got, buf>>
       \/ buf # <<>> /\ Accepted(buf) /\ buf' = <<>> /\ StartRelay
       \/ buf # <<>> /\ Broken /\ FailHTTP /\ UNCHANGED <<got, buf>>
    /\ UNCHANGED <<kind, way, sniff, reply, conn, upstream, worldVars, taken, chunk, body, lost>>

\* A plain request: req.Write reads the body from the reader, `body' bytes of it,
\* and what the reader took beyond it is not read by the relay.
ReadBody ==
    /\ phase = "body" /\ body > 0 /\ arrived > taken
    /\ taken' \in taken + 1 .. arrived
    /\ LET bytes == Bytes(taken, taken')
           k == IF Len(bytes) < body THEN Len(bytes) ELSE body
       IN /\ chunk' = SubSeq(bytes, 1, k)
          /\ body' = body - k
          /\ lost' = lost \cup Range(SubSeq(bytes, k + 1, Len(bytes)))
    /\ phase' = "writeBody"
    /\ UNCHANGED <<kind, way, sniff, reply, conn, upstream, worldVars, buf, got, copyVars>>

WriteBody ==
    /\ phase = "writeBody"
    /\ \/ Accepted(chunk) /\ phase' = "body" /\ UNCHANGED copyVars
       \/ Broken /\ FailHTTP /\ UNCHANGED got
    /\ chunk' = <<>>
    /\ UNCHANGED <<kind, way, sniff, reply, conn, upstream, worldVars, taken, buf, body, lost>>

\* The body is complete, or its reader meets the end of the connection.
EndBody ==
    /\ phase = "body"
    /\ \/ body = 0 /\ StartRelay
       \/ body > 0 /\ gone /\ arrived = taken /\ FailHTTP
    /\ UNCHANGED <<kind, way, sniff, reply, conn, upstream, worldVars, bytesVars>>

(***************************************************************************)
(* proxyConnStream and proxyConnDuplex.                                    *)
(***************************************************************************)
\* io.Copy to upstream: first what a bufferedConn replays, then the connection.
CopyUpReads ==
    /\ copyUp = "read"
    /\ \/ buf # <<>> /\ chunk' = buf /\ buf' = <<>> /\ copyUp' = "write" /\ UNCHANGED taken
       \/ /\ buf = <<>> /\ conn /\ arrived > taken
          /\ taken' \in taken + 1 .. arrived
          /\ chunk' = Bytes(taken, taken') /\ copyUp' = "write" /\ UNCHANGED buf
       \/ /\ buf = <<>> /\ (~conn \/ (gone /\ arrived = taken))
          /\ copyUp' = "done" /\ UNCHANGED <<taken, buf, chunk>>
    /\ UNCHANGED <<kind, phase, way, sniff, reply, conn, upstream, worldVars, got, body, lost, copyDown>>

CopyUpWrites ==
    /\ copyUp = "write"
    /\ \/ Accepted(chunk) /\ copyUp' = "read"
       \/ Broken /\ copyUp' = "done" /\ UNCHANGED got
    /\ chunk' = <<>>
    /\ UNCHANGED <<kind, phase, way, sniff, reply, conn, upstream, worldVars, taken, buf, body, lost, copyDown>>

\* io.Copy to the client: it ends when upstream or its other end is gone, or at a
\* write once the connection is closed, at either end.
CopyDownReads ==
    /\ copyDown = "read" /\ ~Broken
    /\ copyDown' = "write"
    /\ UNCHANGED <<kind, phase, way, sniff, reply, conn, upstream, worldVars, bytesVars, copyUp>>

CopyDownWrites ==
    /\ copyDown = "write"
    /\ \/ conn /\ copyDown' = "read"
       \/ (~conn \/ gone) /\ copyDown' = "done"
    /\ UNCHANGED <<kind, phase, way, sniff, reply, conn, upstream, worldVars, bytesVars, copyUp>>

CopyDownEnds ==
    /\ copyDown = "read" /\ Broken
    /\ copyDown' = "done"
    /\ UNCHANGED <<kind, phase, way, sniff, reply, conn, upstream, worldVars, bytesVars, copyUp>>

\* Mutant: the handler waits for both directions before it closes anything.
RelayWaitsForBoth ==
    /\ phase = "relay" /\ copyUp = "done" /\ copyDown = "done"
    /\ phase' = "close"
    /\ UNCHANGED <<kind, way, sniff, reply, conn, upstream, worldVars, bytesVars, copyVars>>

\* The handler waits for the first direction to end.
Relay ==
    /\ phase = "relay" /\ "done" \in {copyUp, copyDown}
    /\ phase' = "close"
    /\ UNCHANGED <<kind, way, sniff, reply, conn, upstream, worldVars, bytesVars, copyVars>>

\* It closes the stream and then the connection, or, after a relay without a tunnel,
\* the connection first.  Close of a stream waits for a write that is going on.
ConnFirst == way = "direct" /\ copyUp # "off"

CloseUpstream ==
    /\ phase = "close" /\ upstream = "open"
    /\ ~(ConnFirst /\ conn)
    /\ ~(way = "tunnel" /\ copyUp = "write")
    /\ upstream' = "closed"
    /\ UNCHANGED <<kind, phase, way, sniff, reply, conn, worldVars, bytesVars, copyVars>>

CloseConn ==
    /\ phase = "close" /\ conn
    /\ ConnFirst \/ upstream = "closed"
    /\ conn' = FALSE
    /\ UNCHANGED <<kind, phase, way, sniff, reply, upstream, worldVars, bytesVars, copyVars>>

HandlerReturns ==
    /\ phase = "close" /\ ~conn /\ upstream = "closed" /\ {copyUp, copyDown} \subseteq {"off", "done"}
    /\ phase' = "done"
    /\ UNCHANGED <<kind, way, sniff, reply, conn, upstream, worldVars, bytesVars, copyVars>>

(***************************************************************************)
(* The world.                                                              *)
(***************************************************************************)
ByteArrives ==
    /\ arrived < MaxBytes /\ ~gone
    /\ arrived' = arrived + 1
    /\ UNCHANGED <<kind, phase, way, sniff, reply, conn, upstream, gone, remote, bytesVars, copyVars>>

ClientGone ==
    /\ ~gone
    /\ gone' = TRUE
    /\ UNCHANGED <<kind, phase, way, sniff, reply, conn, upstream, arrived, remote, bytesVars, copyVars>>

RemoteGone ==
    /\ remote /\ upstream = "open"
    /\ remote' = FALSE
    /\ UNCHANGED <<kind, phase, way, sniff, reply, conn, upstream, gone, arrived, bytesVars, copyVars>>

HandlerStep ==
    \/ BadRequest \/ ReadRequest \/ Route \/ RouteReject \/ DialOpens \/ DialRefused
    \/ ReplyOK \/ ReplyFails \/ SniffSNI \/ Flush \/ ReadBody \/ WriteBody \/ EndBody
    \/ Relay \/ CloseUpstream \/ CloseConn \/ HandlerReturns

CopyStep == CopyUpReads \/ CopyUpWrites
CopyDownStep == CopyDownReads \/ CopyDownWrites \/ CopyDownEnds

ProxyNext ==
    \/ HandlerStep \/ CopyStep \/ CopyDownStep
    \/ ByteArrives \/ ClientGone \/ RemoteGone

ProxySpec == ProxyInit /\ [][ProxyNext]_proxyVars

(***************************************************************************)
(* The calls without a deadline: a write that waits for room which the     *)
(* other end does not make, upstream or the client, and, in the tunnel,    *)
(* the open header and Close of the stream, which waits for a write and    *)
(* sends what is buffered.                                                 *)
(***************************************************************************)
HandlerWaits ==
    \/ way = "tunnel" /\ (phase = "dial" \/ (phase = "close" /\ upstream = "open"))
    \/ (phase = "writeBody" \/ (phase = "flush" /\ buf # <<>>)) /\ ~Broken
CopyUpWaits == copyUp = "write" /\ ~Broken
CopyDownWaits == copyDown = "write" /\ conn

ProxyTypeOK ==
    /\ kind \in {"socks5", "connect", "plain", "tcp"} /\ way \in {"tunnel", "direct"}
    /\ phase \in {"request", "route", "dial", "reply", "sniff", "flush", "body", "writeBody",
                  "relay", "close", "done"}
    /\ reply \in {"none", "ok", "error", "denied", "failed"}
    /\ {sniff, conn, gone, remote} \subseteq BOOLEAN
    /\ upstream \in {"none", "open", "closed"}
    /\ arrived \in 0 .. MaxBytes /\ taken \in 0 .. arrived /\ body \in 0 .. BodyLen
    /\ UNION {Range(buf), Range(chunk), Range(got), lost} \subseteq 1 .. taken
    /\ {copyUp, copyDown} \subseteq {"off", "read", "write", "done"}

\* The first bytes of the client, as many as there are.
FromStart(bytes) == Len(bytes) <= arrived /\ bytes = Bytes(0, Len(bytes))

(***************************************************************************)
(* What reaches upstream is what the client sent, in order and without a   *)
(* gap: no byte that a reader took ahead (with the CONNECT request, or     *)
(* while looking for an SNI) is lost or overtaken by the relay.  Only a    *)
(* plain HTTP request may lose some (see PlainBodyForwarded).              *)
(***************************************************************************)
BytesInOrder == kind # "plain" => FromStart(got) /\ lost = {}

(***************************************************************************)
(* The comment of handleDirectHTTP says that a plain request is written to *)
(* upstream in full, its body being the client's own stream.  The bytes of *)
(* the body that arrived together with the head are not: the reader has    *)
(* been emptied before req.Write reads the body from it.                   *)
(***************************************************************************)
PlainBodyForwarded == kind = "plain" => FromStart(got)

(***************************************************************************)
(* When the client is gone, or the other end during the relay, the handler *)
(* ends with both sides closed.  Nothing but a call without a deadline     *)
(* that waits for ever prevents it, of the handler, towards upstream, or,  *)
(* where upstream is gone and the client neither reads nor leaves, towards *)
(* the client (client.go:684-709, route.go:303-323).                       *)
(***************************************************************************)
HandlerEnds ==
    \/ (gone \/ (phase = "relay" /\ ~remote)) ~>
           (/\ phase = "done" /\ ~conn /\ upstream # "open"
            /\ {copyUp, copyDown} \subseteq {"off", "done"})
    \/ <>[]HandlerWaits
    \/ <>[]CopyUpWaits
    \/ <>[]CopyDownWaits
=============================================================================
