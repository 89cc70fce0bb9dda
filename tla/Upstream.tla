------------------------------ MODULE Upstream ------------------------------
(***************************************************************************)
(* The exchange with a proxy that leads on to the target: dialViaSocks5    *)
(* and newSOCKS5UDPRelay on the server (internal/app/upstream_socks5.go),  *)
(* dialWebSocketFrontProxy on the client (front_proxy.go).  The proxy's    *)
(* answers and then the target's bytes come in one stream, of which byte   *)
(* number i is an answer's up to `answered' and the target's beyond it.    *)
(* The proxy may answer anything that has the form of an answer, break     *)
(* off, or never answer.                                                   *)
(***************************************************************************)
EXTENDS Integers, Sequences

CONSTANTS
    HeadLen,   \* bound: bytes of the answer to an HTTP CONNECT
    NameLen,   \* bound: length of a domain in a SOCKS5 answer
    MaxData    \* bound: bytes that the target sends

ASSUME UpstreamAssumption == HeadLen \in Nat \ {0} /\ NameLen \in Nat /\ MaxData \in Nat

VARIABLES
    mode,        \* "connect" and "associate" of SOCKS5, "front" for the HTTP CONNECT
    password,   \* the SOCKS5 configuration has a user name and a password
    stage,      \* "dial", "greet", "auth", "request", "address", "listen", "ready", "failed", "closed"
    answer,     \* to the request that was written: "none" yet, "yes" or "no"
    bound,      \* the address in a SOCKS5 answer: its type, and the length of a domain
    sent,       \* bytes that have come from the proxy
    answered,   \* how many of them are answers
    drawn,      \* bytes read from the connection
    buffered,   \* of these, bytes that the bufio.Reader still holds
    received,   \* the bytes that the user of the connection has read
    tcp, udp    \* connection and socket: "none", "open", "closed"

upstreamVars == <<mode, password, stage, answer, bound, sent, answered, drawn, buffered, received, tcp, udp>>

AddressType == {"v4", "v6", "domain", "other"}

UpstreamInit ==
    /\ mode \in {"connect", "associate", "front"}
    /\ password \in BOOLEAN /\ (mode = "front" => ~password)
    /\ stage = "dial" /\ answer = "none" /\ bound = [type |-> "other", len |-> 0]
    /\ sent = 0 /\ answered = 0 /\ drawn = 0 /\ buffered = 0 /\ received = <<>>
    /\ tcp = "none" /\ udp = "none"

\* Every error return after the dial closes the connection.
Abandon(n) == stage' = "failed" /\ tcp' = "closed" /\ drawn' = n

DialProxy ==
    /\ stage = "dial"
    /\ \/ tcp' = "open" /\ stage' = IF mode = "front" THEN "request" ELSE "greet"
       \/ stage' = "failed" /\ UNCHANGED tcp
    /\ UNCHANGED <<mode, password, answer, bound, sent, answered, drawn, buffered, received, udp>>

(***************************************************************************)
(* The proxy, and the target behind it.                                    *)
(***************************************************************************)
\* RFC 1928: the address of the type and two bytes of port.
AddressLen(b) ==
    CASE b.type = "v4" -> 4 + 2 [] b.type = "v6" -> 16 + 2
      [] b.type = "domain" -> 1 + b.len + 2 [] b.type = "other" -> 0

ProxyAnswers ==
    /\ stage \in {"greet", "auth", "request"} /\ answer = "none"
    /\ answer' \in {"yes", "no"}
    /\ IF stage = "request" /\ mode # "front"
       THEN \E type \in AddressType, len \in 0..NameLen :
                /\ bound' = [type |-> type, len |-> len]
                /\ sent' = sent + 4 + AddressLen(bound')
       ELSE sent' = sent + (IF mode = "front" THEN HeadLen ELSE 2) /\ UNCHANGED bound
    /\ answered' = sent'
    /\ UNCHANGED <<mode, password, stage, drawn, buffered, received, tcp, udp>>

\* The target is connected when the proxy says yes, and may speak first.
TargetSends ==
    /\ mode # "associate" /\ stage \in {"request", "address", "ready"} /\ answer = "yes"
    /\ sent < answered + MaxData
    /\ sent' = sent + 1
    /\ UNCHANGED <<mode, password, stage, answer, bound, answered, drawn, buffered, received, tcp, udp>>

\* The connection ends while an answer is awaited or read, or, for the front proxy
\* only, the deadline passes.
BreaksOff ==
    /\ stage \in {"greet", "auth", "request", "address"}
    /\ Abandon(drawn)
    /\ UNCHANGED <<mode, password, answer, bound, sent, answered, buffered, received, udp>>

(***************************************************************************)
(* SOCKS5: every answer is read with io.ReadFull, to its length and not    *)
(* beyond.                                                                 *)
(***************************************************************************)
\* "yes" is the one method that was offered.
ReadMethod ==
    /\ stage = "greet" /\ answer # "none"
    /\ \/ /\ answer = "yes" /\ stage' = IF password THEN "auth" ELSE "request"
          /\ drawn' = drawn + 2 /\ UNCHANGED tcp
       \/ answer = "no" /\ Abandon(drawn + 2)
    /\ answer' = "none"
    /\ UNCHANGED <<mode, password, bound, sent, answered, buffered, received, udp>>

ReadAuth ==
    /\ stage = "auth" /\ answer # "none"
    /\ \/ answer = "yes" /\ stage' = "request" /\ drawn' = drawn + 2 /\ UNCHANGED tcp
       \/ answer = "no" /\ Abandon(drawn + 2)
    /\ answer' = "none"
    /\ UNCHANGED <<mode, password, bound, sent, answered, buffered, received, udp>>

\* Version, reserved byte, status and type of the address.
ReadReply ==
    /\ mode # "front" /\ stage = "request" /\ answer # "none"
    /\ \/ /\ answer = "yes" /\ bound.type # "other" /\ stage' = "address"
          /\ drawn' = drawn + 4 /\ UNCHANGED tcp
       \/ (answer = "no" \/ bound.type = "other") /\ Abandon(drawn + 4)
    /\ UNCHANGED <<mode, password, answer, bound, sent, answered, buffered, received, udp>>

\* Mutant: of a domain only the name is read, not the port behind it.
BoundAddressNoPort(b) ==
    CASE b.type = "v4" -> 6 [] b.type = "v6" -> 18 [] b.type = "domain" -> 1 + b.len

BoundAddress(b) ==
    CASE b.type = "v4" -> 6 [] b.type = "v6" -> 18 [] b.type = "domain" -> 1 + b.len + 2

\* The relay's address must not be empty and have a port.
ReadBoundAddress ==
    /\ stage = "address"
    /\ \/ /\ ~(mode = "associate" /\ bound.type = "domain" /\ bound.len = 0)
          /\ stage' = IF mode = "connect" THEN "ready" ELSE "listen"
          /\ drawn' = drawn + BoundAddress(bound) /\ UNCHANGED tcp
       \/ /\ mode = "associate" /\ bound.type = "domain" /\ bound.len = 0
          /\ Abandon(drawn + 1)
       \/ mode = "associate" /\ Abandon(drawn + BoundAddress(bound))
    /\ UNCHANGED <<mode, password, answer, bound, sent, answered, buffered, received, udp>>

\* The addresses of relay and target are resolved and the socket opened.
OpenRelaySocket ==
    /\ stage = "listen"
    /\ \/ stage' = "ready" /\ udp' = "open" /\ UNCHANGED <<tcp, drawn>>
       \/ Abandon(drawn) /\ UNCHANGED udp
    /\ UNCHANGED <<mode, password, answer, bound, sent, answered, buffered, received>>

(***************************************************************************)
(* The front proxy: a bufio.Reader takes what the connection has to give.  *)
(***************************************************************************)
ReadConnectResponse ==
    /\ mode = "front" /\ stage = "request" /\ answer # "none"
    /\ \E n \in answered..sent :
           \/ /\ answer = "yes" /\ stage' = "ready"
              /\ drawn' = n /\ buffered' = n - answered /\ UNCHANGED tcp
           \/ answer = "no" /\ Abandon(n) /\ buffered' = 0
    /\ UNCHANGED <<mode, password, answer, bound, sent, answered, received, udp>>

(***************************************************************************)
(* The user.                                                               *)
(***************************************************************************)
\* What the reader holds comes first (bufferedConn.Read); then the connection.
ReadTarget ==
    /\ stage = "ready" /\ mode # "associate"
    /\ \/ /\ buffered > 0
          /\ received' = Append(received, drawn - buffered + 1)
          /\ buffered' = buffered - 1 /\ UNCHANGED drawn
       \/ /\ buffered = 0 /\ drawn < sent
          /\ received' = Append(received, drawn + 1)
          /\ drawn' = drawn + 1 /\ UNCHANGED buffered
    /\ UNCHANGED <<mode, password, stage, answer, bound, sent, answered, tcp, udp>>

\* The relay is closed by its handler and by the goroutine that feeds it; the second
\* Close finds it closed.
CloseProxied ==
    /\ stage = "ready"
    /\ stage' = "closed" /\ tcp' = "closed"
    /\ udp' = IF udp = "open" THEN "closed" ELSE udp
    /\ UNCHANGED <<mode, password, answer, bound, sent, answered, drawn, buffered, received>>

UpstreamNext ==
    \/ DialProxy \/ ProxyAnswers \/ TargetSends \/ BreaksOff
    \/ ReadMethod \/ ReadAuth \/ ReadReply \/ ReadBoundAddress \/ OpenRelaySocket
    \/ ReadConnectResponse \/ ReadTarget \/ CloseProxied

UpstreamSpec == UpstreamInit /\ [][UpstreamNext]_upstreamVars

UpstreamTypeOK ==
    /\ mode \in {"connect", "associate", "front"} /\ password \in BOOLEAN
    /\ stage \in {"dial", "greet", "auth", "request", "address", "listen", "ready", "failed", "closed"}
    /\ answer \in {"none", "yes", "no"} /\ bound \in [type : AddressType, len : 0..NameLen]
    /\ {sent, answered, drawn, buffered} \subseteq Nat /\ drawn <= sent /\ buffered <= drawn
    /\ received \in Seq(Nat) /\ {tcp, udp} \subseteq {"none", "open", "closed"}

(***************************************************************************)
(* Whoever is given the connection reads the target's bytes from the first *)
(* on: no part of an answer is left in front of them, whatever address the *)
(* proxy names, and none is lost to read-ahead.  Whoever is given an error *)
(* is left with nothing open, and after Close nothing is open either.      *)
(***************************************************************************)
UpstreamHandedOver ==
    /\ \A i \in 1..Len(received) : received[i] = answered + i
    /\ stage = "ready" => tcp = "open" /\ (mode = "associate" => udp = "open")
    /\ stage \in {"failed", "closed"} => "open" \notin {tcp, udp}
=============================================================================
