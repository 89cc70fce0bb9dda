----------------------------- MODULE StreamOpen -----------------------------
(***************************************************************************)
(* The life of one stream, both ends: openTCPStream, openUDPStream and     *)
(* probeChannelRTTOnce on the client (internal/app/client.go),             *)
(* handleSmuxStream and rejectSmuxStreamDueToLimit on the server           *)
(* (internal/app/server.go).  Either end may give up while the other is    *)
(* busy: the client waits for DialTimeout, the server dials a target that  *)
(* may take as long.                                                       *)
(***************************************************************************)
EXTENDS Integers, Sequences, SequencesExt

(***************************************************************************)
(* TargetPolicy.Allows.  A host is an address, or a name as the sequence   *)
(* of its labels; a list of networks is the set of addresses in them.      *)
(***************************************************************************)
CONSTANTS Address,      \* hosts that net.ParseIP takes for an address
          Name,         \* the others
          PatternName   \* what the patterns of the policy say after a "*."

ASSUME HostAssumption == Address \cap Name = {}

Pattern == [wild : BOOLEAN, name : PatternName]   \* x and *.x
Policy == [Allow : SUBSET Address, Deny : SUBSET Address,
           AllowHosts : SUBSET Pattern, DenyHosts : SUBSET Pattern]

hostPatternMatches(pattern, host) ==
    IF pattern.wild THEN IsStrictSuffix(pattern.name, host) ELSE host = pattern.name

InHosts(patterns, host) == \E q \in patterns : hostPatternMatches(q, host)

\* Mutant: a name is not held against a list of allowed networks.
AllowsAnyName(p, host) ==
    IF host \in Address
    THEN /\ host \notin p.Deny
         /\ IF p.Allow = {} THEN p.AllowHosts = {} ELSE host \in p.Allow
    ELSE /\ ~InHosts(p.DenyHosts, host)
         /\ p.AllowHosts = {} \/ InHosts(p.AllowHosts, host)

Allows(p, host) ==
    IF host \in Address
    THEN /\ host \notin p.Deny
         /\ IF p.Allow = {} THEN p.AllowHosts = {} ELSE host \in p.Allow
    ELSE /\ ~InHosts(p.DenyHosts, host)
         /\ IF p.AllowHosts = {} THEN p.Allow = {} ELSE InHosts(p.AllowHosts, host)

(***************************************************************************)
(* dialTCPWithStrategy and resolveUDPWithStrategy: the address families    *)
(* over which a name with these addresses is reached.  None: the dial      *)
(* fails.                                                                  *)
(***************************************************************************)
Family == {"v4", "v6"}
Strategy == {"default", "v4_only", "v6_only", "v4_first", "v6_first"}

Prefer(family, addrs) == IF family \in addrs THEN {family} ELSE addrs

Selected(s, addrs) ==
    CASE s = "default" -> addrs
      [] s = "v4_only" -> addrs \cap {"v4"}
      [] s = "v6_only" -> addrs \cap {"v6"}
      [] s = "v4_first" -> Prefer("v4", addrs)
      [] s = "v6_first" -> Prefer("v6", addrs)

VARIABLES
    sort,      \* "tcp", "udp" or "ping"
    coded,     \* the peers negotiated status codes
    strategy,  \* of the client, or "invalid"
    addrs,     \* the families of the target's addresses
    socks5,    \* the server reaches targets by way of a SOCKS5 proxy (socks5Config)
    verdict,   \* what the server's checks say: "none" yet, "ok", "bad" (strategy or target), "denied"
    permitted, \* the target is one the lists of the server's policy permit
    family,    \* over which the target was reached
    client,    \* the client: "opening", "waiting", "open", "refused", "gaveUp", "leaked", "closed"
    why,       \* the code the client has read
    near,      \* the client's end of the stream is open
    status,    \* the server's answer: "none", "ok", or the code of a failure
    server,    \* the handler on the server
    dest,      \* its connection or relay: "none", "open", "gone" (by the peer), "closed"
    counted,   \* it counts as a stream of the session
    chunks     \* the goroutine that reads a UDP client's packets: "off", "read", "done"

streamVars == <<sort, coded, strategy, addrs, socks5, verdict, permitted, family, client, why, near, status, server, dest, counted, chunks>>
choices == <<sort, coded, strategy, addrs, socks5>>
checks == <<verdict, permitted, family>>

Sort == {"tcp", "udp", "ping"}

StreamInit ==
    /\ sort \in Sort /\ coded \in BOOLEAN
    /\ strategy \in Strategy \cup {"invalid"} /\ addrs \in SUBSET Family
    /\ socks5 \in BOOLEAN
    /\ verdict = "none" /\ permitted = FALSE /\ family = "none"
    /\ client = "opening" /\ why = "none" /\ near = FALSE
    /\ status = "none" /\ server = "none" /\ dest = "none" /\ counted = FALSE /\ chunks = "off"

(***************************************************************************)
(* The client.                                                             *)
(***************************************************************************)
\* The stream is opened and the header written; or OpenStream returns on its
\* timeout, and the stream that its goroutine opens afterwards belongs to nobody.
ClientOpens ==
    /\ client = "opening"
    /\ client' \in {"waiting", "leaked"}
    /\ near' = TRUE
    /\ UNCHANGED <<choices, checks, why, status, server, dest, counted, chunks>>

\* The server's status, or the echo of a ping.
ClientReads ==
    /\ client = "waiting" /\ status # "none"
    /\ why' = status
    /\ client' = IF status # "ok" THEN "refused" ELSE IF sort = "ping" THEN "closed" ELSE "open"
    /\ near' = (client' = "open")
    /\ UNCHANGED <<choices, checks, status, server, dest, counted, chunks>>

\* The deadline has passed, or the stream has failed.
ClientGivesUp ==
    /\ client = "waiting"
    /\ client' = "gaveUp" /\ near' = FALSE
    /\ UNCHANGED <<choices, checks, why, status, server, dest, counted, chunks>>

ClientCloses ==
    /\ client = "open"
    /\ client' = "closed" /\ near' = FALSE
    /\ UNCHANGED <<choices, checks, why, status, server, dest, counted, chunks>>

(***************************************************************************)
(* The server.                                                             *)
(***************************************************************************)
Exit == server' = "done" /\ counted' = FALSE

\* The accept loop: a slot for the stream, or the rejection.
Accept ==
    /\ server = "none" /\ client # "opening"
    /\ server' \in {"header", "limit"}
    /\ counted' = (server' = "header")
    /\ UNCHANGED <<choices, checks, client, why, near, status, dest, chunks>>

\* writeTCPOpenFailure and writeUDPOpenFailure; a ping has no status.  Without the
\* capability the client learns no code.  The write may fail unnoticed.
Fail(code) ==
    \/ status' = IF coded THEN code ELSE "error"
    \/ ~near /\ UNCHANGED status

HeaderSent == client # "leaked"

RejectAtLimit ==
    /\ server = "limit"
    /\ IF HeaderSent /\ sort # "ping" THEN Fail("limit") ELSE UNCHANGED status
    /\ Exit
    /\ UNCHANGED <<choices, checks, client, why, near, dest, chunks>>

\* The header is read within RTTProbeTimeout.
ReadHeader ==
    /\ server = "header"
    /\ \/ HeaderSent /\ server' = (IF sort = "ping" THEN "echo" ELSE "check") /\ UNCHANGED counted
       \/ Exit
    /\ UNCHANGED <<choices, checks, client, why, near, status, dest, chunks>>

Echo ==
    /\ server = "echo"
    /\ \/ near /\ status' = "ok"
       \/ UNCHANGED status
    /\ Exit
    /\ UNCHANGED <<choices, checks, client, why, near, dest, chunks>>

\* What the lists mean: nothing that is denied, and if anything is allowed at all
\* only what the list for its own kind of host allows.
Permitted(p, host) ==
    /\ ~(host \in p.Deny \/ (host \in Name /\ InHosts(p.DenyHosts, host)))
    /\ (p.Allow # {} \/ p.AllowHosts # {}) =>
           IF host \in Name THEN InHosts(p.AllowHosts, host) ELSE host \in p.Allow

\* validateIPStrategyValue, validateSmuxStreamTarget, ensureTargetAllowed.
Check ==
    /\ server = "check"
    /\ \/ /\ verdict' = "bad" /\ UNCHANGED permitted
          /\ Fail("bad") /\ Exit
       \/ /\ strategy # "invalid"
          /\ \E p \in Policy, host \in Address \cup Name :
                 /\ verdict' = IF Allows(p, host) THEN "ok" ELSE "denied"
                 /\ permitted' = Permitted(p, host)
          /\ \/ verdict' = "ok" /\ server' = "dial" /\ UNCHANGED <<status, counted>>
             \/ verdict' = "denied" /\ Fail("denied") /\ Exit
    /\ UNCHANGED <<choices, family, client, why, near, dest, chunks>>

\* The target, or the SOCKS5 proxy that leads to it, is dialled; what the proxy does
\* then is Upstream's subject.  A target that is an address has one family, whatever
\* the strategy.
DialTarget ==
    /\ server = "dial"
    /\ \/ /\ family' \in IF socks5 THEN {"proxy"} ELSE Selected(strategy, addrs) \cup {"literal"}
          /\ dest' = "open" /\ server' = "status" /\ UNCHANGED <<status, counted>>
       \/ Fail("dial") /\ Exit /\ UNCHANGED <<dest, family>>
    /\ UNCHANGED <<choices, verdict, permitted, client, why, near, chunks>>

\* Mutant: when the client is gone the target stays open.
WriteStatusLeaks ==
    /\ server = "status"
    /\ \/ /\ status' = "ok" /\ server' = "relay" /\ chunks' = IF sort = "udp" THEN "read" ELSE "off"
          /\ UNCHANGED <<dest, counted>>
       \/ ~near /\ Exit /\ UNCHANGED <<status, dest, chunks>>
    /\ UNCHANGED <<choices, checks, client, why, near>>

\* The success status; the write fails, or not, when the client is gone.
WriteStatus ==
    /\ server = "status"
    /\ \/ /\ status' = "ok" /\ server' = "relay" /\ chunks' = IF sort = "udp" THEN "read" ELSE "off"
          /\ UNCHANGED <<dest, counted>>
       \/ ~near /\ dest' = "closed" /\ Exit /\ UNCHANGED <<status, chunks>>
    /\ UNCHANGED <<choices, checks, client, why, near>>

\* proxyConnStream, whose inside is LocalProxy's subject, and the UDP loop, which
\* meets a closed relay, an error of the relay, or one of writeUDPReply.
RelayEnds ==
    /\ server = "relay"
    /\ IF sort = "tcp" THEN ~near \/ dest = "gone"
       ELSE dest \in {"gone", "closed"} \/ ~near
    /\ dest' = "closed"
    /\ Exit
    /\ UNCHANGED <<choices, checks, client, why, near, status, chunks>>

\* The goroutine of a UDP stream that forwards the client's packets closes the
\* relay when the stream ends, which it also does when the handler is done.
ChunksEnd ==
    /\ chunks = "read"
    /\ ~near \/ server = "done" \/ dest = "gone"
    /\ chunks' = "done"
    /\ dest' = "closed"
    /\ UNCHANGED <<choices, checks, client, why, near, status, server, counted>>

TargetGone ==
    /\ dest = "open"
    /\ dest' = "gone"
    /\ UNCHANGED <<choices, checks, client, why, near, status, server, counted, chunks>>

ServerStep ==
    \/ Accept \/ RejectAtLimit \/ ReadHeader \/ Echo \/ Check \/ DialTarget \/ WriteStatus

\* The dial of a target ends in DialTimeout; the exchange with a SOCKS5 proxy has no
\* deadline, and the proxy need not answer.
Stalled == socks5 /\ server = "dial"

\* A UDP handler finds the client gone only by way of the other goroutine: the relay
\* it reads may have nothing to say.
RelayNotices == (sort = "tcp" \/ dest # "open") /\ RelayEnds

StreamNext ==
    \/ ClientOpens \/ ClientReads \/ ClientGivesUp \/ ClientCloses
    \/ ServerStep \/ RelayEnds \/ ChunksEnd \/ TargetGone

StreamSpec == StreamInit /\ [][StreamNext]_streamVars

StreamFairness == WF_streamVars(~Stalled /\ ServerStep) /\ WF_streamVars(RelayNotices) /\ WF_streamVars(ChunksEnd)

Verdict == {"none", "ok", "bad", "denied"}
Client == {"opening", "waiting", "open", "refused", "gaveUp", "leaked", "closed"}
Code == {"none", "ok", "error", "bad", "denied", "dial", "limit"}
Handler == {"none", "header", "limit", "echo", "check", "dial", "status", "relay", "done"}
Dest == {"none", "open", "gone", "closed"}

StreamTypeOK ==
    /\ sort \in Sort /\ coded \in BOOLEAN /\ socks5 \in BOOLEAN
    /\ strategy \in Strategy \cup {"invalid"} /\ addrs \subseteq Family
    /\ verdict \in Verdict /\ permitted \in BOOLEAN
    /\ family \in {"none", "literal", "proxy"} \cup Family
    /\ client \in Client /\ why \in Code /\ near \in BOOLEAN
    /\ status \in Code /\ server \in Handler /\ dest \in Dest /\ counted \in BOOLEAN
    /\ chunks \in {"off", "read", "done"}

(***************************************************************************)
(* What the client is told is so.  A stream that it takes for open has, or *)
(* had, a target behind it, one that the policy permits and that was       *)
(* reached as the strategy asks; a stream that is refused has none; and    *)
(* "denied" is said of what the policy does not permit, to a client that   *)
(* understands codes.                                                      *)
(***************************************************************************)
AnswerTruthful ==
    /\ client = "open" =>
           /\ dest # "none" /\ permitted
           /\ strategy = "v4_only" => family # "v6"
           /\ strategy = "v6_first" /\ "v6" \in addrs => family # "v4"
    /\ client = "refused" => dest = "none"
    /\ why = "denied" => ~permitted /\ coded

(***************************************************************************)
(* When the client has closed its end, has given up before the server's    *)
(* answer, or has lost a stream to the timeout of OpenStream, the server's *)
(* handler ends with the target closed and the slot free, also if it was   *)
(* dialling at that time; unless it waits for a SOCKS5 proxy that does not *)
(* answer, for which there is no deadline.                                 *)
(***************************************************************************)
TargetReleased ==
    (client = "leaked" \/ (client # "opening" /\ ~near)) ~>
        \/ server = "done" /\ ~counted /\ dest \in {"none", "closed"} /\ chunks # "read"
        \/ Stalled
=============================================================================
