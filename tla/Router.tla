------------------------------- MODULE Router -------------------------------
(***************************************************************************)
(* Where the client sends a target: Match (internal/route/matcher.go) and  *)
(* routeRuntime with its map from addresses to names, learned from the DNS *)
(* answers that pass (internal/app/route.go, dnssniff.go), as send of the  *)
(* UDP association, handleSOCKS5Connect and handleHTTP use them.  The      *)
(* rules and databases are what RulesWatch and GeoUpdate have left at the  *)
(* moment: any of them, and other ones for every decision.                 *)
(***************************************************************************)
EXTENDS Integers, Sequences, SequencesExt

CONSTANTS MapTTL,       \* dnsMapTTL, in ticks
          Host, Addr,   \* the names and the addresses of targets
          Site,         \* a category of the geosite database
          Lan,          \* the private and local addresses
          GeoIPcn,      \* the category cn of the geoip database
          builtinCN,    \* the coarser list in the program
          DomainValue,  \* the value of every domain rule
          RuleList      \* the rules sections of the configurations

(***************************************************************************)
(* Names are sequences of labels, and so are addresses, of one label; two  *)
(* of them are the resolvers'.                                             *)
(***************************************************************************)
NoHost == <<>>
NoAddr == <<>>
directDNSHost == <<"223.5.5.5">>
tunnelDNSHost == <<"1.1.1.1">>

RouteAction == {"proxy", "direct", "reject"}
RuleKind == {"geosite", "domain", "lan", "cn"}
Rule == [action : RouteAction, kind : RuleKind]
Fallback == RouteAction \cup {"none"}       \* the default: line
Config == [rules : RuleList,
           fallback : Fallback,
           geo : SUBSET {"geosite", "geoip"}]   \* the databases that are not nil

ASSUME RouterAssumption ==
    /\ MapTTL \in Nat /\ NoHost \notin Host
    /\ directDNSHost \in Addr /\ tunnelDNSHost \in Addr
    /\ RuleList \subseteq Seq(Rule)

domainSuffixMatch(suffix, h) == IsSuffix(suffix, h)

\* The rule applies, as far as the databases that are loaded can tell.
Applies(r, h, a, geo) ==
    CASE r.kind = "geosite" -> "geosite" \in geo /\ h \in Site
      [] r.kind = "domain" -> h # NoHost /\ domainSuffixMatch(DomainValue, h)
      [] r.kind = "lan" -> a \in Lan
      [] r.kind = "cn" -> a \in IF "geoip" \in geo THEN GeoIPcn ELSE builtinCN

FirstRule(c, h, a) == SelectInSeq(c.rules, LAMBDA r : Applies(r, h, a, c.geo))

\* Without a rule and a default: line the answer is "direct", but not matched.
Match(c, h, a) ==
    LET first == FirstRule(c, h, a)
    IN  CASE first # 0 -> [action |-> c.rules[first].action, matched |-> TRUE]
          [] first = 0 /\ c.fallback # "none" -> [action |-> c.fallback, matched |-> TRUE]
          [] OTHER -> [action |-> "direct", matched |-> FALSE]

\* What the rule says of the target, whatever is loaded.
Covers(r, h, a) ==
    \/ r.kind = "geosite" /\ h \in Site
    \/ r.kind = "domain" /\ h # NoHost /\ IsSuffix(DomainValue, h)
    \/ r.kind = "lan" /\ a \in Lan
    \/ r.kind = "cn" /\ a \in GeoIPcn \cup builtinCN

\* The answers that Match has for a target, each with the actions that the rules and
\* the default: line then in force give for it.
Verdicts(h, a) ==
    {[match |-> Match(c, h, a),
      said |-> {c.fallback} \cup {r.action : r \in {q \in ToSet(c.rules) : Covers(q, h, a)}}] :
         c \in Config}

\* Mutant: what no rule matches goes where Match says.
decideForTargetUnmatched(on, m) == IF on THEN m.action ELSE "proxy"

decideForTarget(on, m) == IF on /\ m.matched THEN m.action ELSE "proxy"

shouldTunnelDNS(on, m) == on /\ m.matched /\ m.action = "proxy"

(***************************************************************************)
(* A DNS message as the sniffers see it: whether it is a response, one     *)
(* without an error, the first question (NoHost when it cannot be read),   *)
(* and the A and AAAA records up to the first that cannot be.              *)
(***************************************************************************)
Message == [qr : BOOLEAN, ok : BOOLEAN, name : Host \cup {NoHost}, ips : SUBSET Addr]

sniffDNSAnswers(m) ==
    IF m.qr /\ m.ok THEN <<m.name, m.ips>> ELSE <<NoHost, {}>>

sniffDNSQuery(m) == IF m.qr THEN NoHost ELSE m.name

VARIABLES
    engine,   \* routeRT.engine is not nil
    about,    \* the address the DNS answers are about; entries do not affect each other
    dnsMap,   \* its dnsMapEntry: the name, and the ticks until it expires
    given,    \* for every name, the ticks for which the last answer naming the address is good
    deciding, \* of a decision: "idle", "target", "resolved", "decided"
    asked,    \* the host of the request
    source,   \* what chose it: "client", or the rewriting of a DNS query to the resolver
              \* behind the "tunnel" or to the "direct" one
    host, ip, \* what resolveHostForRoute returned
    fresh,    \* the name was one that a good answer gave for the address, or the request's own
    outcome,  \* decideForTarget's answer
    ruled,    \* match has found a rule or a default: line for it
    meant     \* a rule with this action covers the target, or the default: line has it

routeVars == <<engine, about, dnsMap, given, deciding, asked, source, host, ip,
              fresh, outcome, ruled, meant>>
mapVars == <<engine, about, dnsMap, given>>

RouterInit ==
    /\ engine = TRUE /\ about \in Addr
    /\ dnsMap = [name |-> NoHost, left |-> 0] /\ given = [n \in Host |-> 0]
    /\ deciding = "idle" /\ asked = NoHost /\ source = "client"
    /\ host = NoHost /\ ip = NoAddr /\ fresh = TRUE
    /\ outcome = "none" /\ ruled = FALSE /\ meant = FALSE

\* handleUDPResponse, with an engine only, or directReadLoop meets a message from
\* port 53; remember is called for every address in it.
Observe(m, direct) ==
    /\ direct \/ engine
    /\ LET found == sniffDNSAnswers(m)
       IN  /\ found[1] # NoHost /\ about \in found[2]
           /\ dnsMap' = [name |-> found[1], left |-> MapTTL]
           /\ given' = [given EXCEPT ![found[1]] = MapTTL]
    /\ UNCHANGED <<engine, about, deciding, asked, source, host, ip, fresh, outcome, ruled, meant>>

Earlier(n) == IF n = 0 THEN 0 ELSE n - 1

MapTick ==
    /\ dnsMap' = [dnsMap EXCEPT !.left = Earlier(@)]
    /\ given' = [n \in Host |-> Earlier(given[n])]
    /\ UNCHANGED <<engine, about, deciding, asked, source, host, ip, fresh, outcome, ruled, meant>>

\* Engine.Close.
EngineGone ==
    /\ engine /\ engine' = FALSE
    /\ UNCHANGED <<about, dnsMap, given, deciding, asked, source, host, ip, fresh, outcome, ruled, meant>>

\* A CONNECT, or a packet that is no DNS query, for a name or an address.
Request(h) ==
    /\ deciding = "idle" /\ deciding' = "target"
    /\ asked' = h
    /\ UNCHANGED <<mapVars, source, host, ip, fresh, outcome, ruled, meant>>

\* A packet for port 53.  One that cannot be read, or that meets no engine, keeps
\* the resolver it was sent to.
Query(m) ==
    LET qname == sniffDNSQuery(m)
    IN  /\ deciding = "idle" /\ deciding' = "target"
        /\ IF engine /\ qname # NoHost
           THEN \E v \in Verdicts(qname, NoAddr) :
                    IF shouldTunnelDNS(engine, v.match)
                    THEN asked' = tunnelDNSHost /\ source' = "tunnel"
                    ELSE asked' = directDNSHost /\ source' = "direct"
           ELSE asked' \in Host \cup Addr /\ source' = "client"
        /\ UNCHANGED <<mapVars, host, ip, fresh, outcome, ruled, meant>>

mappedHost(a) == IF a = about /\ dnsMap.left > 0 THEN dnsMap.name ELSE NoHost

\* A name is taken as it is; an address for the name it was learned under.
resolveHostForRoute ==
    /\ deciding = "target" /\ deciding' = "resolved"
    /\ IF asked \in Host
       THEN host' = asked /\ ip' = NoAddr /\ fresh' = TRUE
       ELSE /\ host' = mappedHost(asked) /\ ip' = asked
            /\ fresh' = (host' = NoHost \/ (asked = about /\ given[host'] > 0))
    /\ UNCHANGED <<mapVars, asked, source, outcome, ruled, meant>>

Decide ==
    /\ deciding = "resolved" /\ deciding' = "decided"
    /\ \E v \in Verdicts(host, ip) :
           /\ outcome' = decideForTarget(engine, v.match)
           /\ ruled' = v.match.matched
           /\ meant' = (outcome' \in v.said)
    /\ UNCHANGED <<mapVars, asked, source, host, ip, fresh>>

\* The handler goes on; the next request is another one.
Forward ==
    /\ deciding = "decided" /\ deciding' = "idle"
    /\ asked' = NoHost /\ source' = "client" /\ host' = NoHost /\ ip' = NoAddr
    /\ fresh' = TRUE /\ outcome' = "none" /\ ruled' = FALSE /\ meant' = FALSE
    /\ UNCHANGED mapVars

RouterNext ==
    \/ \E m \in Message, direct \in BOOLEAN : Observe(m, direct)
    \/ MapTick \/ EngineGone \/ resolveHostForRoute \/ Decide \/ Forward
    \/ \E h \in Host \cup Addr : Request(h)
    \/ \E m \in {q \in Message : q.ok /\ q.ips = {}} : Query(m)

RouterSpec == RouterInit /\ [][RouterNext]_routeVars

RouterTypeOK ==
    /\ engine \in BOOLEAN /\ about \in Addr
    /\ dnsMap \in [name : Host \cup {NoHost}, left : 0..MapTTL] /\ given \in [Host -> 0..MapTTL]
    /\ deciding \in {"idle", "target", "resolved", "decided"}
    /\ asked \in Host \cup Addr \cup {NoHost} /\ source \in {"client", "tunnel", "direct"}
    /\ host \in Host \cup {NoHost} /\ ip \in Addr \cup {NoAddr}
    /\ {fresh, ruled, meant} \subseteq BOOLEAN /\ outcome \in RouteAction \cup {"none"}

(***************************************************************************)
(* Traffic leaves the tunnel, or is refused, only because the rules say    *)
(* so: a rule with that action covers the target itself or a name that an  *)
(* answer not older than dnsMapTTL gave for its address, or the default:   *)
(* line has it.  A database that is missing or just being replaced, an     *)
(* address that has changed its name, and an engine that is being closed   *)
(* do not do it.  This is what decideForTarget says of itself ("matched =  *)
(* false ... proxy, never direct").  It does not speak of a DNS query that *)
(* send has readdressed to the direct resolver, which may leave directly   *)
(* without a rule.                                                         *)
(***************************************************************************)
OnlyByRule ==
    deciding = "decided" /\ outcome # "proxy" =>
        (meant /\ fresh) \/ (source = "direct" /\ outcome = "direct")

(***************************************************************************)
(* A query that send has readdressed to the direct resolver, and for which *)
(* the rules have nothing to say, leaves directly, whatever the rules say  *)
(* of its name, and with any databases missing: "all the rest (direct, no  *)
(* rule, databases not ready) -> resolved directly, 223.5.5.5" in send,    *)
(* and "if none matches, direct" at the head of the rules.  The code sends *)
(* it where decideForTarget sends the resolver's address: into the tunnel. *)
(***************************************************************************)
UnmatchedQueryGoesDirect ==
    deciding = "decided" /\ engine /\ source = "direct" /\ ~ruled => outcome = "direct"
=============================================================================
