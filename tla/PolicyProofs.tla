---------------------------- MODULE PolicyProofs ----------------------------
(***************************************************************************)
(* Proofs about what decides where a connection goes: the router of the    *)
(* client, and the opening of a stream on the server.  They hold for any   *)
(* hosts, addresses, databases, patterns and lists of rules.               *)
(***************************************************************************)
EXTENDS Router, StreamOpen, RunTheorems, TLAPS

(***************************************************************************)
(* Router: a decision is one of a rule that covers the connection.         *)
(***************************************************************************)
\* The rule that decides is the first that applies.
LEMMA FirstThatApplies ==
    ASSUME NEW c \in Config, NEW h, NEW a, FirstRule(c, h, a) # 0
    PROVE  LET k == FirstRule(c, h, a) IN /\ c.rules \in Seq(Rule) /\ k \in 1 .. Len(c.rules)
                                          /\ Applies(c.rules[k], h, a, c.geo)
<1> DEFINE I == {i \in 1 .. Len(c.rules) : Applies(c.rules[i], h, a, c.geo)}
           k == FirstRule(c, h, a)
<1>0. c.rules \in Seq(Rule)
  BY RouterAssumption DEF Config
<1>1. k = IF I # {} THEN Min(I) ELSE 0
  BY DEF FirstRule, SelectInSeq
<1> HIDE DEF k
<1>2. I \in SUBSET Nat
  BY <1>0, LenProperties
<1>3. I # {} /\ k = Min(I)
  BY <1>1 DEF k
<1>4. PICK m \in I : \A n \in I : m <= n
  BY <1>2, <1>3, LeastNat
<1> HIDE DEF I
<1>5. Min(I) \in I
  BY <1>4 DEF Min
<1>6. k \in I
  BY <1>3, <1>5
<1> QED
  BY <1>0, <1>6 DEF I, k

\* What Match says of a target, when a rule or the default: line matched, is what one of the
\* rules that cover the target says, or the default: line.
LEMMA MatchIsSaid ==
    ASSUME NEW h, NEW a, NEW v \in Verdicts(h, a), v.match.matched
    PROVE  v.match.action \in v.said
<1>1. PICK c \in Config :
          v = [match |-> Match(c, h, a),
               said |-> {c.fallback} \cup {r.action : r \in {q \in ToSet(c.rules) : Covers(q, h, a)}}]
  BY DEF Verdicts
<1>3. PICK k : k = FirstRule(c, h, a)
  OBVIOUS
<1>4. /\ v.match = CASE k # 0 -> [action |-> c.rules[k].action, matched |-> TRUE]
                     [] k = 0 /\ c.fallback # "none" -> [action |-> c.fallback, matched |-> TRUE]
                     [] OTHER -> [action |-> "direct", matched |-> FALSE]
      /\ v.said = {c.fallback} \cup {r.action : r \in {q \in ToSet(c.rules) : Covers(q, h, a)}}
  BY <1>1, <1>3 DEF Match
<1>5. CASE k # 0
  <2>1. c.rules \in Seq(Rule) /\ k \in 1 .. Len(c.rules) /\ Applies(c.rules[k], h, a, c.geo)
    BY <1>3, <1>5, FirstThatApplies
  <2>2. c.rules[k] \in ToSet(c.rules) /\ c.rules[k] \in Rule
    BY <2>1, LenProperties, ElementOfSeq DEF ToSet
  <2>3. c.rules[k].kind \in RuleKind
    BY <2>2 DEF Rule
  <2>4. Covers(c.rules[k], h, a)
    BY <2>1, <2>3 DEF Applies, Covers, domainSuffixMatch, RuleKind
  <2> QED
    BY <1>4, <1>5, <2>2, <2>4
<1>6. CASE k = 0
  BY <1>4, <1>6
<1> QED
  BY <1>5, <1>6

\* A name that the map still gives for the address was given by an answer that is still good,
\* and what a decision has resolved to is such a name.  The exception that OnlyByRule makes for
\* readdressed queries is not used.
RouterInv ==
    /\ dnsMap \in [name : Host \cup {NoHost}, left : Nat] /\ given \in [Host -> Nat]
    /\ dnsMap.left > 0 => dnsMap.name \in Host /\ given[dnsMap.name] >= dnsMap.left
    /\ deciding \in {"resolved", "decided"} => fresh
    /\ deciding = "decided" /\ outcome # "proxy" => meant

LEMMA RouterInitially == ASSUME RouterInit PROVE RouterInv
BY DEF RouterInit, RouterInv

\* An answer, and the time.
LEMMA MapKeeps ==
    ASSUME RouterInv, (\E m \in Message, direct \in BOOLEAN : Observe(m, direct)) \/ MapTick
    PROVE  RouterInv'
<1>0. UNCHANGED <<deciding, fresh, outcome, meant>>
  BY DEF Observe, MapTick
<1>1. ASSUME NEW m \in Message, NEW direct \in BOOLEAN, Observe(m, direct) PROVE RouterInv'
  <2>1. PICK n \in Host : dnsMap' = [name |-> n, left |-> MapTTL] /\ given' = [given EXCEPT ![n] = MapTTL]
    <3>1. sniffDNSAnswers(m)[1] \in Host \cup {NoHost}
      BY <1>1 DEF sniffDNSAnswers, Message
    <3> QED
      BY <1>1, <3>1 DEF Observe
  <2>2. given' \in [Host -> Nat] /\ given'[n] = MapTTL /\ MapTTL \in Nat
    BY <2>1, RouterAssumption DEF RouterInv
  <2>3. dnsMap' \in [name : Host \cup {NoHost}, left : Nat] /\ dnsMap'.name = n /\ dnsMap'.left = MapTTL
    BY <2>1, <2>2
  <2> QED
    BY <1>0, <2>2, <2>3 DEF RouterInv
<1>2. CASE MapTick
  <2>1. /\ dnsMap.name \in Host \cup {NoHost} /\ dnsMap.left \in Nat
        /\ dnsMap = [name |-> dnsMap.name, left |-> dnsMap.left]
    BY DEF RouterInv
  <2>2. dnsMap' = [name |-> dnsMap.name, left |-> Earlier(dnsMap.left)]
    BY <1>2, <2>1 DEF MapTick
  <2>3. \A k \in Nat : Earlier(k) \in Nat /\ (Earlier(k) > 0 => k > 0 /\ Earlier(k) = k - 1)
    BY DEF Earlier
  <2>4. given' = [n \in Host |-> Earlier(given[n])] /\ \A n \in Host : given[n] \in Nat
    BY <1>2 DEF MapTick, RouterInv
  <2>5. given' \in [Host -> Nat] /\ dnsMap' \in [name : Host \cup {NoHost}, left : Nat]
        /\ dnsMap'.name = dnsMap.name /\ dnsMap'.left = Earlier(dnsMap.left)
    BY <2>1, <2>2, <2>3, <2>4
  <2>6. ASSUME dnsMap'.left > 0 PROVE dnsMap'.name \in Host /\ given'[dnsMap'.name] >= dnsMap'.left
    <3>1. dnsMap.left > 0 /\ Earlier(dnsMap.left) = dnsMap.left - 1
      BY <2>1, <2>3, <2>5, <2>6
    <3>2. PICK n \in Host : n = dnsMap.name /\ given[n] >= dnsMap.left
      BY <3>1 DEF RouterInv
    <3>3. given[n] \in Nat /\ given[n] > 0
      BY <2>1, <2>4, <3>1, <3>2
    <3>4. Earlier(given[n]) = given[n] - 1
      BY <3>3 DEF Earlier
    <3>5. given[n] - 1 >= dnsMap.left - 1
      BY <2>1, <3>2, <3>3
    <3> QED
      BY <2>4, <2>5, <3>1, <3>2, <3>4, <3>5
  <2> QED
    BY <1>0, <2>5, <2>6 DEF RouterInv
<1> QED
  BY <1>1, <1>2

\* A decision.
LEMMA DecisionKeeps == ASSUME RouterInv, resolveHostForRoute \/ Decide PROVE RouterInv'
<1>1. UNCHANGED <<dnsMap, given>>
  BY DEF resolveHostForRoute, Decide, mapVars
<1>2. CASE resolveHostForRoute
  <2>1. fresh'
    <3>1. CASE asked \in Host
      BY <1>2, <3>1 DEF resolveHostForRoute
    <3>2. CASE asked \notin Host
      <4>1. host' = mappedHost(asked) /\ fresh' = (host' = NoHost \/ (asked = about /\ given[host'] > 0))
        BY <1>2, <3>2 DEF resolveHostForRoute
      <4>2. CASE asked = about /\ dnsMap.left > 0
        <5>1. host' = dnsMap.name /\ dnsMap.name \in Host /\ given[dnsMap.name] >= dnsMap.left
          BY <4>1, <4>2 DEF mappedHost, RouterInv
        <5>2. given[dnsMap.name] \in Nat /\ dnsMap.left \in Nat
          BY <5>1 DEF RouterInv
        <5>3. given[dnsMap.name] > 0
          BY <4>2, <5>1, <5>2
        <5> QED
          BY <4>1, <4>2, <5>1, <5>3
      <4>3. CASE ~(asked = about /\ dnsMap.left > 0)
        BY <4>1, <4>3 DEF mappedHost
      <4> QED
        BY <4>2, <4>3
    <3> QED
      BY <3>1, <3>2
  <2>2. deciding' = "resolved"
    BY <1>2 DEF resolveHostForRoute
  <2> QED
    BY <1>1, <2>1, <2>2 DEF RouterInv
<1>3. CASE Decide
  <2>1. fresh' /\ deciding' = "decided"
    BY <1>3 DEF Decide, RouterInv
  <2>2. PICK v \in Verdicts(host, ip) :
            outcome' = decideForTarget(engine, v.match) /\ meant' = (outcome' \in v.said)
    BY <1>3 DEF Decide
  <2>3. ASSUME outcome' # "proxy" PROVE meant'
    <3>1. v.match.matched /\ outcome' = v.match.action
      BY <2>2, <2>3 DEF decideForTarget
    <3> QED
      BY <2>2, <3>1, MatchIsSaid
  <2> QED
    BY <1>1, <2>1, <2>3 DEF RouterInv
<1> QED
  BY <1>2, <1>3

\* OnlyByRule: what does not go through the tunnel is what a rule covers, by itself or by a name
\* that a good answer gave for its address, or what the default: line names (decideForTarget,
\* resolveHostForRoute and Match).
THEOREM RoutedByRule == RouterSpec => []OnlyByRule
<1>1. RouterInit => RouterInv
  BY RouterInitially
<1>2. RouterInv /\ [RouterNext]_routeVars => RouterInv'
  <2> SUFFICES ASSUME RouterInv, [RouterNext]_routeVars PROVE RouterInv'
    OBVIOUS
  <2>1. CASE EngineGone \/ (\E h \in Host \cup Addr : Request(h)) \/ (\E m \in Message : Query(m)) \/ Forward
    <3>1. \/ UNCHANGED <<dnsMap, given>> /\ deciding' \notin {"resolved", "decided"}
          \/ UNCHANGED <<dnsMap, given, deciding, fresh, outcome, meant>>
      BY <2>1 DEF EngineGone, Request, Query, Forward, mapVars
    <3> QED
      BY <3>1 DEF RouterInv
  <2>2. CASE UNCHANGED routeVars
    BY <2>2 DEF routeVars, RouterInv
  <2> QED
    BY <2>1, <2>2, MapKeeps, DecisionKeeps DEF RouterNext
<1>3. RouterInv => OnlyByRule
  BY DEF RouterInv, OnlyByRule
<1> QED
  BY <1>1, <1>2, <1>3, PTL DEF RouterSpec

(***************************************************************************)
(* StreamOpen: what the client is told about the target.                   *)
(***************************************************************************)
\* The target was reached as the strategy asks.
AsAsked ==
    /\ strategy = "v4_only" => family # "v6"
    /\ strategy = "v6_first" /\ "v6" \in addrs => family # "v4"

\* There is a target, permitted and reached as asked.
Reached == dest # "none" /\ permitted /\ AsAsked

\* Where the server is, what it has said and what the client has made of it.
Answered ==
    /\ server \in {"none", "header", "limit", "echo", "check", "dial", "status"} => status = "none"
    /\ server \in {"none", "header", "limit", "echo", "check", "dial"} => dest = "none"
    /\ server \in {"status", "relay", "done"} \/ chunks = "off"
    /\ chunks # "off" => status = "ok" /\ sort # "ping"
    /\ server = "echo" => sort = "ping"
    /\ server \in {"check", "dial", "status", "relay"} => sort # "ping"
    /\ server = "dial" => permitted /\ strategy # "invalid"
    /\ server \in {"status", "relay"} => Reached
    /\ status = "ok" => sort = "ping" \/ Reached
    /\ status \notin {"none", "ok"} => dest = "none" /\ server = "done"
    /\ status = "denied" => ~permitted /\ coded
    /\ sort = "ping" => dest = "none"

ToldClient ==
    /\ client = "opening" => server = "none"
    /\ client = "open" => status = "ok" /\ sort # "ping"
    /\ client = "refused" => status \notin {"none", "ok"}
    /\ why # "none" => why = status

StreamInv == StreamTypeOK /\ Answered /\ ToldClient

\* TargetPolicy.Allows says of every host what the lists mean.
LEMMA AllowsIsPermitted ==
    ASSUME NEW p \in Policy, NEW h \in Address \cup Name
    PROVE  Allows(p, h) <=> Permitted(p, h)
<1>1. p.Deny \subseteq Address /\ (h \in Name => h \notin Address)
  BY HostAssumption DEF Policy
<1>2. CASE h \in Address
  BY <1>1, <1>2, HostAssumption DEF Allows, Permitted
<1>3. CASE h \in Name
  <2>1. h \notin Address /\ h \notin p.Deny
    BY <1>1, <1>3
  <2>2. ~InHosts({}, h)
    BY DEF InHosts
  <2> QED
    BY <1>3, <2>1, <2>2 DEF Allows, Permitted
<1> QED
  BY <1>2, <1>3

\* The families a name is reached over, under a strategy that is not "default".
LEMMA SelectedAsAsked ==
    ASSUME addrs \subseteq Family, NEW f \in Selected(strategy, addrs),
           strategy \in Strategy
    PROVE  /\ f \in Family
           /\ strategy = "v4_only" => f # "v6"
           /\ strategy = "v6_first" /\ "v6" \in addrs => f # "v4"
BY DEF Selected, Prefer, Family, Strategy

LEMMA StreamInitially == StreamInit => StreamInv
<1> SUFFICES ASSUME StreamInit PROVE StreamInv
  OBVIOUS
<1>1. StreamTypeOK
  BY DEF StreamInit, StreamTypeOK, Verdict, Client, Code, Handler, Dest
<1>2. Answered /\ ToldClient
  BY DEF StreamInit, Answered, ToldClient, Reached, AsAsked
<1> QED
  BY <1>1, <1>2 DEF StreamInv

\* The steps of the client.
LEMMA ClientKeeps ==
    ASSUME StreamInv, ClientOpens \/ ClientReads \/ ClientGivesUp \/ ClientCloses
    PROVE  StreamInv'
<1>1. CASE ClientOpens
  <2>1. StreamTypeOK'
    <3>1. near' \in BOOLEAN
      BY <1>1 DEF ClientOpens
    <3> QED
      BY <1>1, <3>1 DEF StreamInv, StreamTypeOK, ClientOpens, choices, checks, Client
  <2>2. Answered' /\ ToldClient'
    BY <1>1 DEF StreamInv, Answered, ToldClient, Reached, AsAsked, ClientOpens, choices, checks
  <2> QED
    BY <2>1, <2>2 DEF StreamInv
<1>2. CASE ClientReads
  <2>1. StreamTypeOK'
    <3>1. near' \in BOOLEAN
      BY <1>2 DEF ClientReads
    <3> QED
      BY <1>2, <3>1 DEF StreamInv, StreamTypeOK, ClientReads, choices, checks, Client
  <2>2. Answered' /\ ToldClient'
    BY <1>2 DEF StreamInv, Answered, ToldClient, Reached, AsAsked, ClientReads, choices, checks
  <2> QED
    BY <2>1, <2>2 DEF StreamInv
<1>3. CASE ClientGivesUp
  <2>1. StreamTypeOK'
    <3>1. near' \in BOOLEAN
      BY <1>3 DEF ClientGivesUp
    <3> QED
      BY <1>3, <3>1 DEF StreamInv, StreamTypeOK, ClientGivesUp, choices, checks, Client
  <2>2. Answered' /\ ToldClient'
    BY <1>3 DEF StreamInv, Answered, ToldClient, Reached, AsAsked, ClientGivesUp, choices, checks
  <2> QED
    BY <2>1, <2>2 DEF StreamInv
<1>4. CASE ClientCloses
  <2>1. StreamTypeOK'
    <3>1. near' \in BOOLEAN
      BY <1>4 DEF ClientCloses
    <3> QED
      BY <1>4, <3>1 DEF StreamInv, StreamTypeOK, ClientCloses, choices, checks, Client
  <2>2. Answered' /\ ToldClient'
    BY <1>4 DEF StreamInv, Answered, ToldClient, Reached, AsAsked, ClientCloses, choices, checks
  <2> QED
    BY <2>1, <2>2 DEF StreamInv
<1> QED
  BY <1>1, <1>2, <1>3, <1>4

\* The steps of the server that say nothing of a target.
LEMMA ServerKeeps ==
    ASSUME StreamInv,
           Accept \/ RejectAtLimit \/ ReadHeader \/ Echo \/ WriteStatus \/ RelayEnds \/ ChunksEnd
              \/ TargetGone
    PROVE  StreamInv'
<1>1. CASE Accept
  <2>1. StreamTypeOK'
    <3>1. counted' \in BOOLEAN
      BY <1>1 DEF StreamInv, StreamTypeOK, Accept, choices, checks, Handler
    <3> QED
      BY <1>1, <3>1 DEF StreamInv, StreamTypeOK, Accept, choices, checks, Handler
  <2>2. Answered' /\ ToldClient'
    BY <1>1 DEF StreamInv, StreamTypeOK, Answered, ToldClient, Reached, AsAsked, Accept, choices, checks
  <2> QED
    BY <2>1, <2>2 DEF StreamInv
<1>2. CASE RejectAtLimit
  <2>1. StreamTypeOK'
    <3>1. counted' \in BOOLEAN
      BY <1>2 DEF StreamInv, StreamTypeOK, RejectAtLimit, choices, checks, Exit, Fail, HeaderSent, Handler, Code
    <3> QED
      BY <1>2, <3>1 DEF StreamInv, StreamTypeOK, RejectAtLimit, choices, checks, Exit, Fail, HeaderSent, Handler, Code
  <2>2. Answered' /\ ToldClient'
    BY <1>2 DEF StreamInv, StreamTypeOK, Answered, ToldClient, Reached, AsAsked, RejectAtLimit, choices, checks, Exit, Fail, HeaderSent
  <2> QED
    BY <2>1, <2>2 DEF StreamInv
<1>3. CASE ReadHeader
  <2>1. StreamTypeOK'
    <3>1. counted' \in BOOLEAN
      BY <1>3 DEF StreamInv, StreamTypeOK, ReadHeader, choices, checks, Exit, Handler
    <3> QED
      BY <1>3, <3>1 DEF StreamInv, StreamTypeOK, ReadHeader, choices, checks, Exit, Handler
  <2>2. Answered' /\ ToldClient'
    BY <1>3 DEF StreamInv, StreamTypeOK, Answered, ToldClient, Reached, AsAsked, ReadHeader, choices, checks, Exit
  <2> QED
    BY <2>1, <2>2 DEF StreamInv
<1>4. CASE Echo
  <2>1. StreamTypeOK'
    <3>1. counted' \in BOOLEAN
      BY <1>4 DEF StreamInv, StreamTypeOK, Echo, choices, checks, Exit, Handler, Code
    <3> QED
      BY <1>4, <3>1 DEF StreamInv, StreamTypeOK, Echo, choices, checks, Exit, Handler, Code
  <2>2. Answered' /\ ToldClient'
    BY <1>4 DEF StreamInv, StreamTypeOK, Answered, ToldClient, Reached, AsAsked, Echo, choices, checks, Exit
  <2> QED
    BY <2>1, <2>2 DEF StreamInv
<1>5. CASE WriteStatus
  <2>1. StreamTypeOK'
    <3>1. counted' \in BOOLEAN
      BY <1>5 DEF StreamInv, StreamTypeOK, WriteStatus, choices, checks, Exit, Handler, Code, Dest
    <3> QED
      BY <1>5, <3>1 DEF StreamInv, StreamTypeOK, WriteStatus, choices, checks, Exit, Handler, Code, Dest
  <2>2. Answered' /\ ToldClient'
    BY <1>5 DEF StreamInv, StreamTypeOK, Answered, ToldClient, Reached, AsAsked, WriteStatus, choices, checks, Exit
  <2> QED
    BY <2>1, <2>2 DEF StreamInv
<1>6. CASE RelayEnds
  <2>1. StreamTypeOK'
    <3>1. counted' \in BOOLEAN
      BY <1>6 DEF StreamInv, StreamTypeOK, RelayEnds, choices, checks, Exit, Handler, Dest
    <3> QED
      BY <1>6, <3>1 DEF StreamInv, StreamTypeOK, RelayEnds, choices, checks, Exit, Handler, Dest
  <2>2. Answered' /\ ToldClient'
    BY <1>6 DEF StreamInv, StreamTypeOK, Answered, ToldClient, Reached, AsAsked, RelayEnds, choices, checks, Exit
  <2> QED
    BY <2>1, <2>2 DEF StreamInv
<1>7. CASE ChunksEnd
  <2>1. StreamTypeOK'
    <3> QED
      BY <1>7 DEF StreamInv, StreamTypeOK, ChunksEnd, choices, checks, Dest
  <2>2. Answered' /\ ToldClient'
    BY <1>7 DEF StreamInv, StreamTypeOK, Answered, ToldClient, Reached, AsAsked, ChunksEnd, choices, checks
  <2> QED
    BY <2>1, <2>2 DEF StreamInv
<1>8. CASE TargetGone
  <2>1. StreamTypeOK'
    <3> QED
      BY <1>8 DEF StreamInv, StreamTypeOK, TargetGone, choices, checks, Dest
  <2>2. Answered' /\ ToldClient'
    BY <1>8 DEF StreamInv, StreamTypeOK, Answered, ToldClient, Reached, AsAsked, TargetGone, choices, checks
  <2> QED
    BY <2>1, <2>2 DEF StreamInv
<1> QED
  BY <1>1, <1>2, <1>3, <1>4, <1>5, <1>6, <1>7, <1>8

\* The checks: what is denied is not permitted, and what passes is.
LEMMA CheckKeeps == ASSUME StreamInv, Check PROVE StreamInv'
<1>1. CASE verdict' = "bad" /\ UNCHANGED permitted /\ Fail("bad") /\ Exit
  <2>1. StreamTypeOK'
    <3>1. counted' \in BOOLEAN
      BY <1>1 DEF Exit
    <3> QED
      BY <1>1, <3>1 DEF StreamInv, StreamTypeOK, Check, Fail, Exit, choices, Handler, Code, Verdict
  <2>2. Answered' /\ ToldClient'
    BY <1>1 DEF StreamInv, StreamTypeOK, Answered, ToldClient, Reached, AsAsked, Check, Fail, Exit,
                choices
  <2> QED
    BY <2>1, <2>2 DEF StreamInv
<1>2. ASSUME NEW p \in Policy, NEW h \in Address \cup Name,
             verdict' = IF Allows(p, h) THEN "ok" ELSE "denied",
             permitted' = Permitted(p, h),
             \/ verdict' = "ok" /\ server' = "dial" /\ UNCHANGED <<status, counted>>
             \/ verdict' = "denied" /\ Fail("denied") /\ Exit
      PROVE  StreamInv'
  <2>1. permitted' <=> verdict' = "ok"
    BY <1>2, AllowsIsPermitted
  <2>2. permitted' \in BOOLEAN
    BY <1>2 DEF Permitted
  <2>3. StreamTypeOK'
    <3>1. counted' \in BOOLEAN
      BY <1>2 DEF StreamInv, StreamTypeOK, Exit
    <3>2. /\ sort' = sort /\ coded' = coded /\ strategy' = strategy /\ addrs' = addrs
          /\ socks5' = socks5 /\ family' = family /\ client' = client /\ why' = why
          /\ near' = near /\ dest' = dest /\ chunks' = chunks
      BY DEF Check, choices
    <3>3. verdict' \in {"ok", "denied"} /\ server' \in {"dial", "done"}
      BY <1>2 DEF Exit
    <3>4. status' \in {status, "denied", "error"}
      BY <1>2 DEF Fail
    <3> QED
      BY <2>2, <3>1, <3>2, <3>3, <3>4 DEF StreamInv, StreamTypeOK, Verdict, Handler, Code
  <2>4. Answered' /\ ToldClient'
    BY <1>2, <2>1 DEF StreamInv, StreamTypeOK, Answered, ToldClient, Reached, AsAsked, Check, Fail,
                      Exit, choices
  <2> QED
    BY <2>3, <2>4 DEF StreamInv
<1> QED
  BY <1>1, <1>2 DEF Check

\* The dial: the target is reached over a family that the strategy selects.
LEMMA DialKeeps == ASSUME StreamInv, DialTarget PROVE StreamInv'
<1>1. CASE Fail("dial") /\ Exit /\ UNCHANGED <<dest, family>>
  <2>1. StreamTypeOK'
    <3>1. counted' \in BOOLEAN
      BY <1>1 DEF Exit
    <3> QED
      BY <1>1, <3>1 DEF StreamInv, StreamTypeOK, DialTarget, Fail, Exit, choices, Handler, Code, Dest
  <2>2. Answered' /\ ToldClient'
    BY <1>1 DEF StreamInv, StreamTypeOK, Answered, ToldClient, Reached, AsAsked, DialTarget, Fail,
                Exit, choices
  <2> QED
    BY <2>1, <2>2 DEF StreamInv
<1>2. ASSUME family' \in IF socks5 THEN {"proxy"} ELSE Selected(strategy, addrs) \cup {"literal"},
             dest' = "open", server' = "status", UNCHANGED <<status, counted>>
      PROVE  StreamInv'
  <2>0. /\ server = "dial" /\ addrs \subseteq Family
        /\ UNCHANGED <<choices, verdict, permitted, client, why, near, chunks>>
    BY DEF DialTarget, StreamInv, StreamTypeOK, Handler, Code, Dest
  <2>1. /\ family' \in Family \cup {"proxy", "literal"}
        /\ strategy = "v4_only" => family' # "v6"
        /\ strategy = "v6_first" /\ "v6" \in addrs => family' # "v4"
    <3>1. strategy \in Strategy
      BY <2>0 DEF StreamInv, StreamTypeOK, Answered
    <3>2. CASE family' \in Selected(strategy, addrs)
      BY <2>0, <3>1, <3>2, SelectedAsAsked
    <3>3. CASE family' \in {"proxy", "literal"}
      BY <3>3
    <3> QED
      BY <1>2, <3>2, <3>3
  <2>2. StreamTypeOK'
    BY <1>2, <2>0, <2>1 DEF StreamInv, StreamTypeOK, choices, Dest, Handler
  <2>3. AsAsked'
    BY <2>0, <2>1 DEF AsAsked, choices
  <2>4. Answered' /\ ToldClient'
    BY <1>2, <2>0, <2>3 DEF StreamInv, Answered, ToldClient, Reached, choices
  <2> QED
    BY <2>2, <2>4 DEF StreamInv
<1> QED
  BY <1>1, <1>2 DEF DialTarget

\* What the client is told of a stream is so.
THEOREM StreamAnswers == StreamSpec => []AnswerTruthful
<1>1. StreamInv /\ [StreamNext]_streamVars => StreamInv'
  <2> SUFFICES ASSUME StreamInv, [StreamNext]_streamVars PROVE StreamInv'
    OBVIOUS
  <2>1. CASE UNCHANGED streamVars
    <3>1. StreamTypeOK'
      BY <2>1 DEF streamVars, StreamInv, StreamTypeOK
    <3>2. Answered' /\ ToldClient'
      BY <2>1 DEF streamVars, StreamInv, Answered, ToldClient, Reached, AsAsked
    <3> QED
      BY <3>1, <3>2 DEF StreamInv
  <2> QED
    BY <2>1, ClientKeeps, ServerKeeps, CheckKeeps, DialKeeps DEF StreamNext, ServerStep
<1>2. StreamInv => AnswerTruthful
  BY DEF StreamInv, Answered, ToldClient, Reached, AsAsked, AnswerTruthful
<1> QED
  BY <1>1, <1>2, StreamInitially, PTL DEF StreamSpec
=============================================================================
