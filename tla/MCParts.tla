------------------------------ MODULE MCParts -------------------------------
(***************************************************************************)
(* One instance of every part that runs beside the session registry, the   *)
(* handshake, the cipher stream and the engine.  The parts share no state, *)
(* so a behaviour is one of one part, named by `part', while the others    *)
(* rest in an initial state of theirs.                                     *)
(***************************************************************************)
EXTENDS UDPAssociation, DNSCache, LocalProxy, RulesWatch, GeoUpdate, Datagram, StreamOpen, LogRing, Router, Upstream

CONSTANTS t1, t2, c1, c2, u1, u2

MCTarget == {t1, t2}
MCCaller == {c1, c2}
MCUpdater == {u1, u2}
MCLength == <<1, 2, 4, 3>>
MCMalformed == {3}
MCAddress == {<<"ip1">>, <<"ip2">>}
MCName == {<<"x">>, <<"a", "x">>}
MCPatternName == {<<"x">>}
MCHost == {<<"a", "x">>, <<"b">>}
MCAddr == {<<"lan">>, <<"listed">>, directDNSHost, tunnelDNSHost}
MCSite == {<<"b">>}
MCLan == {<<"lan">>}
MCGeoIPcn == {directDNSHost}
MCbuiltinCN == {directDNSHost, <<"listed">>}
MCDomainValue == <<"x">>
MCRuleList == {<<>>} \cup {<<r>> : r \in Rule} \cup (Rule \X Rule)

VARIABLE part

partVars == <<udpVars, dnsVars, proxyVars, watchVars, geoVars,
              datagramVars, streamVars, logVars, routeVars, upstreamVars>>
allVars == <<part, partVars>>

\* A part that rests does so in one initial state only.
PartsInit ==
    /\ part \in {"udp", "dns", "proxy", "rules", "geo", "datagram", "stream",
                 "log", "route", "upstream"}
    /\ UDPInit /\ DNSInit /\ RulesInit /\ DatagramInit
    /\ ProxyInit /\ (part # "proxy" => kind = "tcp")
    /\ GeoInit /\ (part # "geo" => disk = [d \in Db |-> 0] /\ unread = {})
    /\ StreamInit
    /\ part # "stream" => sort = "ping" /\ ~coded /\ strategy = "default" /\ addrs = {} /\ ~socks5
    /\ LogInit /\ (part # "log" => limit = 1 /\ cursor = 0)
    /\ RouterInit /\ (part # "route" => about = tunnelDNSHost)
    /\ UpstreamInit /\ (part # "upstream" => mode = "front")

UDP == part = "udp" /\ UDPNext
            /\ UNCHANGED <<part, dnsVars, proxyVars, watchVars, geoVars,
                           datagramVars, streamVars, logVars, routeVars, upstreamVars>>
DNS == part = "dns" /\ DNSNext
            /\ UNCHANGED <<part, udpVars, proxyVars, watchVars, geoVars,
                           datagramVars, streamVars, logVars, routeVars, upstreamVars>>
Proxy == part = "proxy" /\ ProxyNext
            /\ UNCHANGED <<part, udpVars, dnsVars, watchVars, geoVars,
                           datagramVars, streamVars, logVars, routeVars, upstreamVars>>
Rules == part = "rules" /\ RulesNext
            /\ UNCHANGED <<part, udpVars, dnsVars, proxyVars, geoVars,
                           datagramVars, streamVars, logVars, routeVars, upstreamVars>>
Geo == part = "geo" /\ GeoNext
            /\ UNCHANGED <<part, udpVars, dnsVars, proxyVars, watchVars,
                           datagramVars, streamVars, logVars, routeVars, upstreamVars>>
Datagrams == part = "datagram" /\ DatagramNext
            /\ UNCHANGED <<part, udpVars, dnsVars, proxyVars, watchVars,
                           geoVars, streamVars, logVars, routeVars, upstreamVars>>
Stream == part = "stream" /\ StreamNext
            /\ UNCHANGED <<part, udpVars, dnsVars, proxyVars, watchVars,
                           geoVars, datagramVars, logVars, routeVars, upstreamVars>>
Log == part = "log" /\ LogNext
            /\ UNCHANGED <<part, udpVars, dnsVars, proxyVars, watchVars,
                           geoVars, datagramVars, streamVars, routeVars, upstreamVars>>

Routing == part = "route" /\ RouterNext
            /\ UNCHANGED <<part, udpVars, dnsVars, proxyVars, watchVars,
                           geoVars, datagramVars, streamVars, logVars, upstreamVars>>
Lead == part = "upstream" /\ UpstreamNext
            /\ UNCHANGED <<part, udpVars, dnsVars, proxyVars, watchVars,
                           geoVars, datagramVars, streamVars, logVars, routeVars>>

PartsNext ==
    \/ UDP \/ DNS \/ Proxy \/ Rules \/ Geo \/ Datagrams \/ Stream \/ Log
    \/ Routing \/ Lead

\* The fairness of each part, for the behaviours in which it runs.  Goroutines run on,
\* except in a call that may wait for ever (...Waits, Stalled).
PartsFairness ==
    /\ WF_udpVars(part = "udp" /\ ~SenderWaits /\ SenderStep)
    /\ WF_udpVars(part = "udp" /\ ~CloseWaits /\ FinishClose)
    /\ WF_udpVars(part = "udp" /\ ControlNotices)
    /\ \A r \in Res : WF_udpVars(part = "udp" /\ ReaderNotices(r))
    /\ \A c \in Caller : WF_dnsVars(part = "dns" /\ (LookupOK(c) \/ LookupFails(c)))
    /\ WF_proxyVars(part = "proxy" /\ ~HandlerWaits /\ HandlerStep)
    /\ WF_proxyVars(part = "proxy" /\ ~CopyUpWaits /\ CopyStep)
    /\ WF_proxyVars(part = "proxy" /\ CopyDownEnds)
    /\ WF_proxyVars(part = "proxy" /\ ~CopyDownWaits /\ CopyDownWrites)
    /\ WF_watchVars(part = "rules" /\ WatcherStep) /\ WF_watchVars(part = "rules" /\ ReloadApplies)
    /\ WF_streamVars(part = "stream" /\ ~Stalled /\ ServerStep) /\ WF_streamVars(part = "stream" /\ RelayNotices)
    /\ WF_streamVars(part = "stream" /\ ChunksEnd)

PartsSpec == PartsInit /\ [][PartsNext]_allVars /\ PartsFairness

\* The variables of every part have their types.
TypeOK ==
    CASE part = "udp" -> UDPTypeOK
      [] part = "dns" -> DNSTypeOK
      [] part = "proxy" -> ProxyTypeOK
      [] part = "rules" -> RulesTypeOK
      [] part = "geo" -> GeoTypeOK
      [] part = "datagram" -> DatagramTypeOK
      [] part = "stream" -> StreamTypeOK
      [] part = "log" -> LogTypeOK
      [] part = "route" -> RouterTypeOK
      [] part = "upstream" -> UpstreamTypeOK
=============================================================================
