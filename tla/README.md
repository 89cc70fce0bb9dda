# x-tunnel in TLA+

x-tunnel carries TCP and UDP through authenticated, encrypted streams that are
multiplexed over WebSocket (smux) or QUIC connections. A client keeps a pool of
connections ("channels") to a server; local SOCKS5, HTTP and TCP listeners open
streams on them. This directory holds TLA+ models of its concurrent parts, TLC
runs on small instances and TLAPS proofs for all instances.

All paths below are relative to the root of the repository; `server.go:184` is
`internal/app/server.go`, line 184, where no other directory is named.

## Inventory

| Part | State | Operations | What is hard | Module |
|---|---|---|---|---|
| Session registry (`internal/app/server.go`) | registry, channel maps, stream counters, handler of each connection | handshake, add/remove channel, open/end/reject stream | two locks with gaps in between; replaced channels; limits | `ServerSessions` |
| Channel handshake (`server.go`, `tai64n_cache.go`, `client.go`) | nonce cache, TAI64N cache, clocks | make, read, check, cache, negotiate | duplicated and delayed frames, skewed clocks, stale `now`, eviction | `Handshake` |
| Cipher stream (`internal/wire/cipher_stream.go`) | counters, coalescing buffer, timers, window | Write, timer callback, Close, Read | late callbacks, failed and torn writes, rekeying, duplicates | `CipherStream`, `ReplayWindow`, `ReliableStream` |
| Engine (`internal/app/engine.go`) | lifecycle flags, listeners, pool, route engine, done | Start, abortStart, Close, finishWhenDone, reportFatal | Close while Start runs, failing starts, two Closes | `Engine` |
| Client pool (`client.go`) | slots, sessions, keys, RTTs, the ECH lock | dialAndServe, probes, cover traffic, openBestStream | what is read under a lock and used after it | `ClientPool` |
| Selector, endpoint pool (`internal/transport`) | failure counts, cooldowns, cursor | select, record | goroutines that record late, fallback | `EndpointPool` |
| UDP association (`local_socks5.go`) | stream, direct socket, closed flag | send, sendDirect, Close, read loops | Close during an open | `UDPAssociation` |
| Local listeners (`local_socks5.go`, `local_http.go`, `route.go`) | read-ahead, upstream, two copies | handlers from accept to close | bytes taken ahead, one side ending | `LocalProxy` |
| Stream open (`client.go`, `server.go`, `policy.go`) | both ends of a stream, its target | open, check, dial, status, relay | either end gives up while the other is busy | `StreamOpen` |
| Upstream proxies (`upstream_socks5.go`, `front_proxy.go`) | position in the proxy's answers | CONNECT, ASSOCIATE, HTTP CONNECT | variable-length answers, read-ahead, failures in between | `Upstream` |
| DNS cache (`dnscache.go`) | entries, pending resolution, good address | Resolve, MarkGood, ClearGood, NextCandidate | a leader that is overtaken or fails | `DNSCache` |
| Rules (`internal/route/engine.go`, `rules.go`) | rules in memory, file | load, watch, Reload | a file that changes between two reads | `RulesWatch` |
| GEO databases (`download.go`, `engine.go`, `route.go`) | two files, memory, mirrors | update, retry, load | overlapping and half-failed updates | `GeoUpdate` |
| Routing (`matcher.go`, `route.go`, `dnssniff.go`) | map from addresses to names | Match, observe, decide | names that change, missing databases, closing | `Router` |
| Datagrams (`datagram.go`, `server.go`) | reassembly entries, relay | fragment, add, expire, relay | loss, duplicates, reused packet IDs | `Datagram` |
| Log ring (`logring.go`, `control.go`) | ring, cursors | add, read since, follow | a cursor that falls behind | `LogRing` |

## Modules

### ServerSessions

One handler goroutine per transport connection. `pc` says where it is:
`preauth` → `authed` → `keying` → `superseding` → `attaching` → `accepting` →
`serving` (or `rejecting`) → `removing` → `deregistering` → `gone`, with the exits
`rejected` and `failed`. A step is one critical section of `serverSessionsMu` or
`session.mu`, or the code between two of them: `removeChannel` is two steps,
`RemoveChannel` and `DeregisterSession`, and `addChannel` is `AddChannel` (under
the lock) and `CloseReplaced` (after it). A `ClientSession` object is named by the
connection that created it, so that an object that has left the registry but is
still held by handlers keeps its identity. Streams are identities; a stream that
outlives its channel still holds its slot until `EndStream`, which nothing forces: its
handler may be waiting for a target or a proxy.

Checked: `ClientLimit`, `StreamAccounting`, `EmptySessionAccounted`,
`SupersededEnds`, `RemovesOnlyOwnChannel`, `LostConnectionDrains` (the handler of a lost
connection returns and its channel leaves the session; its streams may stay).
`EmptySessionAccounted` lists how a session without channels comes about, the failed key
derivation that leaves it behind included (server.go:845). `SupersededEnds` is
about WebSocket channels: a QUIC channel that is replaced before its handler has
assigned `transport` has nothing `addChannel` could close (server.go:173-180).

### Handshake

What the server decides about a ChannelInit, from reading it to the capability
check. Clients make frames with the stamps `nextClientTAI64N` gives; any handler
may be given any frame, any number of times, at any later moment. `at` is the
handler's single reading of the clock. Cryptography is not computed: a frame's
`flaw` says which check it cannot pass; a public key of the wrong length is one that
fails where the proof of the key is checked. The nonce cache is the set of its entries,
numbered in the order in which they were stored (the `order` slice of the code);
the TAI64N cache is the sequence of its list, most recently used first. Clocks start at
`Start`; `ClockAssumption` says that none shows a time before 1970 and that a client does
not make a frame per nanosecond.

Checked: `NonceAtMostOnce` (with the three exact circumstances under which a frame
can pass twice), `ReplayIsReal`, `ParallelHandshakesPass`, `OnlyAuthenticCached` (which
also bounds the two caches).

### CipherStream, ReplayWindow, ReliableStream

One direction of a `V3CipherStream`, both ends, with an in-order carrier of bounded
capacity between them. `holder` is the owner of `writeMu`, which is kept while a
record waits for room in the carrier. Byte number *i* is the *i*-th byte handed to
Write, so that loss, duplication and reordering are visible in `got`. The carrier
may fail, deliver a record twice, and, where a deadline is set on the stream as
during an open, time out a write with none, part or all of the record sent. After a
torn record nothing that follows can be opened. `ReplayWindow` is the bitmap of
`checkAndAdd` as operators. `ReliableStream` is what a stream promises: the reader
has a prefix of what was written, unless a write has timed out, when the writer
has been given an error and the promise is void. The writer's refusal at the counter
2^64 − 1 is out of reach of any stream and left out.

Checked: `NonceUsedOnce`, `NothingRefusedInVain`, `BufferedHasTimer`,
`IsReliableStream` (the refinement), `WrittenArrives`.

### Engine

Start runs step by step in one goroutine (`starter`); calls of Close (`closer`), the
goroutine `finishWhenDone`, listeners and dial goroutines run beside it. `done`
counts how often `e.done` has been closed. A failing HTTP server finishes its
listener first and calls `reportFatal` afterwards (`fatal`).

Checked: `TypeOK` (which includes that `e.done` is closed at most once),
`DoneMeansStopped`, `CloseStopsAll`, and `StopEnds`, which excepts a Start that is abandoned
(`engine.go:109`): nothing closes `e.done` then.

### ClientPool, EndpointPool

`ClientPool` has one dial goroutine per slot (`pc`), which dials, negotiates, waits for
the first probe, publishes its session in the slot and serves it until it ends; a
prober and the cover traffic of each session; and openers, which choose a slot under
`wsConnsMu` and open the stream after the unlock. Sessions are numbered, the keys of
session *n* are called *n*, and `mixed` records every stream opened with the keys of
another session. The ECH lookup holds a lock for as long as the DNS server does
not answer.

`EndpointPool` is the rotation of the addresses of `-ip` and the selector's memory of
a host that refuses QUIC, with the goroutines that use both. Clocks are ages since
the last failure. `skipped` counts how often an endpoint that stayed available was
passed over, `burst` the failures of QUIC since its last success or cooldown.

Checked: `StreamKeysMatch`, `RttOfCurrentSession`, and `DialersReturn`, which excepts the
goroutine in the ECH lookup and those that wait for its lock; `NoEndpointStarves`,
`FailuresPerCooldown`. An endpoint whose cooldown has passed may be handed to several
dialers at once; no property refuses that.

### UDPAssociation

One association: the sender, the readers of replies, the watcher of the control
connection, and Close, which any of them may call. Streams and sockets are opened and
closed outside `a.mu`. `send` and `sendDirect` store what they have opened without
asking again whether the association was closed meanwhile; `late` holds what was
stored that way. `OpenIsAccounted` says this is all that can stay open, and at
most one. A write to the stream is two steps, `BeginWrite` and `WriteStream`, since it may
last and the stream's Close waits for it. `AssociationEnds`: after Close every goroutine
ends, except the reader of such a one, unless the sender (`SenderWaits`) or Close
(`CloseWaits`) waits for ever for a carrier that takes no bytes.

### LocalProxy

One accepted connection of any listener, from the request to the end of the relay.
The client's bytes are numbered, so that a byte taken ahead by a `bufio.Reader` and
then lost or overtaken shows; `FromStart` says of what was passed on that it is the
first of those numbers. Each direction of the relay reads and writes in turn
(`CopyUpReads`, `CopyUpWrites`, `CopyDownReads`, `CopyDownWrites`). Checked: `BytesInOrder`;
`HandlerEnds`, unless a call without a deadline waits for ever: of the handler
(`HandlerWaits`), towards upstream (`CopyUpWaits`) or towards a client that neither reads
nor leaves (`CopyDownWaits`); and in a run of its own `PlainBodyForwarded`.

### StreamOpen

One stream, both ends: the client's open with its timeout, the server's header, limit
reply, echo, policy check, dial by address strategy or through a SOCKS5 proxy, status
and relay. `Allows` is `targetPolicy.Allows`; addresses, names and patterns are constants,
a policy any four lists of them. Checked: `AnswerTruthful`
(what the client is told is so) and `TargetReleased` (a client that has gone away leaves
no target open and no slot taken).

### Upstream

The stream that comes from a proxy is a sequence of positions: answers up to
`answered`, the target's bytes beyond. A reader that takes too few or too many
bytes of an answer, such as one that forgets the port after a bound address,
hands the wrong first byte on. Checked: `UpstreamHandedOver`, which also says that a
failed exchange leaves nothing open.

### Router

The decision for each target: `Match` over rules and databases that are chosen anew for
every decision, for they may be reloaded or missing at any time (names, addresses, database
categories and rule lists are constants); the map from addresses to names, with its expiry;
the rewriting of DNS queries to a resolver (`source` says whose address is being routed).
`OnlyByRule`: traffic leaves the tunnel, or is refused, only because a rule or the
`default:` line says so, and a name counts only while an answer that gave it is fresh. It is
what `decideForTarget` says of itself (`route.go:183-187`). The comments of `send` and of the
default rules want a query without a rule to go directly; `OnlyByRule` leaves such a query
open, and `UnmatchedQueryGoesDirect`, in a run of its own, states it.

### RulesWatch, GeoUpdate

`RulesWatch` has every separate read of the rules file as a step, so that the file can
change, go away or come back between any two. `RulesCatchUp`: memory comes to be what the
file says, with the three exceptions its comment lists, if the file is not taken away
again and again. `GeoUpdate` has the two files, the updates at startup
and on request, each file replaced before memory is loaded; `LoadGeo` is `loadGeoDBs`, which
sets a database to nil if it cannot be read (`unread`). `MemoryIsDisk`: when no update is
going on, a database in memory is the one on disk, or nil if it could not be read when it
was last loaded. The exception is geosite after a call that failed between the two
files.

### DNSCache

The entry of one host with its leader and waiters. `GoodStays`: no lookup hides an
address that `MarkGood` recorded, with the one exception of an overtaken leader that
fails. `WaitersAnswered`: nobody waits for ever, each wait by itself; a caller whose
leaders keep failing may wait again.

### Datagram, LogRing

`Datagram` has fragmentation, a network that loses, repeats and reorders, reassembly
with expiry, and the relay on the server. `DeliveredIntact` names the two circumstances
under which a packet is not what was sent: more than `MaxFrags` fragments, when the end is
missing, and a packet identifier that two packets share, when fragments of both may be
put together, but never fragments of different identifiers.
`LogRing` has the ring and its followers. `TailUnbroken`: what a follower is sent is an
unbroken run up to the newest entry.
`Picking` has the operator both take some elements of a sequence with.

## Runs

| Run | Instance | Shows |
|---|---|---|
| `server_sessions` | 3 connections (2 WebSocket, 1 QUIC), 2 clients, channel IDs 0 (fresh) and 1, 2 streams, max-clients 1, max-streams 1 | the invariants and `RemovesOnlyOwnChannel` |
| `server_drain` | 2 connections, with fairness of the handlers | `LostConnectionDrains` |
| `server_stream_limit` | as the first | **violated**: `StreamLimitPerClient` |
| `handshake` | 3 handlers, 2 frames, 2 clients, skew 1, caches of 1 entry, 2 ticks | the invariants |
| `handshake_tai` | the same | **violated**: `TaiIsMaximum` |
| `cipher_stream` | records of 2 bytes, threshold 2, rekey after 2 records, window 2, carrier of 1 record, 2 timers, 3 bytes, 1 duplicate, deadline set | the invariants, the refinement and `WrittenArrives` |
| `cipher_close` | no deadline, no duplicates | **violated**: `CloseInterruptsWrite` |
| `engine_close` | an early and a late listener, 2 dial goroutines, 2 Closes, both roles | **violated**: `CloseWaitsForGoroutines` |
| `client` | the same engine; 2 slots, 1 opener, 2 sessions, 2 retries; 3 endpoints, threshold 2, cooldown 0, host cooldown 1 | the properties of `Engine`, `ClientPool` and `EndpointPool` |
| `parts` | see below | the properties of the ten smaller modules |
| `http_body` | 3 bytes, a body of 2 | **violated**: `PlainBodyForwarded` |
| `query_fallback` | as `parts` | **violated**: `UnmatchedQueryGoesDirect` |

`MCParts` and `MCClientPool` put several components that share no variable into one
run. The variable `part` (or `side`) picks one at the start; it moves, the others rest in
their initial state. So the state space is the sum of those of the components, not
their product, and each is explored in full. `parts` uses: for `UDPAssociation`
4 opens and 2 targets; `DNSCache` 2 callers, 4 entries, a lifetime of 2 ticks;
`LocalProxy` 3 bytes, a body of 2; `RulesWatch` 4 edits, of which the third does not parse;
`GeoUpdate` 2 updaters, 2 attempts, 2 offers by the mirrors; `Datagram` packets of 1, 2, 4 and 3
units, 3 fragments at most, 2 packet identifiers, 1 queued packet; `LogRing` a ring of
3 and 7 entries; `Router` a map lifetime of 1; `Upstream` fixed parts of 2 bytes, names of 1,
2 bytes of data; `StreamOpen` has one stream and only finite choices.

Why the bounds are enough for the cases that matter. Three connections make one
that leaves, one that replaces or joins, and a third that meets what they left
behind; with limits of 1 every limit is reached. Two frames and three handlers
make a duplicate and a frame that evicts or expires the entry in between. Three
bytes at two per record make coalesced, threshold-sized and flushed records, a
change of keys between the second and the third record, and one record more than
the window holds. Two timers are a callback that waits for the lock and the timer
armed meanwhile. Two slots and two sessions make a slot that is given to a second session
while an opener, a prober or the cover traffic still holds the first. Three endpoints
make the cursor pass one that cools down and meet one that has recovered. Four opens make
an association change between stream and socket and back while Close is under way.
Four entries make two leaders, the second of which replaces the first. A packet of four
units is longer than three fragments, and the third packet uses the identifier of the
first. Seven log entries wrap a ring of three twice. `MaxTime`, `MaxFrames`, `MaxStall`,
`MaxBytes`, `MaxReplays`, `Timer`, `MaxSess`, `MaxOpen`, `MaxEntries`, `MaxEdits`,
`MaxOffer`, `MaxSeq` and `MaxData` are bounds of the models; the other constants are
parameters of the code. Deadlock is not checked: connections, handlers, streams,
associations and engines all end for good, and these systems may stop.

The six violated properties quote a document or comment of the repository:

- `StreamLimitPerClient`: `docs/deployment.md:69` promises one stream count per
  client session. `removeChannel` tests for emptiness and deregisters in two
  critical sections; a connection that joins in between stays in the old object,
  the next gets a new one, and each counts its own streams.
- `TaiIsMaximum`: `docs/protocol.md:344` asks for a strictly greater TAI64N; the
  code, for the sake of parallel handshakes, checks freshness only and accepts a stamp
  that is equal to or below the recorded one. Repeats are left to the nonce cache.
- `CloseInterruptsWrite`: `client.go:706` expects Close to interrupt the other
  direction; Close waits for `writeMu`, which a blocked Write holds.
- `CloseWaitsForGoroutines`: `docs/core-gui-refactor.md:199` says Close waits for
  goroutines; `e.done` does not cover the dial goroutines, so a second Close, or
  one that reads `e.echPool` before Start sets it, returns nil while they run.
- `PlainBodyForwarded`: the comment at `route.go:269-270` says a plain HTTP request is
  written upstream with the client's own stream as its body; `local_http.go:91` has
  emptied the reader before, so the part of a body that arrived with the head is
  not forwarded.
- `UnmatchedQueryGoesDirect`: `local_socks5.go:528-529` says a DNS query is resolved
  directly at 223.5.5.5 also if no rule matches or the databases are missing, and the head
  of the rules (`internal/route/rules.go:67`) that what no rule matches goes directly. `send`
  gives the query that address and then asks `decideForTarget`, whose answer for an address
  without a rule is the tunnel (`route.go:183-187`).

### Fairness

- `ServerSessions`: a handler that can run does. Each blocking call of the handshake has a
  deadline, and what the handler waits for after it fails once the transport is gone. The
  handlers of streams are not assumed to return.
- `CipherStream`: the holder of `writeMu` runs on unless the carrier is full; armed
  timers fire; a goroutine that waits for `writeMu` gets it although others take
  it meanwhile (strong fairness: `sync.Mutex` does not starve waiters).
  `WrittenArrives` also needs a reader that reads (`ReadSpec`); the run about Close
  does not assume one.
- `Engine`: goroutines run, and what waits for the context notices that it is done.
  Nobody has to call Start or Close, no start has to fail, no timeout has to pass.
- `ClientPool`: dial goroutines and probers run, except in the ECH lookup, which a
  DNS server may hold up for ever; what waits for the context notices it.
- `UDPAssociation`: the sender and Close run, except while they wait for the carrier, in
  openUDPStream, writeChunk and the stream's Close, which have no deadline; a read on
  something that is closed returns.
- `LocalProxy`: the handler and the copies run, except in the calls without a deadline
  (`HandlerWaits`, `CopyUpWaits`, `CopyDownWaits`); nothing makes the target send data.
- `DNSCache`: a lookup ends, well or not, for it has a timeout. `RulesWatch`: the ticker
  ticks, and a Reload that has begun goes on.
- `StreamOpen`: the server's handler runs, except while a SOCKS5 proxy does not answer,
  for that exchange has no deadline; a relay notices that a side has ended. The target
  is taken to read what is written to it.

## Proofs

Every safety invariant and every action property that a passing run checks is also
a theorem, for all values of the constants, except `TypeOK` of `MCParts`, which joins the
type invariants of components that share no run otherwise. Each theorem rests only on
the named assumptions of its component's module (`ServerAssumption`,
`HandshakeAssumption`, ...), which TLC evaluates on the instances of the runs. Eight modules
hold the proofs:

| Module | About |
|---|---|
| `ServerProofs` | the session registry and the connections through a proxy: `ServerSessions`, `Upstream` |
| `HandshakeProofs` | the channel handshake |
| `CipherStreamProofs` | the cipher stream and its refinement |
| `EngineProofs` | the engine and what it keeps: `Engine`, `GeoUpdate`, `DNSCache` |
| `PoolProofs` | the client's connections: `ClientPool`, `EndpointPool`, `UDPAssociation` |
| `PolicyProofs` | where traffic may go: `Router`, `StreamOpen` |
| `DeliveryProofs` | what arrives, in which order: `LocalProxy`, `Datagram`, `LogRing` |
| `RunTheorems` | lemmas on runs of consecutive numbers, on `Picked`, and induction for a set of naturals |

### Session registry, upstream proxies

`TypeOK`, `ClientLimit`, `StreamAccounting`, `EmptySessionAccounted`, `SupersededEnds` and
`RemovesOnlyOwnChannel`, for all finite sets of connections, clients and streams and all
limits. The inductive invariant `Shape` adds to `TypeOK` what the
other facts stand on: a handler past the lookup holds a session (`SessionHeld`), a
session maps only channels of handlers that hold it (`ChannelsOwned`), a session in
the registry belongs to the client it is registered for (`SessionOfClient`), and a
stream is served by a handler that has published its channel (`StreamsServed`). On
top of `Shape`, `StreamAccounting` is inductive once opening and ending a stream
are shown to change the cardinality of the session's streams by one; `ClientLimit`
because lookup and insertion are one step; `EmptySessionAccounted` because whoever
empties a session goes on to deregister it. `SupersededEnds` needs the strengthening
`Superseded`, which holds from the moment the channel is published, one phase earlier
than the property speaks of. The action property follows from `Shape` and a case split
on the steps.

`UpstreamHandedOver`, for answers and names of any length: `UpstreamInv` says where in the
stream the reader stands at each stage (`Position`), what is open (`Held`), and that what was
read is in order (`InOrder`).

### Handshake

`NonceAtMostOnce`, `ReplayIsReal`, `ParallelHandshakesPass` and `OnlyAuthenticCached`, for
any clients, connections, clock differences, skew and capacities. `HandshakeInv` relates the
nonce cache to the handlers that went through it. Every entry is what one of them made of
its frame and its reading of the clock (`Stored`), and whatever one of them stored is still
there, or some handler used the cache with a reading of the clock that expired it, or at
least `NonceMax` others stored after it (`Gone`). The last of these is a counting argument:
the entry that is evicted is the oldest of more than `NonceMax` (`EvictedIsOld`). A second
pass of the same frame then finds the entry gone, and because the frame is still timely for
this handler, the cause is one of the three the property lists. `Stamped` bounds the fraction
of a second in a TAI64N value by the number of frames made, which is why a timely frame fails
that check only at the edge of the window.

### Cipher stream

`NonceUsedOnce` rests on `CountersUsed`: every sealed record has a counter up to
`writeCounter`, and every attempt to send begins with `Seal`. `BufferedHasTimer` rests on
`FieldPending`: a timer the field points to is pending, or the holder of the lock will clear
the field; and on `BufferUsed`: only a coalescing stream has a buffer.
`NothingRefusedInVain` rests on `RefusedInv`: the records in the carrier have counters that
were used and the key the reader expects, unless one was torn (`Good`), and without
duplicates they rise beyond the greatest counter read (`Rising`).

`IsReliableStream`, the refinement, needs that the bytes that were written are tiled by the
records: there are ends E with the record under counter *c* holding the bytes after
E[*c* − 1] up to E[*c*], the reader having taken the bytes up to E[`maxSeq`] and, while the
carrier works, what is pending beginning at E[`writeCounter`] (`Tiled`). In the carrier a
record was accepted before, is the next to be accepted, or has its predecessor in front of
it (`Chained`), and the window has seen every counter it covers (`AllSeen`), so a duplicate
is refused and the next record accepted (`NextAccepted`). Under
this invariant `TilesNext` shows that every step is a write, a read, the loss of the promise
at a timeout, or a stutter of `ReliableStream`.

### Engine, GEO databases, DNS cache

`TypeOK` (so `e.done` is closed at most once), `DoneMeansStopped` and `CloseStopsAll`, for
all sets of listeners, dial goroutines and calls of Close. `EngineInv` says who may still
close `e.done` (`DoneOwned`: before Start the first Close, later either abortStart or
finishWhenDone), that every bound port is tracked or about to be and a redirected log
has someone to restore it (`Tracked`), and what a Close of a running engine has taken
and waited for (`Taken`).

`MemoryIsDisk`, for any number of updaters, attempts and offers: `GeoInv` says of each database
that it is nil if it could not be read, and otherwise the one on disk, or some update will
still load it (`LoadPending`), or, only for geosite, a call has failed between the files.
The file that is replaced last needs no such exception, for after it nothing fails.

The action property `GoodStays`, for any number of callers and entries: `DNSInv` says that
every leader works on a pending entry of its own and that such an entry has no expiry yet. So
the entry a leader completes or deletes was not visible before, unless the map has gone on
to another one and the leader was overtaken.

### Client pool, endpoint pool, UDP association

`StreamKeysMatch` and `RttOfCurrentSession`, for any number of slots, openers, sessions and
retries. `PoolInv` says what each kind of goroutine may hold: a slot has the session and the
keys of its dialer, nobody else's, until that session is closed (`SlotShape`, `OwnSession`,
`TryShape`); a prober runs only while dialAndServe waits for it, and on its session
(`ProberShape`); cover traffic of a session that is alive finds it in its slot
(`CoverShape`); an opener has picked a session with the keys that belong to it
(`OpenerShape`).

`NoEndpointStarves` and `FailuresPerCooldown`, for any number of endpoints and dialers. For
the first, `RotationInv` adds the distance from the cursor to an endpoint to the times it was
passed over: the sum stays below *N*. For the second, `HostInv` counts the goroutines that
are dialling QUIC: failures recorded and failures still to come together stay within the
bound.

`OpenIsAccounted`, for any set of targets and number of opens: `UDPInv` says that the stream is
opened at most once (`StreamOnce`) and that after Close the fields hold nothing but what came
late, of which there is none as long as the sender is still opening it (`ClosedFields`).

### Routing and stream open

`OnlyByRule`, for any rules, databases, names and addresses; the proof shows it of every
decision, without the exception for readdressed queries. `MatchIsSaid` shows of `Match` that
a decision is that of a rule that covers the target or of the `default:` line; `RouterInv`
that a name in the map is younger than the answer that gave it.

`AnswerTruthful`, for any policy. `StreamInv` says, for every place the server can be in, what
it has answered and what has become of the target (`Answered`), and what the client makes
of it (`ToldClient`). `AllowsIsPermitted` shows `Allows` equal to what the lists mean, and
`SelectedAsAsked` that the families a strategy selects are the ones it asks for.

### What arrives

`BytesInOrder`, for any amount of data. `ProxyInv`: what was written, what a copy is writing and
what waits in the reader are adjacent runs of the client's bytes (`Ordered`).

`DeliveredIntact`, for packets of any length, any number of identifiers and fragments. `EntryOK`:
an entry of the reassembler has only fragments that were sent under its identifier, each at
its index, and the total of a packet that was sent under it. When only one packet was, a
complete entry is that packet (`CombinedIntact`).

`TailUnbroken`, for a ring of any size. `Filled` says what each index of the ring holds, before
and after it has wrapped; `EntriesAreRun`, `NewerOfRun` and `LastOfRun` show that reading it in
rotation, dropping what the follower has and keeping the last `limit` leaves one run.

### Only model-checked

- The liveness properties `LostConnectionDrains`, `WrittenArrives`, `StopEnds`,
  `DialersReturn`, `AssociationEnds`, `WaitersAnswered`, `HandlerEnds`, `RulesCatchUp` and
  `TargetReleased`: they need fairness and ENABLED, which the prover does not handle. So
  `RulesWatch`, whose only property is one of them, has no theorem.
- `TypeOK` of `MCParts`. The proofs about each part have the types they need in their
  invariants.
- The six violated properties, where the counterexample is the result.

The library's induction theorems take a predicate as a parameter, which the installed provers
cannot instantiate. Where a loop has to be unfolded (`Picked`), the proofs use the lemma
`Induction` of `RunTheorems`, which takes a set of naturals instead. It serves for that loop
and for facts about one sequence; general theorems about recursively defined functions are
not attempted.

## Observations

What the models follow the code in, and no property speaks of:

- `globalDNSCache`, `FragmentDatagram`, `ReloadGeo` and `DownloadDefaultRules` have no
  caller outside the tests.
- The goroutine that reads the replies of a QUIC relay ends at its first read timeout
  and is not started again (`server.go:1009`); later packets of the association are
  still sent, to the relay of its first target.
- `sendDirect` takes it that `send` keeps other targets away (`local_socks5.go:608-611`);
  `send` does not for direct ones.
- The exchange with a SOCKS5 upstream has no deadline, while `docs/deployment.md:83`
  calls `-dial-timeout` the timeout of dialling a target.
- A DNS query that `shouldTunnelDNS` sends to 1.1.1.1 is then routed like any other
  target, so that `default: direct` sends it directly, contrary to
  `local_socks5.go:526-527`: the second decision `UnmatchedQueryGoesDirect` is about.
- The UDP association treats the decision "reject" as "proxy": only "direct" is tested.
- The comment at `rules.go:67` has every unmatched target go direct, that of
  `rules.go:72-73` only on the desktop; `decideForTarget` sends all of them through the
  tunnel, as its own comment says. `OnlyByRule` takes that comment's side.

## Not modelled

- Wire frame encoders and decoders, configuration, metrics: one value at a time,
  without shared state. The models have frames and settings as values.
- Pacing and keepalive: timing on which no property depends.
- The adapters around smux, quic-go and gorilla/websocket: library calls. The carrier of
  `CipherStream`, the sessions of `ClientPool` and OpenStream in `StreamOpen` stand for
  them.
- Packet and file parsers (DNS messages, TLS ClientHello, GEO databases, rule lines):
  sequential functions over bytes whose results are choices in `Router`, `LocalProxy`,
  `RulesWatch` and `GeoUpdate`.
- Cryptography and padding: a record or frame that was tampered with cannot be opened.
- `run.go` and the requests of the control API that only read state.
- The composition of `Handshake` with `ServerSessions` and of `ClientPool` with `Engine`
  as one state space: each of the pairs meets in one step (a handshake that passes; the
  context that is done), which both modules have. No run explores the product.
