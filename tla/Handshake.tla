------------------------------ MODULE Handshake ------------------------------
(***************************************************************************)
(* What the server decides about a ChannelInit before it looks up a        *)
(* session: handlePreAuthTransportSession (internal/app/server.go) with its*)
(* nonce cache and TAI64N cache, against the clock and against the client  *)
(* that makes the frames (negotiateClientProtocol, nextClientTAI64N).      *)
(*                                                                         *)
(* Every handler reads the clock once, and uses that reading in both       *)
(* caches while other handlers do the same.  A frame may be presented on   *)
(* any number of connections: the nonce cache is there for that.           *)
(*                                                                         *)
(* One tick is one second of Unix time, NanosPerTick counts the finer      *)
(* steps of TAI64N.  Keys and proofs are not computed: a frame's flaw says *)
(* which of the checks it cannot pass.                                     *)
(***************************************************************************)
EXTENDS Integers, Sequences, FiniteSets

CONSTANTS Client,       \* SessionIDs
          Chan,         \* ChannelIDs
          Handler,      \* connections that present a frame, one goroutine each
          Skew,         \* cfg.AuthSkew in ticks; 0 disables the time checks
          Offset,       \* possible differences client clock - server clock
          NonceMax,     \* capacity of serverNonceCache
          TaiMax,       \* capacity of serverTAI64NCache
          NanosPerTick,
          Start,        \* the server's clock at the beginning
          MaxTime,      \* bound on the ticks of the server clock
          MaxFrames,    \* bound on the frames clients make
          MaxStall      \* bound on the ticks between a handler's clock reading
                        \* and its last use of it

ASSUME HandshakeAssumption ==
    /\ Skew \in Nat /\ Offset \subseteq Int
    /\ NonceMax \in Nat \ {0} /\ TaiMax \in Nat \ {0}
    /\ NanosPerTick \in Nat \ {0}
    /\ Start \in Nat /\ MaxTime \in Nat /\ MaxFrames \in Nat /\ MaxStall \in Nat

\* No clock shows a time before 1970, and no client makes a frame per nanosecond.
ASSUME ClockAssumption ==
    /\ \A o \in Offset : Start + o >= 0
    /\ MaxFrames <= NanosPerTick

VARIABLES
    clock,      \* the server's clock
    ahead,      \* each client's clock minus the server's
    lastNano,   \* clientTAI64NState.lastNano of each client process
    frames,     \* every ChannelInit made; the index is its ClientNonce
    pc,         \* where each handler is
    frame,      \* the index of the frame it was given, 0 before
    at,         \* its reading of the clock: "now" in the code
    nonceCache, \* nonceReplayCache: entries [key, time, seq]; the order slice
                \* of the code is the order of seq
    taiCache,   \* tai64nCache, most recently used first: [client, last]
    passed      \* history: the handlers that passed the nonce cache, in order

vars == <<clock, ahead, lastNano, frames, pc, frame, at, nonceCache, taiCache, passed>>

\* "proof": made with another token, or with a public key of the wrong length, which is
\* refused in the same way just before the proof is looked at.  "caps": lacks a required
\* capability or offers no cipher the server supports.
Flaw == {"none", "proof", "caps"}

Init ==
    /\ clock = Start
    /\ ahead \in [Client -> Offset]
    /\ lastNano = [cl \in Client |-> 0]
    /\ frames = <<>>
    /\ pc = [h \in Handler |-> "idle"]
    /\ frame = [h \in Handler |-> 0]
    /\ at = [h \in Handler |-> 0]
    /\ nonceCache = {}
    /\ taiCache = <<>>
    /\ passed = <<>>

Goto(h, p) == pc' = [pc EXCEPT ![h] = p]

FrameOf(h) == frames[frame[h]]

(***************************************************************************)
(* Client side.  Timestamp is the Unix second; the TAI64N value is         *)
(* max(last + 1ns, now), so that the frames of one process are ordered.    *)
(***************************************************************************)
NextNano(cl) ==
    LET now == (clock + ahead[cl]) * NanosPerTick
    IN  IF now <= lastNano[cl] THEN lastNano[cl] + 1 ELSE now

MakeInit(cl, ch, flaw) ==
    /\ Len(frames) < MaxFrames
    /\ frames' = Append(frames, [client |-> cl, chan |-> ch, ts |-> clock + ahead[cl],
                                 nano |-> NextNano(cl), flaw |-> flaw])
    /\ lastNano' = [lastNano EXCEPT ![cl] = NextNano(cl)]
    /\ UNCHANGED <<clock, ahead, pc, frame, at, nonceCache, taiCache, passed>>

(***************************************************************************)
(* The checks, in the order of the code.  Every failure closes the         *)
(* connection without an answer.                                           *)
(***************************************************************************)
ReadInit(h, i) ==
    /\ pc[h] = "idle"
    /\ Goto(h, "read")
    /\ frame' = [frame EXCEPT ![h] = i]
    /\ UNCHANGED <<clock, ahead, lastNano, frames, at, nonceCache, taiCache, passed>>

\* No stream or no well-formed frame within PreAuthTimeout.
ReadInitFail(h) ==
    /\ pc[h] = "idle"
    /\ Goto(h, "noInit")
    /\ UNCHANGED <<clock, ahead, lastNano, frames, frame, at, nonceCache, taiCache, passed>>

validateChannelInitTime(now, ts) == Skew = 0 \/ (ts >= now - Skew /\ ts <= now + Skew)

\* Mutant: the frame is taken as authentic before its proof is checked.
CheckInitTimeOnly(h) ==
    /\ pc[h] = "read"
    /\ at' = [at EXCEPT ![h] = clock]
    /\ Goto(h, IF validateChannelInitTime(clock, FrameOf(h).ts) THEN "authentic"
                                                                ELSE "staleTime")
    /\ UNCHANGED <<clock, ahead, lastNano, frames, frame, nonceCache, taiCache, passed>>

CheckInit(h) ==
    /\ pc[h] = "read"
    /\ at' = [at EXCEPT ![h] = clock]
    /\ Goto(h, IF ~validateChannelInitTime(clock, FrameOf(h).ts) THEN "staleTime"
               ELSE IF FrameOf(h).flaw = "proof" THEN "badProof"
               ELSE "authentic")
    /\ UNCHANGED <<clock, ahead, lastNano, frames, frame, nonceCache, taiCache, passed>>

\* Mutant: the key leaves out the client's nonce.
NonceKeyWithoutNonce(i) == <<frames[i].client, frames[i].chan>>

NonceKey(i) == <<frames[i].client, frames[i].chan, i>>

\* Mutant: an entry exactly as old as the ttl is dropped.
ExpiredInclusive(e, now) == Skew > 0 /\ e.time <= now - Skew

Expired(e, now) == Skew > 0 /\ e.time < now - Skew

\* A cache that has grown beyond its capacity loses its oldest entry.
WithoutOldest(cache) == {e \in cache : \E g \in cache : g.seq < e.seq}

\* seenOrStore, with AuthSkew as the time to live.
SeenOrStore(h) ==
    LET kept == {e \in nonceCache : ~Expired(e, at[h])}
        key  == NonceKey(frame[h])
        seen == \E e \in kept : e.key = key
        new  == kept \cup {[key |-> key, time |-> at[h], seq |-> Len(passed) + 1]}
    IN  /\ pc[h] = "authentic"
        /\ nonceCache' = IF seen THEN kept
                         ELSE IF Cardinality(new) > NonceMax THEN WithoutOldest(new) ELSE new
        /\ passed' = IF seen THEN passed ELSE Append(passed, h)
        /\ Goto(h, IF seen THEN "replayed" ELSE "fresh")
        /\ UNCHANGED <<clock, ahead, lastNano, frames, frame, at, taiCache>>

TaiWithin(nano, now) ==
    Skew = 0 \/ (nano >= (now - Skew) * NanosPerTick /\ nano <= (now + Skew) * NanosPerTick)

\* The cache after a timestamp of a session is stored: at the front, in the
\* place of the session's earlier one, or of the last entry of a full cache.
TaiStored(cl, nano) ==
    LET mine == {k \in DOMAIN taiCache : taiCache[k].client = cl}
        n == Len(taiCache)
        rest == IF mine # {}
                THEN LET k == CHOOSE k \in mine : TRUE
                     IN  SubSeq(taiCache, 1, k - 1) \o SubSeq(taiCache, k + 1, n)
                ELSE IF n >= TaiMax THEN SubSeq(taiCache, 1, n - 1) ELSE taiCache
    IN  <<[client |-> cl, last |-> nano]>> \o rest

\* Mutant: a timestamp that is not greater than the session's last is refused.
CheckAndStoreMonotonic(h) ==
    LET f  == FrameOf(h)
        ok == /\ TaiWithin(f.nano, at[h])
              /\ \A k \in DOMAIN taiCache : taiCache[k].client = f.client => taiCache[k].last < f.nano
    IN  /\ pc[h] = "fresh"
        /\ taiCache' = IF ok THEN TaiStored(f.client, f.nano) ELSE taiCache
        /\ Goto(h, IF ok THEN "timely" ELSE "staleTai")
        /\ UNCHANGED <<clock, ahead, lastNano, frames, frame, at, nonceCache, passed>>

CheckAndStore(h) ==
    LET f  == FrameOf(h)
        ok == TaiWithin(f.nano, at[h])
    IN  /\ pc[h] = "fresh"
        /\ taiCache' = IF ok THEN TaiStored(f.client, f.nano) ELSE taiCache
        /\ Goto(h, IF ok THEN "timely" ELSE "staleTai")
        /\ UNCHANGED <<clock, ahead, lastNano, frames, frame, at, nonceCache, passed>>

\* Required capabilities and cipher preference; an accepted handshake goes on
\* to getOrCreateClientSession (module ServerSessions).
Negotiate(h) ==
    /\ pc[h] = "timely"
    /\ Goto(h, IF FrameOf(h).flaw = "caps" THEN "noCaps" ELSE "accepted")
    /\ UNCHANGED <<clock, ahead, lastNano, frames, frame, at, nonceCache, taiCache, passed>>

Tick ==
    /\ clock < Start + MaxTime
    /\ \A h \in Handler :
          pc[h] \in {"authentic", "fresh"} => clock - at[h] < MaxStall
    /\ clock' = clock + 1
    /\ UNCHANGED <<ahead, lastNano, frames, pc, frame, at, nonceCache, taiCache, passed>>

Next ==
    \/ Tick
    \/ \E cl \in Client, ch \in Chan, flaw \in Flaw : MakeInit(cl, ch, flaw)
    \/ \E h \in Handler :
          \/ \E i \in DOMAIN frames : ReadInit(h, i)
          \/ ReadInitFail(h) \/ CheckInit(h) \/ SeenOrStore(h)
          \/ CheckAndStore(h) \/ Negotiate(h)

Spec == Init /\ [][Next]_vars
-----------------------------------------------------------------------------
UsedNonceCache == {"fresh", "timely", "accepted", "replayed", "staleTai", "noCaps"}

\* The nonce cache lets one frame through twice only when the first entry was no
\* longer there, and that has three causes: the frame's timestamp was ahead of the
\* clock when it was first stored, so the frame stays timely for longer than the
\* entry is kept; a handler with a later reading of the clock expired the entry
\* while this one still worked with its earlier reading; or enough other frames
\* passed to evict it (server.go:52-82 with 770-804).
NonceAtMostOnce ==
    \A i, j \in DOMAIN passed :
        i < j /\ frame[passed[i]] = frame[passed[j]] =>
            \/ FrameOf(passed[i]).ts > at[passed[i]]
            \/ \E h \in Handler : at[h] > at[passed[j]] /\ pc[h] \in UsedNonceCache
            \/ j - i > NonceMax

\* A handshake is refused as a replay only when that very frame was let through
\* before: two frames of one channel, as after a reconnect, never collide.
ReplayIsReal ==
    \A h \in Handler :
        pc[h] = "replayed" => \E i \in DOMAIN passed : frame[passed[i]] = frame[h]

\* Parallel handshakes of one client do not refuse each other, in whatever order
\* they arrive: a timely frame fails the TAI64N check only at the very edge of the
\* window, where its fraction of a second lies beyond it (tai64n_cache.go:35-44).
ParallelHandshakesPass ==
    \A h \in Handler : pc[h] = "staleTai" => FrameOf(h).ts = at[h] + Skew

\* Only frames whose proof was verified take room in the nonce cache, and so can
\* evict entries from it: the proof is checked first (server.go:787-804).  Both
\* caches stay within their capacity, and a session has one entry in the second.
OnlyAuthenticCached ==
    /\ \A e \in nonceCache : \A i \in DOMAIN frames :
           e.key = NonceKey(i) => frames[i].flaw # "proof"
    /\ Cardinality(nonceCache) <= NonceMax /\ Len(taiCache) <= TaiMax
    /\ \A e, g \in DOMAIN taiCache : taiCache[e].client = taiCache[g].client => e = g

\* docs/protocol.md:344: "verify TAI64N is strictly greater than the historical
\* maximum recorded for SessionID".  So what the cache holds for a session is the
\* greatest timestamp it has accepted from it.
TaiIsMaximum ==
    \A e \in DOMAIN taiCache : \A h \in Handler :
        /\ pc[h] \in {"timely", "accepted", "noCaps"}
        /\ FrameOf(h).client = taiCache[e].client
        => FrameOf(h).nano <= taiCache[e].last
=============================================================================
