-------------------------- MODULE HandshakeProofs ---------------------------
(***************************************************************************)
(* Proofs about Handshake, for all clients, channels, connections, clocks, *)
(* skews and cache capacities: what the nonce cache lets through twice,    *)
(* that a refused replay was one, that parallel handshakes do not refuse   *)
(* each other, and what takes room in the two caches.                      *)
(***************************************************************************)
EXTENDS Handshake, RunTheorems, FiniteSetTheorems, TLAPS

Place == {"idle", "noInit", "read", "staleTime", "badProof", "authentic"} \cup UsedNonceCache

Frame == [client : Client, chan : Chan, ts : Int, nano : Int, flaw : Flaw]

TypeOK ==
    /\ clock \in Nat /\ clock >= Start
    /\ ahead \in [Client -> Offset]
    /\ lastNano \in [Client -> Int]
    /\ frames \in Seq(Frame)
    /\ pc \in [Handler -> Place]
    /\ frame \in [Handler -> Nat]
    /\ at \in [Handler -> Int]
    /\ taiCache \in Seq([client : Client, last : Int])
    /\ passed \in Seq(Handler)

\* A handler beyond the first read has a frame, and one beyond the proof has an
\* authentic frame that was timely at its reading of the clock.
Checked ==
    \A h \in Handler :
        /\ pc[h] \notin {"idle", "noInit"} => frame[h] \in 1..Len(frames)
        /\ pc[h] \in {"authentic"} \cup UsedNonceCache =>
              validateChannelInitTime(at[h], FrameOf(h).ts) /\ FrameOf(h).flaw # "proof"

\* The fraction of a second in a TAI64N value counts at most the frames made so far.
Stamped ==
    /\ Len(frames) <= MaxFrames
    /\ \A cl \in Client : lastNano[cl] <= (clock + ahead[cl]) * NanosPerTick + Len(frames)
    /\ \A i \in 1..Len(frames) :
          /\ frames[i].ts * NanosPerTick <= frames[i].nano
          /\ frames[i].nano <= frames[i].ts * NanosPerTick + i

\* An entry of the nonce cache is what the handler that stored it made of its
\* frame and of its reading of the clock.
Entry(n) == [key |-> NonceKey(frame[passed[n]]), time |-> at[passed[n]], seq |-> n]

Stored ==
    /\ \A n \in 1..Len(passed) : pc[passed[n]] \in UsedNonceCache
    /\ \A e \in nonceCache : e.seq \in 1..Len(passed) /\ e = Entry(e.seq)

\* A handler used the cache with a reading of the clock that expired the entry.
ExpiredBySome(n) ==
    \E h \in Handler : /\ pc[h] \in UsedNonceCache
                       /\ Skew > 0 /\ at[passed[n]] < at[h] - Skew

\* What was stored and is not in the cache has expired or was evicted.
Gone ==
    \A n \in 1..Len(passed) :
        \/ Entry(n) \in nonceCache
        \/ ExpiredBySome(n)
        \/ Len(passed) - n >= NonceMax

Bounded ==
    /\ IsFiniteSet(nonceCache) /\ Cardinality(nonceCache) <= NonceMax
    /\ Len(taiCache) <= TaiMax
    /\ \A e, g \in 1..Len(taiCache) : taiCache[e].client = taiCache[g].client => e = g

HandshakeInv ==
    /\ TypeOK /\ Checked /\ Stamped /\ Stored /\ Gone /\ Bounded
    /\ NonceAtMostOnce /\ ReplayIsReal /\ ParallelHandshakesPass
-----------------------------------------------------------------------------
\* The oldest entry of a cache that is not empty.
LEMMA Oldest ==
    ASSUME NEW S, S # {}, \A e \in S : e.seq \in Nat
    PROVE  \E e \in S : \A g \in S : e.seq <= g.seq
<1> DEFINE N == {e.seq : e \in S}
<1>1. N \in SUBSET Nat /\ N # {}
  OBVIOUS
<1>2. PICK m \in N : \A n \in N : m <= n
  BY <1>1, LeastNat, Zenon
<1>3. PICK e \in S : e.seq = m
  OBVIOUS
<1> QED
  BY <1>2, <1>3

\* A cache that lost its oldest entry is smaller (server.go:76-81).
LEMMA EvictionShrinks ==
    ASSUME NEW S, IsFiniteSet(S), S # {}, \A e \in S : e.seq \in Nat
    PROVE  /\ IsFiniteSet(WithoutOldest(S))
           /\ Cardinality(WithoutOldest(S)) <= Cardinality(S) - 1
<1>1. PICK e \in S : \A g \in S : e.seq <= g.seq
  BY Oldest
<1>2. WithoutOldest(S) \in SUBSET (S \ {e})
  BY <1>1 DEF WithoutOldest
<1>3. IsFiniteSet(S \ {e}) /\ Cardinality(S \ {e}) = Cardinality(S) - 1
  BY FS_RemoveElement, Zenon
<1> QED
  BY <1>2, <1>3, FS_Subset, FS_CardinalityType

\* An entry is evicted only when as many younger ones as the cache holds are
\* numbered after it.
LEMMA EvictedIsOld ==
    ASSUME NEW S, IsFiniteSet(S), NEW m \in Nat,
           \A e \in S : e.seq \in 1..m,
           \A e, g \in S : e.seq = g.seq => e = g,
           NEW e \in S, e \notin WithoutOldest(S)
    PROVE  Cardinality(S) - 1 <= m - e.seq
<1> DEFINE T == (e.seq + 1)..m
           R == S \ {e}
           f == [g \in R |-> g.seq]
<1>1. \A g \in S : e.seq <= g.seq
  BY DEF WithoutOldest
<1>2. \A g \in R : g.seq \in T
  BY <1>1
<1>3. f \in [R -> T]
  BY <1>2
<1>4. \A a, b \in R : f[a] = f[b] => a = b
  OBVIOUS
<1>5. f \in Injection(R, T)
  <2> HIDE DEF f, R, T
  <2> QED
    BY <1>3, <1>4 DEF Injection, IsInjective
<1>6. IsFiniteSet(T) /\ Cardinality(T) = m - e.seq
  BY FS_Interval
<1>7. Cardinality(R) = Cardinality(S) - 1
  BY FS_RemoveElement, Zenon
<1> HIDE DEF f, T, R
<1>8. Cardinality(R) <= Cardinality(T)
  BY <1>5, <1>6, FS_Injection
<1> QED
  BY <1>6, <1>7, <1>8

\* A later second is later in nanoseconds.
LEMMA Later ==
    ASSUME NEW a \in Int, NEW b \in Int, a <= b
    PROVE  /\ a * NanosPerTick \in Int /\ b * NanosPerTick \in Int
           /\ a * NanosPerTick <= b * NanosPerTick
           /\ (a + 1) * NanosPerTick = a * NanosPerTick + NanosPerTick
BY HandshakeAssumption

\* The clock of a client is a number.
LEMMA ClientClock ==
    ASSUME TypeOK, NEW cl \in Client
    PROVE  clock \in Int /\ ahead[cl] \in Int /\ clock + ahead[cl] \in Int
<1>1. ahead[cl] \in Offset
  BY DEF TypeOK
<1>2. Offset \subseteq Int
  BY HandshakeAssumption
<1>3. ahead[cl] \in Int
  BY <1>1, <1>2, Zenon
<1>4. clock \in Int
  BY DEF TypeOK
<1> QED
  BY <1>3, <1>4

\* remove takes out one element and closes the gap, removeLast the last one.
Removed(s, k) == SubSeq(s, 1, k - 1) \o SubSeq(s, k + 1, Len(s))
RemovedLast(s) == SubSeq(s, 1, Len(s) - 1)

LEMMA RemovedOK ==
    ASSUME NEW S, NEW s \in Seq(S), NEW k \in 1..Len(s)
    PROVE  /\ Removed(s, k) \in Seq(S)
           /\ Len(Removed(s, k)) = Len(s) - 1
           /\ \A i \in 1..(Len(s) - 1) :
                 Removed(s, k)[i] = IF i < k THEN s[i] ELSE s[i + 1]
<1> DEFINE left == SubSeq(s, 1, k - 1)
           right == SubSeq(s, k + 1, Len(s))
<1>1. Len(s) \in Nat /\ k \in Nat /\ k >= 1 /\ k <= Len(s) /\ \A i \in 1..Len(s) : s[i] \in S
  OBVIOUS
<1>2. /\ left \in Seq(S) /\ Len(left) = k - 1
      /\ \A i \in 1..(k - 1) : left[i] = s[i]
  <2>1. \A i \in 1..(k - 1) : s[i] \in S
    BY <1>1
  <2>2. /\ left \in Seq(S) /\ Len(left) = IF 1 <= k - 1 THEN k - 1 - 1 + 1 ELSE 0
        /\ \A i \in 1..(k - 1 - 1 + 1) : left[i] = s[1 + i - 1]
    BY <1>1, <2>1, SubSeqProperties
  <2> QED
    BY <1>1, <2>2
<1>3. /\ right \in Seq(S) /\ Len(right) = Len(s) - k
      /\ \A i \in 1..(Len(s) - k) : right[i] = s[k + i]
  <2>1. \A i \in (k + 1)..Len(s) : s[i] \in S
    BY <1>1
  <2>2. /\ right \in Seq(S) /\ Len(right) = IF k + 1 <= Len(s) THEN Len(s) - (k + 1) + 1 ELSE 0
        /\ \A i \in 1..(Len(s) - (k + 1) + 1) : right[i] = s[(k + 1) + i - 1]
    BY <1>1, <2>1, SubSeqProperties
  <2> QED
    BY <1>1, <2>2
<1>4. Removed(s, k) = left \o right
  BY DEF Removed
<1> HIDE DEF left, right
<1>5. /\ left \o right \in Seq(S) /\ Len(left \o right) = Len(left) + Len(right)
      /\ \A i \in 1..(Len(left) + Len(right)) :
            (left \o right)[i] = IF i <= Len(left) THEN left[i] ELSE right[i - Len(left)]
  BY <1>2, <1>3, ConcatProperties, Zenon
<1> QED
  BY <1>1, <1>2, <1>3, <1>4, <1>5

LEMMA RemovedLastOK ==
    ASSUME NEW S, NEW s \in Seq(S), s # <<>>
    PROVE  /\ RemovedLast(s) \in Seq(S) /\ Len(RemovedLast(s)) = Len(s) - 1
           /\ \A i \in 1..(Len(s) - 1) : RemovedLast(s)[i] = s[i]
<1> DEFINE n == Len(s)
<1>1. n \in Nat /\ n > 0 /\ \A i \in 1..(n - 1) : s[i] \in S
  BY EmptySeq
<1>2. RemovedLast(s) = SubSeq(s, 1, n - 1)
  BY DEF RemovedLast
<1> HIDE DEF n
<1>3. /\ SubSeq(s, 1, n - 1) \in Seq(S)
      /\ Len(SubSeq(s, 1, n - 1)) = IF 1 <= n - 1 THEN n - 1 - 1 + 1 ELSE 0
      /\ \A i \in 1..(n - 1 - 1 + 1) : SubSeq(s, 1, n - 1)[i] = s[1 + i - 1]
  BY <1>1, SubSeqProperties
<1>4. Len(SubSeq(s, 1, n - 1)) = n - 1
  BY <1>1, <1>3
<1>5. \A i \in 1..(n - 1) : SubSeq(s, 1, n - 1)[i] = s[i]
  BY <1>1, <1>3
<1> QED
  BY <1>2, <1>3, <1>4, <1>5 DEF n

\* The TAI64N cache after a store: within its capacity, one entry per session
\* (tai64n_cache.go:58-88).
LEMMA TaiStoredOK ==
    ASSUME TypeOK, Bounded, NEW cl \in Client, NEW nano \in Int
    PROVE  LET new == TaiStored(cl, nano)
           IN  /\ new \in Seq([client : Client, last : Int])
               /\ Len(new) <= TaiMax
               /\ \A e, g \in 1..Len(new) : new[e].client = new[g].client => e = g
<1> DEFINE Row == [client : Client, last : Int]
           mine == {k \in DOMAIN taiCache : taiCache[k].client = cl}
           rest == IF mine # {} THEN Removed(taiCache, CHOOSE k \in mine : TRUE)
                   ELSE IF Len(taiCache) >= TaiMax THEN RemovedLast(taiCache) ELSE taiCache
           row == [client |-> cl, last |-> nano]
<1>1. TaiStored(cl, nano) = <<row>> \o rest
  BY DEF TaiStored, Removed, RemovedLast
<1>2. row \in Row /\ row.client = cl
  OBVIOUS
<1>3. taiCache \in Seq(Row)
  BY DEF TypeOK
<1> HIDE DEF Row, row
<1>4. Len(taiCache) \in Nat /\ DOMAIN taiCache = 1..Len(taiCache) /\ TaiMax \in Nat \ {0}
  BY <1>3, HandshakeAssumption
<1>5. /\ rest \in Seq(Row) /\ Len(rest) <= TaiMax - 1
      /\ \A e \in 1..Len(rest) : rest[e].client # cl
      /\ \A e, g \in 1..Len(rest) : rest[e].client = rest[g].client => e = g
  <2>1. CASE mine # {}
    <3>1. PICK k \in mine : rest = Removed(taiCache, k)
      BY <2>1, Zenon
    <3>2. k \in 1..Len(taiCache) /\ taiCache[k].client = cl
      BY <1>4
    <3> HIDE DEF rest
    <3>3. /\ rest \in Seq(Row) /\ Len(rest) = Len(taiCache) - 1
          /\ \A i \in 1..(Len(taiCache) - 1) :
                rest[i] = IF i < k THEN taiCache[i] ELSE taiCache[i + 1]
      BY <1>3, <3>1, <3>2, RemovedOK, Zenon
    <3> DEFINE was(i) == IF i < k THEN i ELSE i + 1
    <3>4. \A i \in 1..(Len(taiCache) - 1) :
             was(i) \in 1..Len(taiCache) /\ was(i) # k /\ rest[i] = taiCache[was(i)]
      BY <1>4, <3>2, <3>3
    <3>5. \A i, j \in 1..(Len(taiCache) - 1) : was(i) = was(j) => i = j
      BY <1>4, <3>2
    <3> HIDE DEF was
    <3>6. \A e \in 1..(Len(taiCache) - 1) : rest[e].client # cl
      BY <3>2, <3>4 DEF Bounded
    <3>7. \A e, g \in 1..(Len(taiCache) - 1) : rest[e].client = rest[g].client => e = g
      BY <3>4, <3>5 DEF Bounded
    <3>8. Len(rest) <= TaiMax - 1
      BY <1>4, <3>3 DEF Bounded
    <3> QED
      BY <3>3, <3>6, <3>7, <3>8
  <2>2. CASE mine = {} /\ Len(taiCache) >= TaiMax
    <3>1. rest = RemovedLast(taiCache) /\ taiCache # <<>>
      BY <1>4, <2>2
    <3> HIDE DEF rest
    <3>2. /\ rest \in Seq(Row) /\ Len(rest) = Len(taiCache) - 1
          /\ \A i \in 1..(Len(taiCache) - 1) : rest[i] = taiCache[i]
      BY <1>3, <3>1, RemovedLastOK
    <3>3. Len(rest) <= TaiMax - 1
      BY <1>4, <3>2 DEF Bounded
    <3>4. \A i \in 1..(Len(taiCache) - 1) : i \in 1..Len(taiCache)
      BY <1>4
    <3>5. \A e \in 1..(Len(taiCache) - 1) : rest[e].client # cl
      BY <1>4, <2>2, <3>2, <3>4
    <3>6. \A e, g \in 1..(Len(taiCache) - 1) : rest[e].client = rest[g].client => e = g
      BY <3>2, <3>4 DEF Bounded
    <3> QED
      BY <3>2, <3>3, <3>5, <3>6, Zenon
  <2>3. CASE mine = {} /\ Len(taiCache) < TaiMax
    BY <1>3, <1>4, <2>3 DEF Bounded
  <2>4. mine # {} \/ (mine = {} /\ Len(taiCache) >= TaiMax) \/ (mine = {} /\ Len(taiCache) < TaiMax)
    BY <1>4
  <2> QED
    BY <2>1, <2>2, <2>3, <2>4, Zenon
<1> HIDE DEF rest
<1>6. <<row>> \in Seq(Row) /\ Len(<<row>>) = 1 /\ <<row>>[1] = row
  BY <1>2
<1>7. /\ <<row>> \o rest \in Seq(Row) /\ Len(<<row>> \o rest) = 1 + Len(rest)
      /\ \A i \in 1..(1 + Len(rest)) : (<<row>> \o rest)[i] = IF i <= 1 THEN <<row>>[i] ELSE rest[i - 1]
  BY <1>5, <1>6, ConcatProperties
<1>8. Len(rest) \in Nat
  BY <1>5
<1>9. TaiStored(cl, nano) \in Seq([client : Client, last : Int])
  BY <1>1, <1>7 DEF Row
<1>10. \A e, g \in 1..(1 + Len(rest)) :
          (<<row>> \o rest)[e].client = (<<row>> \o rest)[g].client => e = g
  BY <1>2, <1>5, <1>6, <1>7, <1>8
<1> QED
  BY <1>1, <1>4, <1>5, <1>7, <1>8, <1>9, <1>10
-----------------------------------------------------------------------------
\* The server starts with empty caches.
LEMMA HandshakeInitially == Init => HandshakeInv
<1> SUFFICES ASSUME Init PROVE HandshakeInv
  OBVIOUS
<1>1. TypeOK
  BY HandshakeAssumption DEF Init, TypeOK, Place
<1>2. Checked
  BY DEF Init, Checked, UsedNonceCache
<1>3. Stamped
  <2>1. ASSUME NEW cl \in Client PROVE lastNano[cl] <= (clock + ahead[cl]) * NanosPerTick + 0
    <3>1. clock + ahead[cl] \in Int /\ 0 <= clock + ahead[cl]
      BY <1>1, ClientClock, ClockAssumption DEF Init
    <3>2. lastNano[cl] = 0
      BY DEF Init
    <3> DEFINE now == clock + ahead[cl]
    <3> HIDE DEF now
    <3>3. 0 * NanosPerTick <= now * NanosPerTick /\ now * NanosPerTick \in Int
      BY <3>1, Later DEF now
    <3>4. 0 * NanosPerTick = 0
      BY HandshakeAssumption
    <3> QED
      BY <3>2, <3>3, <3>4 DEF now
  <2>2. Len(frames) = 0
    BY DEF Init
  <2> QED
    BY <2>1, <2>2, HandshakeAssumption DEF Stamped
<1>4. Stored /\ Gone
  BY DEF Init, Stored, Gone
<1>5. Bounded
  BY FS_EmptySet, HandshakeAssumption DEF Init, Bounded
<1>6. NonceAtMostOnce /\ ReplayIsReal /\ ParallelHandshakesPass
  BY DEF Init, NonceAtMostOnce, ReplayIsReal, ParallelHandshakesPass
<1> QED
  BY <1>1, <1>2, <1>3, <1>4, <1>5, <1>6 DEF HandshakeInv

\* A step that leaves the nonce cache alone, and the handlers that used it in the
\* place they have reached, keeps what is known of the cache.
LEMMA CacheStays ==
    ASSUME HandshakeInv,
           \A h \in Handler : pc[h] \in UsedNonceCache =>
               pc'[h] \in UsedNonceCache /\ frame'[h] = frame[h] /\ at'[h] = at[h],
           \A h \in Handler : pc'[h] = "replayed" => pc[h] = "replayed",
           \A i \in 1..Len(frames) : frames'[i] = frames[i],
           nonceCache' = nonceCache, passed' = passed
    PROVE  Stored' /\ Gone' /\ NonceAtMostOnce' /\ ReplayIsReal'
<1> USE DEF HandshakeInv
<1>1. passed \in Seq(Handler) /\ DOMAIN passed = 1..Len(passed) /\ Len(passed) \in Nat
  BY DEF TypeOK
<1>2. ASSUME NEW n \in 1..Len(passed)
      PROVE  /\ passed[n] \in Handler /\ pc[passed[n]] \in UsedNonceCache
             /\ frame[passed[n]] \in 1..Len(frames)
             /\ frame'[passed[n]] = frame[passed[n]] /\ at'[passed[n]] = at[passed[n]]
             /\ FrameOf(passed[n])' = FrameOf(passed[n])
             /\ Entry(n)' = Entry(n)
  <2>1. passed[n] \in Handler /\ pc[passed[n]] \in UsedNonceCache
    BY <1>1 DEF Stored
  <2>2. frame[passed[n]] \in 1..Len(frames)
    BY <2>1 DEF Checked, UsedNonceCache
  <2> QED
    BY <2>1, <2>2, Zenon DEF FrameOf, Entry, NonceKey
<1>3. Stored'
  BY <1>1, <1>2 DEF Stored
<1>4. Gone'
  BY <1>1, <1>2 DEF Gone, ExpiredBySome
<1>5. NonceAtMostOnce'
  BY <1>1, <1>2 DEF NonceAtMostOnce
<1>6. ReplayIsReal'
  <2> SUFFICES ASSUME NEW h \in Handler, pc'[h] = "replayed"
               PROVE  \E i \in DOMAIN passed' : frame'[passed'[i]] = frame'[h]
    BY DEF ReplayIsReal
  <2>1. pc[h] = "replayed" /\ frame'[h] = frame[h]
    BY DEF UsedNonceCache
  <2> QED
    BY <1>1, <1>2, <2>1 DEF ReplayIsReal
<1> QED
  BY <1>3, <1>4, <1>5, <1>6

\* The clock moves on.
LEMMA TickKeeps == ASSUME HandshakeInv, Tick PROVE HandshakeInv'
<1> USE DEF HandshakeInv
<1>1. TypeOK'
  BY HandshakeAssumption DEF TypeOK, Tick
<1>2. Checked' /\ ParallelHandshakesPass'
  BY DEF Checked, ParallelHandshakesPass, FrameOf, Tick
<1>3. Stamped'
  <2>1. ASSUME NEW cl \in Client
        PROVE  lastNano[cl] <= (clock + 1 + ahead[cl]) * NanosPerTick + Len(frames)
    <3> DEFINE a == clock + ahead[cl]
               b == clock + 1 + ahead[cl]
    <3>1. a \in Int /\ b \in Int /\ a <= b
      BY ClientClock
    <3>2. lastNano[cl] \in Int /\ Len(frames) \in Nat
      BY DEF TypeOK
    <3>3. lastNano[cl] <= a * NanosPerTick + Len(frames)
      BY DEF Stamped
    <3> HIDE DEF a, b
    <3>4. /\ a * NanosPerTick \in Int /\ b * NanosPerTick \in Int
          /\ a * NanosPerTick <= b * NanosPerTick
      BY <3>1, Later
    <3>5. lastNano[cl] <= b * NanosPerTick + Len(frames)
      BY <3>2, <3>3, <3>4
    <3> QED
      BY <3>5 DEF b
  <2> QED
    BY <2>1 DEF Stamped, Tick
<1>4. Stored' /\ Gone' /\ NonceAtMostOnce' /\ ReplayIsReal'
  BY CacheStays DEF Tick
<1>5. Bounded'
  BY DEF Bounded, Tick
<1> QED
  BY <1>1, <1>2, <1>3, <1>4, <1>5

\* A client makes a frame: its stamp is at most one nanosecond after its last one,
\* or its clock (nextClientTAI64N).
LEMMA MakeInitKeeps ==
    ASSUME HandshakeInv, NEW cl \in Client, NEW ch \in Chan, NEW flaw \in Flaw,
           MakeInit(cl, ch, flaw)
    PROVE  HandshakeInv'
<1> USE DEF HandshakeInv
<1> DEFINE f == [client |-> cl, chan |-> ch, ts |-> clock + ahead[cl],
                 nano |-> NextNano(cl), flaw |-> flaw]
           n == Len(frames)
           now == (clock + ahead[cl]) * NanosPerTick
<1>1. clock + ahead[cl] \in Int /\ lastNano[cl] \in Int /\ now \in Int
  <2>1. clock + ahead[cl] \in Int /\ lastNano[cl] \in Int
    BY ClientClock DEF TypeOK
  <2> QED
    BY <2>1, Later
<1>2. NextNano(cl) \in Int
  BY <1>1 DEF NextNano
<1>3. f \in Frame
  BY <1>1, <1>2 DEF Frame
<1>4. /\ frames' \in Seq(Frame) /\ n \in Nat /\ Len(frames') = n + 1
      /\ \A i \in 1..n : frames'[i] = frames[i]
      /\ frames'[n + 1] = f
  <2> HIDE DEF f
  <2> QED
    BY <1>3, AppendProperties DEF f, TypeOK, MakeInit
<1>5. TypeOK'
  BY <1>2, <1>4 DEF TypeOK, MakeInit
<1>6. Checked'
  BY <1>4 DEF Checked, FrameOf, UsedNonceCache, MakeInit
<1>7. Stamped'
  <2>1. n + 1 <= MaxFrames
    BY <1>4, HandshakeAssumption DEF MakeInit
  <2>2. now <= NextNano(cl) /\ NextNano(cl) <= now + (n + 1)
    BY <1>1, <1>4 DEF NextNano, Stamped
  <2>3. \A c \in Client : lastNano'[c] <= (clock' + ahead'[c]) * NanosPerTick + (n + 1)
    <3> SUFFICES ASSUME NEW c \in Client
                 PROVE  lastNano'[c] <= (clock + ahead[c]) * NanosPerTick + (n + 1)
      BY DEF MakeInit
    <3>1. CASE c = cl
      BY <2>2, <3>1 DEF MakeInit, TypeOK
    <3>2. CASE c # cl
      <4>1. lastNano'[c] = lastNano[c] /\ lastNano[c] \in Int
        BY <3>2 DEF MakeInit, TypeOK
      <4>2. lastNano[c] <= (clock + ahead[c]) * NanosPerTick + n
        BY DEF Stamped
      <4>3. (clock + ahead[c]) * NanosPerTick \in Int
        BY ClientClock, Later
      <4> QED
        BY <1>4, <4>1, <4>2, <4>3
    <3> QED
      BY <3>1, <3>2
  <2>4. ASSUME NEW i \in 1..(n + 1)
        PROVE  /\ frames'[i].ts * NanosPerTick <= frames'[i].nano
               /\ frames'[i].nano <= frames'[i].ts * NanosPerTick + i
    <3>1. CASE i \in 1..n
      BY <1>4, <3>1 DEF Stamped
    <3>2. CASE i = n + 1
      BY <1>4, <2>2, <3>2
    <3>3. \A k \in Nat : \A j \in 1..(k + 1) : j \in 1..k \/ j = k + 1
      OBVIOUS
    <3> QED
      BY <1>4, <3>1, <3>2, <3>3, Zenon
  <2> QED
    BY <1>4, <2>1, <2>3, <2>4 DEF Stamped
<1>8. Stored' /\ Gone' /\ NonceAtMostOnce' /\ ReplayIsReal'
  BY <1>4, CacheStays DEF MakeInit
<1>9. Bounded'
  BY DEF Bounded, MakeInit
<1>10. ParallelHandshakesPass'
  BY <1>4 DEF ParallelHandshakesPass, Checked, FrameOf, MakeInit
<1> QED
  BY <1>5, <1>6, <1>7, <1>8, <1>9, <1>10

\* The steps of a handler before and after the two caches.
LEMMA HandlerKeeps ==
    ASSUME HandshakeInv, NEW h \in Handler,
           \/ \E i \in DOMAIN frames : ReadInit(h, i)
           \/ ReadInitFail(h) \/ CheckInit(h) \/ Negotiate(h)
    PROVE  HandshakeInv'
<1> USE DEF HandshakeInv
<1>1. /\ pc \in [Handler -> Place] /\ frame \in [Handler -> Nat] /\ at \in [Handler -> Int]
      /\ clock \in Int /\ frames \in Seq(Frame) /\ DOMAIN frames = 1..Len(frames)
  BY DEF TypeOK
<1>2. CASE \E i \in DOMAIN frames : ReadInit(h, i)
  <2>1. PICK i \in DOMAIN frames : ReadInit(h, i)
    BY <1>2
  <2>2. i \in 1..Len(frames) /\ i \in Nat
    BY <1>1
  <2>3. TypeOK'
    BY <1>1, <2>1, <2>2 DEF TypeOK, ReadInit, Goto, Place
  <2>4. Checked'
    BY <1>1, <2>1, <2>2 DEF Checked, ReadInit, Goto, FrameOf, UsedNonceCache
  <2>5. Stored' /\ Gone' /\ NonceAtMostOnce' /\ ReplayIsReal'
    <3>1. \A g \in Handler : pc[g] \in UsedNonceCache =>
               pc'[g] \in UsedNonceCache /\ frame'[g] = frame[g] /\ at'[g] = at[g]
      BY <1>1, <2>1 DEF ReadInit, Goto, UsedNonceCache
    <3>2. \A g \in Handler : pc'[g] = "replayed" => pc[g] = "replayed"
      BY <1>1, <2>1 DEF ReadInit, Goto
    <3> QED
      BY <2>1, <3>1, <3>2, CacheStays DEF ReadInit
  <2>6. Stamped' /\ Bounded'
    BY <2>1 DEF Stamped, Bounded, ReadInit
  <2>7. ParallelHandshakesPass'
    BY <1>1, <2>1 DEF ParallelHandshakesPass, FrameOf, ReadInit, Goto
  <2> QED
    BY <2>3, <2>4, <2>5, <2>6, <2>7
<1>3. CASE ReadInitFail(h)
  <2>1. TypeOK'
    BY <1>1, <1>3 DEF TypeOK, ReadInitFail, Goto, Place
  <2>2. Checked'
    BY <1>1, <1>3 DEF Checked, ReadInitFail, Goto, FrameOf, UsedNonceCache
  <2>3. Stored' /\ Gone' /\ NonceAtMostOnce' /\ ReplayIsReal'
    BY <1>1, <1>3, CacheStays DEF ReadInitFail, Goto, UsedNonceCache
  <2>4. Stamped' /\ Bounded'
    BY <1>3 DEF Stamped, Bounded, ReadInitFail
  <2>5. ParallelHandshakesPass'
    BY <1>1, <1>3 DEF ParallelHandshakesPass, FrameOf, ReadInitFail, Goto
  <2> QED
    BY <2>1, <2>2, <2>3, <2>4, <2>5
<1>4. CASE CheckInit(h)
  <2>1. TypeOK'
    BY <1>1, <1>4 DEF TypeOK, CheckInit, Goto, Place
  <2>2. Checked'
    BY <1>1, <1>4, ZenonT(60) DEF Checked, CheckInit, Goto, FrameOf, UsedNonceCache
  <2>3. Stored' /\ Gone' /\ NonceAtMostOnce' /\ ReplayIsReal'
    <3>1. \A g \in Handler : pc[g] \in UsedNonceCache =>
               pc'[g] \in UsedNonceCache /\ frame'[g] = frame[g] /\ at'[g] = at[g]
      BY <1>1, <1>4 DEF CheckInit, Goto, UsedNonceCache
    <3>2. \A g \in Handler : pc'[g] = "replayed" => pc[g] = "replayed"
      BY <1>1, <1>4 DEF CheckInit, Goto
    <3> QED
      BY <1>4, <3>1, <3>2, CacheStays, ZenonT(60) DEF CheckInit
  <2>4. Stamped' /\ Bounded'
    BY <1>4 DEF Stamped, Bounded, CheckInit
  <2>5. ParallelHandshakesPass'
    BY <1>1, <1>4 DEF ParallelHandshakesPass, FrameOf, CheckInit, Goto
  <2> QED
    BY <2>1, <2>2, <2>3, <2>4, <2>5
<1>5. CASE Negotiate(h)
  <2>1. TypeOK'
    BY <1>1, <1>5 DEF TypeOK, Negotiate, Goto, Place, UsedNonceCache
  <2>2. Checked'
    BY <1>1, <1>5 DEF Checked, Negotiate, Goto, FrameOf, UsedNonceCache
  <2>3. Stored' /\ Gone' /\ NonceAtMostOnce' /\ ReplayIsReal'
    <3>1. \A g \in Handler : pc[g] \in UsedNonceCache =>
               pc'[g] \in UsedNonceCache /\ frame'[g] = frame[g] /\ at'[g] = at[g]
      BY <1>1, <1>5 DEF Negotiate, Goto, UsedNonceCache
    <3>2. \A g \in Handler : pc'[g] = "replayed" => pc[g] = "replayed"
      BY <1>1, <1>5 DEF Negotiate, Goto
    <3> QED
      BY <1>5, <3>1, <3>2, CacheStays DEF Negotiate
  <2>4. Stamped' /\ Bounded'
    BY <1>5 DEF Stamped, Bounded, Negotiate
  <2>5. ParallelHandshakesPass'
    BY <1>1, <1>5 DEF ParallelHandshakesPass, FrameOf, Negotiate, Goto
  <2> QED
    BY <2>1, <2>2, <2>3, <2>4, <2>5
<1> QED
  BY <1>2, <1>3, <1>4, <1>5

\* The TAI64N check refuses a timely frame only at the edge of the window, and
\* keeps the cache within its bounds (tai64n_cache.go:35-89).
LEMMA CheckAndStoreKeeps ==
    ASSUME HandshakeInv, NEW h \in Handler, CheckAndStore(h)
    PROVE  HandshakeInv'
<1> USE DEF HandshakeInv
<1> DEFINE f == FrameOf(h)
<1>1. /\ pc \in [Handler -> Place] /\ frame \in [Handler -> Nat] /\ at \in [Handler -> Int]
      /\ frames \in Seq(Frame) /\ Len(frames) \in Nat
  BY DEF TypeOK
<1>2. frame[h] \in 1..Len(frames) /\ validateChannelInitTime(at[h], f.ts)
  BY DEF Checked, CheckAndStore, UsedNonceCache
<1>3. f \in Frame /\ f.client \in Client /\ f.nano \in Int /\ f.ts \in Int /\ at[h] \in Int
  <2>1. f \in Frame
    BY <1>1, <1>2 DEF FrameOf
  <2> QED
    BY <1>1, <2>1 DEF Frame
<1>4. taiCache' \in Seq([client : Client, last : Int]) /\ Bounded'
  <2>1. CASE TaiWithin(f.nano, at[h])
    BY <1>3, <2>1, TaiStoredOK, ZenonT(60) DEF CheckAndStore, Bounded
  <2>2. CASE ~TaiWithin(f.nano, at[h])
    BY <2>2 DEF CheckAndStore, Bounded, TypeOK
  <2> QED
    BY <2>1, <2>2
<1>5. TypeOK'
  BY <1>1, <1>4 DEF TypeOK, CheckAndStore, Goto, Place, UsedNonceCache
<1>6. Checked'
  BY <1>1 DEF Checked, CheckAndStore, Goto, FrameOf, UsedNonceCache
<1>7. Stored' /\ Gone' /\ NonceAtMostOnce' /\ ReplayIsReal'
  <2>1. \A g \in Handler : pc[g] \in UsedNonceCache =>
             pc'[g] \in UsedNonceCache /\ frame'[g] = frame[g] /\ at'[g] = at[g]
    BY <1>1 DEF CheckAndStore, Goto, UsedNonceCache
  <2>2. \A g \in Handler : pc'[g] = "replayed" => pc[g] = "replayed"
    BY <1>1 DEF CheckAndStore, Goto
  <2> QED
    BY <2>1, <2>2, CacheStays DEF CheckAndStore
<1>8. Stamped'
  BY DEF Stamped, CheckAndStore
<1>9. ParallelHandshakesPass'
  <2>1. ASSUME ~TaiWithin(f.nano, at[h]) PROVE f.ts = at[h] + Skew
    <3> DEFINE ts == f.ts
               nano == f.nano
               now == at[h]
               i == frame[h]
    <3>1. Skew \in Nat /\ Skew # 0 /\ now - Skew <= ts /\ ts <= now + Skew
      BY <1>2, <1>3, <2>1, HandshakeAssumption DEF TaiWithin, validateChannelInitTime
    <3>2. ~(nano >= (now - Skew) * NanosPerTick /\ nano <= (now + Skew) * NanosPerTick)
      BY <2>1 DEF TaiWithin
    <3>3. i \in Int /\ i <= NanosPerTick /\ ts * NanosPerTick <= nano /\ nano <= ts * NanosPerTick + i
      BY <1>1, <1>2, HandshakeAssumption, ClockAssumption DEF Stamped, FrameOf
    <3>4. ts \in Int /\ nano \in Int /\ now \in Int /\ NanosPerTick \in Int
      BY <1>3, HandshakeAssumption
    <3> HIDE DEF ts, nano, now, i
    <3>5. /\ (now - Skew) * NanosPerTick <= ts * NanosPerTick
          /\ (now - Skew) * NanosPerTick \in Int /\ ts * NanosPerTick \in Int
      BY <3>1, <3>4, Later
    <3>6. ~(nano <= (now + Skew) * NanosPerTick)
      BY <3>2, <3>3, <3>4, <3>5
    <3>7. CASE ts + 1 <= now + Skew
      <4>1. /\ (ts + 1) * NanosPerTick <= (now + Skew) * NanosPerTick
            /\ (now + Skew) * NanosPerTick \in Int
        BY <3>1, <3>4, <3>7, Later
      <4>2. (ts + 1) * NanosPerTick = ts * NanosPerTick + NanosPerTick
        BY <3>4, Later
      <4> QED
        BY <3>3, <3>4, <3>5, <3>6, <4>1, <4>2
    <3>8. CASE ~(ts + 1 <= now + Skew)
      <4>1. ts = now + Skew
        BY <3>1, <3>4, <3>8
      <4> QED
        BY <4>1 DEF ts, now
    <3> QED
      BY <3>7, <3>8
  <2>2. \A g \in Handler : FrameOf(g)' = FrameOf(g) /\ at'[g] = at[g]
    BY DEF FrameOf, CheckAndStore
  <2>3. \A g \in Handler : pc'[g] = "staleTai" =>
           pc[g] = "staleTai" \/ (g = h /\ ~TaiWithin(f.nano, at[h]))
    BY <1>1 DEF CheckAndStore, Goto
  <2> QED
    BY <2>1, <2>2, <2>3 DEF ParallelHandshakesPass
<1> QED
  BY <1>4, <1>5, <1>6, <1>7, <1>8, <1>9

\* The two outcomes of seenOrStore, and the cache in between (server.go:52-84).
Kept(h) == {e \in nonceCache : ~Expired(e, at[h])}

Mine(h) == [key |-> NonceKey(frame[h]), time |-> at[h], seq |-> Len(passed) + 1]

Grown(h) == Kept(h) \cup {Mine(h)}

Seen(h) ==
    /\ pc[h] = "authentic"
    /\ \E e \in Kept(h) : e.key = NonceKey(frame[h])
    /\ nonceCache' = Kept(h) /\ passed' = passed
    /\ pc' = [pc EXCEPT ![h] = "replayed"]
    /\ UNCHANGED <<clock, ahead, lastNano, frames, frame, at, taiCache>>

StoreNew(h) ==
    /\ pc[h] = "authentic"
    /\ \A e \in Kept(h) : e.key # NonceKey(frame[h])
    /\ nonceCache' = IF Cardinality(Grown(h)) > NonceMax THEN WithoutOldest(Grown(h)) ELSE Grown(h)
    /\ passed' = Append(passed, h)
    /\ pc' = [pc EXCEPT ![h] = "fresh"]
    /\ UNCHANGED <<clock, ahead, lastNano, frames, frame, at, taiCache>>

\* seenOrStore has these two outcomes.
LEMMA SeenOrNew == ASSUME NEW h \in Handler, SeenOrStore(h) PROVE Seen(h) \/ StoreNew(h)
BY ZenonT(60) DEF SeenOrStore, Seen, StoreNew, Kept, Grown, Mine, Goto

\* What both outcomes leave as it was.
LEMMA OthersKeep ==
    ASSUME HandshakeInv, NEW h \in Handler, pc[h] = "authentic",
           NEW p \in {"fresh", "replayed"}, pc' = [pc EXCEPT ![h] = p],
           UNCHANGED <<clock, ahead, lastNano, frames, frame, at, taiCache>>
    PROVE  /\ \A g \in Handler : /\ FrameOf(g)' = FrameOf(g)
                                 /\ pc[g] \in UsedNonceCache => pc'[g] \in UsedNonceCache
                                 /\ g # h => pc'[g] = pc[g]
           /\ pc'[h] = p /\ pc'[h] \in UsedNonceCache
           /\ pc' \in [Handler -> Place]
           /\ Checked' /\ Stamped' /\ ParallelHandshakesPass'
<1> USE DEF HandshakeInv
<1>1. pc \in [Handler -> Place]
  BY DEF TypeOK
<1>2. pc'[h] = p /\ pc'[h] \in UsedNonceCache /\ pc' \in [Handler -> Place]
  BY <1>1 DEF UsedNonceCache, Place
<1>3. \A g \in Handler : /\ FrameOf(g)' = FrameOf(g)
                         /\ pc[g] \in UsedNonceCache => pc'[g] \in UsedNonceCache
                         /\ g # h => pc'[g] = pc[g]
  BY <1>1 DEF FrameOf, UsedNonceCache
<1>4. Checked'
  BY <1>2, <1>3 DEF Checked, UsedNonceCache
<1>5. Stamped'
  BY DEF Stamped
<1>6. ParallelHandshakesPass'
  BY <1>2, <1>3 DEF ParallelHandshakesPass
<1> QED
  BY <1>2, <1>3, <1>4, <1>5, <1>6

\* What is known of the entries that a handler keeps and of those it drops.
LEMMA KeptOK ==
    ASSUME HandshakeInv, NEW h \in Handler
    PROVE  /\ Kept(h) \in SUBSET nonceCache
           /\ IsFiniteSet(Kept(h)) /\ Cardinality(Kept(h)) <= NonceMax
           /\ Cardinality(Kept(h)) \in Nat
           /\ \A e \in Kept(h) : e.seq \in 1..Len(passed) /\ e = Entry(e.seq)
           /\ \A n \in 1..Len(passed) : Entry(n) \in nonceCache \ Kept(h) =>
                 Skew > 0 /\ at[passed[n]] < at[h] - Skew
<1> USE DEF HandshakeInv
<1>1. Kept(h) \in SUBSET nonceCache
  BY DEF Kept
<1>2. IsFiniteSet(nonceCache) /\ Cardinality(nonceCache) <= NonceMax /\ Cardinality(nonceCache) \in Nat
  BY FS_CardinalityType DEF Bounded
<1>3. IsFiniteSet(Kept(h)) /\ Cardinality(Kept(h)) <= Cardinality(nonceCache) /\ Cardinality(Kept(h)) \in Nat
  BY <1>1, <1>2, FS_Subset, FS_CardinalityType
<1>4. NonceMax \in Nat
  BY HandshakeAssumption
<1>5. \A e \in Kept(h) : e.seq \in 1..Len(passed) /\ e = Entry(e.seq)
  BY <1>1 DEF Stored
<1>6. ASSUME NEW n \in 1..Len(passed), Entry(n) \in nonceCache \ Kept(h)
      PROVE  Skew > 0 /\ at[passed[n]] < at[h] - Skew
  <2>1. Entry(n).time = at[passed[n]]
    BY DEF Entry
  <2>2. Expired(Entry(n), at[h])
    BY <1>6 DEF Kept
  <2> QED
    BY <2>1, <2>2 DEF Expired
<1>7. Cardinality(Kept(h)) <= NonceMax
  BY <1>2, <1>3, <1>4
<1> QED
  BY <1>1, <1>3, <1>5, <1>6, <1>7, Zenon

\* A frame that is timely for a reading of the clock is stamped after an entry
\* that this reading, or an earlier one, has expired.
LEMMA StampedAhead ==
    ASSUME NEW ts \in Int, NEW now \in Int, NEW then \in Int, NEW k \in Int,
           validateChannelInitTime(now, ts), Skew > 0, then < k - Skew, k <= now
    PROVE  ts > then
<1>1. Skew \in Nat /\ ts >= now - Skew
  BY HandshakeAssumption DEF validateChannelInitTime
<1> QED
  BY <1>1

\* A frame found in the cache.
LEMMA SeenKeeps == ASSUME HandshakeInv, NEW h \in Handler, Seen(h) PROVE HandshakeInv'
<1>1. /\ pc[h] = "authentic" /\ nonceCache' = Kept(h) /\ passed' = passed
      /\ pc' = [pc EXCEPT ![h] = "replayed"]
      /\ UNCHANGED <<clock, ahead, lastNano, frames, frame, at, taiCache>>
  BY DEF Seen
<1>2. /\ \A g \in Handler : /\ FrameOf(g)' = FrameOf(g)
                            /\ pc[g] \in UsedNonceCache => pc'[g] \in UsedNonceCache
                            /\ g # h => pc'[g] = pc[g]
      /\ pc'[h] = "replayed" /\ pc'[h] \in UsedNonceCache /\ pc' \in [Handler -> Place]
      /\ Checked' /\ Stamped' /\ ParallelHandshakesPass'
  BY <1>1, OthersKeep, ZenonT(60)
<1> USE DEF HandshakeInv
<1>3. TypeOK'
  BY <1>1, <1>2 DEF TypeOK
<1>4. passed \in Seq(Handler) /\ DOMAIN passed = 1..Len(passed)
  BY DEF TypeOK
<1>5. \A n \in 1..Len(passed) : passed[n] \in Handler /\ Entry(n)' = Entry(n)
  <2> SUFFICES ASSUME NEW n \in 1..Len(passed) PROVE passed[n] \in Handler /\ Entry(n)' = Entry(n)
    OBVIOUS
  <2>1. passed[n] \in Handler
    BY <1>4
  <2>2. passed'[n] = passed[n] /\ frame'[passed[n]] = frame[passed[n]] /\ at'[passed[n]] = at[passed[n]]
    BY <1>1
  <2>3. NonceKey(frame[passed[n]])' = NonceKey(frame[passed[n]])
    BY <1>1 DEF NonceKey
  <2> QED
    BY <2>1, <2>2, <2>3 DEF Entry
<1>6. Stored'
  <2>1. \A n \in 1..Len(passed) : pc'[passed[n]] \in UsedNonceCache
    BY <1>2, <1>5 DEF Stored
  <2>2. \A e \in Kept(h) : e.seq \in 1..Len(passed) /\ e = Entry(e.seq)'
    BY <1>5, KeptOK
  <2> QED
    BY <1>1, <2>1, <2>2 DEF Stored
<1>7. Gone'
  <2> SUFFICES ASSUME NEW n \in 1..Len(passed)
               PROVE  \/ Entry(n) \in nonceCache' \/ ExpiredBySome(n)'
                      \/ Len(passed) - n >= NonceMax
    BY <1>1, <1>5 DEF Gone
  <2>1. CASE Entry(n) \in nonceCache \ Kept(h)
    <3>1. Skew > 0 /\ at[passed[n]] < at[h] - Skew
      BY <2>1, KeptOK
    <3> QED
      BY <1>1, <1>2, <3>1 DEF ExpiredBySome
  <2>2. CASE ExpiredBySome(n)
    BY <1>1, <1>2, <2>2 DEF ExpiredBySome
  <2> QED
    BY <1>1, <2>1, <2>2 DEF Gone
<1>8. Bounded'
  BY <1>1, KeptOK, ZenonT(60) DEF Bounded
<1>9. NonceAtMostOnce'
  <2> SUFFICES ASSUME NEW i \in 1..Len(passed), NEW j \in 1..Len(passed), i < j,
                      frame[passed[i]] = frame[passed[j]]
               PROVE  \/ frames[frame[passed[i]]].ts > at[passed[i]]
                      \/ \E g \in Handler : at[g] > at[passed[j]] /\ pc'[g] \in UsedNonceCache
                      \/ j - i > NonceMax
    BY <1>1, <1>4 DEF NonceAtMostOnce, FrameOf
  <2>1. \/ frames[frame[passed[i]]].ts > at[passed[i]]
        \/ \E g \in Handler : at[g] > at[passed[j]] /\ pc[g] \in UsedNonceCache
        \/ j - i > NonceMax
    BY <1>4 DEF NonceAtMostOnce, FrameOf
  <2> QED
    BY <1>2, <2>1, ZenonT(60)
<1>10. ReplayIsReal'
  <2> SUFFICES ASSUME NEW g \in Handler, pc'[g] = "replayed"
               PROVE  \E i \in 1..Len(passed) : frame[passed[i]] = frame[g]
    BY <1>1, <1>4 DEF ReplayIsReal
  <2>1. CASE g # h
    BY <1>2, <1>4, <2>1, ZenonT(60) DEF ReplayIsReal
  <2>2. CASE g = h
    <3>1. PICK e \in Kept(h) : e.key = NonceKey(frame[h])
      BY DEF Seen
    <3>2. e.seq \in 1..Len(passed) /\ e = Entry(e.seq)
      BY KeptOK
    <3>3. Entry(e.seq).key = NonceKey(frame[passed[e.seq]])
      BY DEF Entry
    <3>4. NonceKey(frame[passed[e.seq]]) = NonceKey(frame[h])
      BY <3>1, <3>2, <3>3
    <3>5. frame[passed[e.seq]] = frame[h]
      BY <3>4 DEF NonceKey
    <3> QED
      BY <2>2, <3>2, <3>5
  <2> QED
    BY <2>1, <2>2
<1> QED
  BY <1>2, <1>3, <1>6, <1>7, <1>8, <1>9, <1>10

\* The cache with the new entry: numbered without repetition, and at most one
\* entry too large.
LEMMA GrownOK ==
    ASSUME HandshakeInv, NEW h \in Handler
    PROVE  /\ Mine(h) \in Grown(h) /\ Kept(h) \subseteq Grown(h)
           /\ Mine(h).seq = Len(passed) + 1
           /\ \A e \in Grown(h) : e.seq \in 1..(Len(passed) + 1) /\ (e = Mine(h) \/ e \in Kept(h))
           /\ \A e, g \in Grown(h) : e.seq = g.seq => e = g
           /\ IsFiniteSet(Grown(h)) /\ Cardinality(Grown(h)) \in Nat
           /\ Cardinality(Grown(h)) <= NonceMax + 1
<1>1. Len(passed) \in Nat /\ NonceMax \in Nat
  BY HandshakeAssumption DEF HandshakeInv, TypeOK
<1>2. Mine(h).seq = Len(passed) + 1
  BY DEF Mine
<1>3. Grown(h) = Kept(h) \cup {Mine(h)}
  BY DEF Grown
<1>4. \A e \in Kept(h) : e.seq \in 1..Len(passed) /\ e = Entry(e.seq)
  BY KeptOK
<1>5. \A e, g \in Kept(h) : e.seq = g.seq => e = g
  <2> SUFFICES ASSUME NEW e \in Kept(h), NEW g \in Kept(h), e.seq = g.seq PROVE e = g
    OBVIOUS
  <2>1. e = Entry(e.seq) /\ g = Entry(g.seq)
    BY <1>4
  <2> QED
    BY <2>1
<1>6. /\ IsFiniteSet(Grown(h))
      /\ Cardinality(Grown(h)) = IF Mine(h) \in Kept(h) THEN Cardinality(Kept(h))
                                                        ELSE Cardinality(Kept(h)) + 1
  BY <1>3, KeptOK, FS_AddElement
<1>7. Cardinality(Grown(h)) \in Nat /\ Cardinality(Grown(h)) <= NonceMax + 1
  BY <1>1, <1>6, KeptOK
<1>8. \A e \in Grown(h) : e.seq \in 1..(Len(passed) + 1) /\ (e = Mine(h) \/ e \in Kept(h))
  BY <1>1, <1>2, <1>3, <1>4
<1>9. ASSUME NEW e \in Grown(h), NEW g \in Grown(h), e.seq = g.seq PROVE e = g
  <2>1. CASE e \in Kept(h) /\ g \in Kept(h)
    BY <1>5, <1>9, <2>1
  <2>2. CASE e = Mine(h) /\ g \in Kept(h)
    BY <1>1, <1>2, <1>4, <1>9, <2>2
  <2>3. CASE e \in Kept(h) /\ g = Mine(h)
    BY <1>1, <1>2, <1>4, <1>9, <2>3
  <2> QED
    BY <1>8, <2>1, <2>2, <2>3
<1> QED
  BY <1>2, <1>3, <1>6, <1>7, <1>8, <1>9

LEMMA Reflexive == \A x \in Int : x <= x
OBVIOUS

\* A frame that is new to the cache.
LEMMA StoreNewKeeps == ASSUME HandshakeInv, NEW h \in Handler, StoreNew(h) PROVE HandshakeInv'
<1>1. /\ pc[h] = "authentic" /\ passed' = Append(passed, h)
      /\ \A e \in Kept(h) : e.key # NonceKey(frame[h])
      /\ pc' = [pc EXCEPT ![h] = "fresh"]
      /\ UNCHANGED <<clock, ahead, lastNano, frames, frame, at, taiCache>>
  BY DEF StoreNew
<1>2. /\ \A g \in Handler : /\ FrameOf(g)' = FrameOf(g)
                            /\ pc[g] \in UsedNonceCache => pc'[g] \in UsedNonceCache
                            /\ g # h => pc'[g] = pc[g]
      /\ pc'[h] = "fresh" /\ pc'[h] \in UsedNonceCache /\ pc' \in [Handler -> Place]
      /\ Checked' /\ Stamped' /\ ParallelHandshakesPass'
  BY <1>1, OthersKeep, ZenonT(60)
<1>3. /\ passed \in Seq(Handler) /\ Len(passed) \in Nat /\ DOMAIN passed = 1..Len(passed)
      /\ at \in [Handler -> Int] /\ NonceMax \in Nat \ {0}
  BY HandshakeAssumption DEF HandshakeInv, TypeOK
<1>4. PICK m \in Nat : m = Len(passed) + 1
  BY <1>3
<1>5. /\ passed' \in Seq(Handler) /\ Len(passed') = m
      /\ \A n \in 1..Len(passed) : passed'[n] = passed[n]
      /\ passed'[m] = h
  <2>1. /\ Append(passed, h) \in Seq(Handler) /\ Len(Append(passed, h)) = Len(passed) + 1
        /\ \A n \in 1..Len(passed) : Append(passed, h)[n] = passed[n]
        /\ Append(passed, h)[Len(passed) + 1] = h
    BY <1>3, AppendProperties
  <2> QED
    BY <1>1, <1>4, <2>1, Zenon
<1>6. DOMAIN passed' = 1..m
  BY <1>5, LenProperties
<1>7. 1..m = 1..Len(passed) \cup {m}
  BY <1>3, <1>4
<1>8. TypeOK'
  BY <1>1, <1>2, <1>5 DEF HandshakeInv, TypeOK
<1>9. \A n \in 1..Len(passed) :
         passed[n] \in Handler /\ pc[passed[n]] \in UsedNonceCache /\ Entry(n)' = Entry(n)
  <2> SUFFICES ASSUME NEW n \in 1..Len(passed)
               PROVE  passed[n] \in Handler /\ pc[passed[n]] \in UsedNonceCache /\ Entry(n)' = Entry(n)
    OBVIOUS
  <2>1. passed[n] \in Handler /\ pc[passed[n]] \in UsedNonceCache
    BY <1>3 DEF HandshakeInv, Stored
  <2>2. passed'[n] = passed[n] /\ frame'[passed[n]] = frame[passed[n]] /\ at'[passed[n]] = at[passed[n]]
    BY <1>1, <1>5
  <2>3. NonceKey(frame[passed[n]])' = NonceKey(frame'[passed[n]])
    BY <1>1 DEF NonceKey
  <2> QED
    BY <2>1, <2>2, <2>3 DEF Entry
<1>10. Entry(m)' = Mine(h)
  BY <1>1, <1>4, <1>5 DEF Entry, NonceKey, Mine
<1>11. nonceCache' \subseteq Grown(h)
  BY DEF StoreNew, WithoutOldest
<1>12. Stored'
  <2>1. \A n \in 1..m : pc'[passed'[n]] \in UsedNonceCache
    BY <1>2, <1>5, <1>7, <1>9
  <2>2. ASSUME NEW e \in nonceCache' PROVE e.seq \in 1..m /\ e = Entry(e.seq)'
    <3>1. CASE e \in Kept(h)
      <4>1. e.seq \in 1..Len(passed) /\ e = Entry(e.seq)
        BY <3>1, KeptOK
      <4> QED
        BY <1>7, <1>9, <4>1
    <3>2. CASE e = Mine(h)
      BY <1>4, <1>7, <1>10, <3>2, GrownOK
    <3> QED
      BY <1>11, <3>1, <3>2, GrownOK
  <2> QED
    BY <1>5, <2>1, <2>2 DEF Stored
<1>13. Bounded'
  <2>1. CASE ~(Cardinality(Grown(h)) > NonceMax)
    <3>1. nonceCache' = Grown(h)
      BY <2>1 DEF StoreNew
    <3>2. IsFiniteSet(Grown(h)) /\ Cardinality(Grown(h)) <= NonceMax
      BY <1>3, <2>1, GrownOK
    <3> QED
      BY <1>1, <3>1, <3>2 DEF HandshakeInv, Bounded
  <2>2. CASE Cardinality(Grown(h)) > NonceMax
    <3>1. nonceCache' = WithoutOldest(Grown(h))
      BY <2>2 DEF StoreNew
    <3>2. Grown(h) # {} /\ \A e \in Grown(h) : e.seq \in Nat
      BY <1>3, GrownOK
    <3>3. /\ IsFiniteSet(WithoutOldest(Grown(h)))
          /\ Cardinality(WithoutOldest(Grown(h))) <= Cardinality(Grown(h)) - 1
      BY <3>2, GrownOK, EvictionShrinks
    <3>4. Cardinality(WithoutOldest(Grown(h))) \in Nat
      BY <3>3, FS_CardinalityType
    <3>5. Cardinality(WithoutOldest(Grown(h))) <= NonceMax
      BY <1>3, <3>3, <3>4, GrownOK
    <3> QED
      BY <1>1, <3>1, <3>3, <3>5 DEF HandshakeInv, Bounded
  <2> QED
    BY <2>1, <2>2
<1>14. Gone'
  <2> SUFFICES ASSUME NEW n \in 1..m
               PROVE  Entry(n)' \in nonceCache' \/ ExpiredBySome(n)' \/ m - n >= NonceMax
    BY <1>1, <1>5 DEF Gone
  <2>1. ASSUME NEW e \in Grown(h), e \notin nonceCache' PROVE m - e.seq >= NonceMax
    <3>1. nonceCache' = WithoutOldest(Grown(h)) /\ Cardinality(Grown(h)) > NonceMax
      BY <2>1 DEF StoreNew
    <3>2. /\ IsFiniteSet(Grown(h)) /\ \A g \in Grown(h) : g.seq \in 1..m
          /\ \A f, g \in Grown(h) : f.seq = g.seq => f = g
      BY <1>4, GrownOK
    <3>3. Cardinality(Grown(h)) - 1 <= m - e.seq
      BY <1>4, <2>1, <3>1, <3>2, EvictedIsOld
    <3>4. e.seq \in Int /\ Cardinality(Grown(h)) \in Nat
      BY <1>4, <3>2, GrownOK
    <3> QED
      BY <1>3, <1>4, <3>1, <3>3, <3>4
  <2>2. CASE n = m
    <3>1. Mine(h) \in nonceCache' \/ m - m >= NonceMax
      BY <1>4, <2>1, GrownOK
    <3> QED
      BY <1>3, <1>4, <1>10, <2>2, <3>1
  <2>3. CASE n \in 1..Len(passed)
    <3>1. CASE Entry(n) \in Kept(h)
      <4>1. Entry(n).seq = n /\ Entry(n) \in Grown(h)
        BY <3>1, GrownOK DEF Entry
      <4> QED
        BY <1>9, <2>1, <2>3, <4>1
    <3>2. CASE Entry(n) \in nonceCache \ Kept(h)
      <4>1. Skew > 0 /\ at[passed[n]] < at[h] - Skew
        BY <2>3, <3>2, KeptOK
      <4> QED
        BY <1>1, <1>2, <1>5, <2>3, <4>1, ZenonT(60) DEF ExpiredBySome
    <3>3. CASE ExpiredBySome(n)
      BY <1>1, <1>2, <1>5, <2>3, <3>3 DEF ExpiredBySome
    <3>4. CASE Len(passed) - n >= NonceMax
      BY <1>3, <1>4, <2>3, <3>4
    <3> QED
      BY <2>3, <3>1, <3>2, <3>3, <3>4 DEF HandshakeInv, Gone
  <2> QED
    BY <1>7, <2>2, <2>3
<1>15. ReplayIsReal'
  <2> SUFFICES ASSUME NEW g \in Handler, pc'[g] = "replayed"
               PROVE  \E i \in 1..m : frame[passed'[i]] = frame[g]
    BY <1>1, <1>6 DEF ReplayIsReal
  <2>1. pc[g] = "replayed"
    BY <1>2
  <2>2. PICK i \in 1..Len(passed) : frame[passed[i]] = frame[g]
    BY <1>3, <2>1 DEF HandshakeInv, ReplayIsReal
  <2> QED
    BY <1>5, <1>7, <2>2
<1>16. NonceAtMostOnce'
  <2> SUFFICES ASSUME NEW i \in 1..m, NEW j \in 1..m, i < j,
                      frame[passed'[i]] = frame[passed'[j]]
               PROVE  \/ frames[frame[passed'[i]]].ts > at[passed'[i]]
                      \/ \E g \in Handler : at[g] > at[passed'[j]] /\ pc'[g] \in UsedNonceCache
                      \/ j - i > NonceMax
    BY <1>1, <1>6 DEF NonceAtMostOnce, FrameOf
  <2>1. i \in 1..Len(passed) /\ passed'[i] = passed[i] /\ passed[i] \in Handler
    <3>1. i \in 1..Len(passed)
      BY <1>3, <1>4
    <3> QED
      BY <1>5, <1>9, <3>1
  <2>2. CASE j \in 1..Len(passed)
    <3>1. passed'[j] = passed[j]
      BY <1>5, <2>2
    <3> QED
      BY <1>2, <1>3, <2>1, <2>2, <3>1, ZenonT(60) DEF HandshakeInv, NonceAtMostOnce, FrameOf
  <2>3. CASE j = m
    <3> DEFINE g == passed[i]
               ts == frames[frame[g]].ts
    <3>1. passed'[j] = h /\ frame[g] = frame[h]
      BY <1>5, <2>1, <2>3
    <3>2. validateChannelInitTime(at[h], ts) /\ frame[g] \in 1..Len(frames)
      BY <1>1, <3>1 DEF HandshakeInv, Checked, FrameOf
    <3>3. ts \in Int /\ at[h] \in Int /\ at[g] \in Int
      <4>1. frames[frame[g]] \in Frame
        BY <3>2 DEF HandshakeInv, TypeOK
      <4> QED
        BY <1>3, <2>1, <4>1 DEF Frame
    <3> HIDE DEF ts, g
    <3>4. ts > at[g] \/ (\E k \in Handler : at[k] > at[h] /\ pc'[k] \in UsedNonceCache) \/ j - i > NonceMax
      <4>1. CASE Entry(i) \in Kept(h)
        <5>1. Entry(i).key = NonceKey(frame[g])
          BY ZenonT(60) DEF Entry, g
        <5> QED
          BY <1>1, <3>1, <4>1, <5>1, ZenonT(60)
      <4>2. CASE Entry(i) \in nonceCache \ Kept(h)
        <5>1. Skew > 0 /\ at[g] < at[h] - Skew
          BY <2>1, <4>2, KeptOK, ZenonT(60) DEF g
        <5> QED
          <6>1. at[h] <= at[h]
            BY <3>3, Reflexive, Zenon
          <6> QED
            BY <3>2, <3>3, <5>1, <6>1, StampedAhead, Zenon
      <4>3. CASE ExpiredBySome(i)
        <5>1. PICK k \in Handler : pc[k] \in UsedNonceCache /\ Skew > 0 /\ at[g] < at[k] - Skew
          BY <4>3 DEF ExpiredBySome, g
        <5>2. at[k] \in Int /\ pc'[k] \in UsedNonceCache
          BY <1>2, <1>3, <5>1
        <5>3. CASE at[k] <= at[h]
          BY <3>2, <3>3, <5>1, <5>2, <5>3, StampedAhead
        <5>4. CASE ~(at[k] <= at[h])
          <6>1. at[k] > at[h]
            BY <3>3, <5>2, <5>4
          <6> QED
            BY <5>2, <6>1
        <5> QED
          BY <5>3, <5>4
      <4>4. CASE Len(passed) - i >= NonceMax
        <5>1. \A a, b, c \in Int : a - b >= c => (a + 1) - b > c
          OBVIOUS
        <5>2. Len(passed) \in Int /\ i \in Int /\ NonceMax \in Int /\ j = Len(passed) + 1
          BY <1>3, <1>4, <2>3
        <5> QED
          BY <4>4, <5>1, <5>2, Zenon
      <4> QED
        BY <2>1, <4>1, <4>2, <4>3, <4>4 DEF HandshakeInv, Gone
    <3> QED
      BY <2>1, <3>1, <3>4 DEF ts, g
  <2> QED
    BY <1>7, <2>2, <2>3
<1> QED
  BY <1>2, <1>8, <1>12, <1>13, <1>14, <1>15, <1>16 DEF HandshakeInv

\* The inductive invariant of the handshake.
THEOREM HandshakeInvariant == Spec => []HandshakeInv
<1>1. HandshakeInv /\ [Next]_vars => HandshakeInv'
  <2> SUFFICES ASSUME HandshakeInv, [Next]_vars PROVE HandshakeInv'
    OBVIOUS
  <2>1. CASE Tick
    BY <2>1, TickKeeps
  <2>2. CASE \E cl \in Client, ch \in Chan, flaw \in Flaw : MakeInit(cl, ch, flaw)
    BY <2>2, MakeInitKeeps
  <2>3. ASSUME NEW h \in Handler,
               \/ \E i \in DOMAIN frames : ReadInit(h, i)
               \/ ReadInitFail(h) \/ CheckInit(h) \/ Negotiate(h)
        PROVE  HandshakeInv'
    BY <2>3, HandlerKeeps
  <2>4. ASSUME NEW h \in Handler, SeenOrStore(h) PROVE HandshakeInv'
    BY <2>4, SeenOrNew, SeenKeeps, StoreNewKeeps
  <2>5. ASSUME NEW h \in Handler, CheckAndStore(h) PROVE HandshakeInv'
    BY <2>5, CheckAndStoreKeeps
  <2>6. CASE UNCHANGED vars
    BY <2>6 DEF vars, HandshakeInv, TypeOK, Checked, Stamped, Stored, Gone, Bounded, Entry,
                ExpiredBySome, NonceKey, NonceAtMostOnce, ReplayIsReal, ParallelHandshakesPass,
                FrameOf
  <2> QED
    BY <2>1, <2>2, <2>3, <2>4, <2>5, <2>6 DEF Next
<1> QED
  BY <1>1, HandshakeInitially, PTL DEF Spec

\* The nonce cache lets one frame through twice only for one of the three causes:
\* a stamp ahead of the clock, an entry expired by a handler with a later reading,
\* or more than NonceMax others in between.
THEOREM FramePassesOnce == Spec => []NonceAtMostOnce
<1>1. HandshakeInv => NonceAtMostOnce
  BY DEF HandshakeInv
<1> QED
  BY <1>1, HandshakeInvariant, PTL

\* What is refused as a replay was let through before.
THEOREM RefusedReplayIsReal == Spec => []ReplayIsReal
<1>1. HandshakeInv => ReplayIsReal
  BY DEF HandshakeInv
<1> QED
  BY <1>1, HandshakeInvariant, PTL

\* Handshakes of one client do not refuse each other.
THEOREM ParallelPass == Spec => []ParallelHandshakesPass
<1>1. HandshakeInv => ParallelHandshakesPass
  BY DEF HandshakeInv
<1> QED
  BY <1>1, HandshakeInvariant, PTL

\* Only frames with a verified proof take room in the nonce cache, and both caches
\* keep within their capacity.
THEOREM CachesBounded == Spec => []OnlyAuthenticCached
<1>1. HandshakeInv => OnlyAuthenticCached
  <2> SUFFICES ASSUME HandshakeInv PROVE OnlyAuthenticCached
    OBVIOUS
  <2> USE DEF HandshakeInv
  <2>1. ASSUME NEW e \in nonceCache, NEW i \in DOMAIN frames, e.key = NonceKey(i)
        PROVE  frames[i].flaw # "proof"
    <3>1. e.seq \in 1..Len(passed) /\ e.key = NonceKey(frame[passed[e.seq]])
      BY DEF Stored, Entry
    <3>2. passed[e.seq] \in Handler /\ pc[passed[e.seq]] \in UsedNonceCache
      BY <3>1 DEF Stored, TypeOK
    <3>3. frame[passed[e.seq]] = i
      BY <2>1, <3>1 DEF NonceKey
    <3> QED
      BY <3>2, <3>3 DEF Checked, FrameOf
  <2>2. DOMAIN taiCache = 1..Len(taiCache)
    BY DEF TypeOK
  <2> QED
    BY <2>1, <2>2, Zenon DEF OnlyAuthenticCached, Bounded
<1> QED
  BY <1>1, HandshakeInvariant, PTL
=============================================================================
