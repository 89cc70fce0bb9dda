--------------------------- MODULE DeliveryProofs ---------------------------
(***************************************************************************)
(* Proofs about data that passes through buffers: the bytes of a local     *)
(* connection, the fragments of a datagram and the entries of the log.     *)
(* They hold for any amount of data and any sizes of the buffers.          *)
(***************************************************************************)
EXTENDS LocalProxy, Datagram, LogRing, RunTheorems, FiniteSetTheorems, TLAPS

(***************************************************************************)
(* LocalProxy: the bytes of the client, in order.                          *)
(***************************************************************************)
\* The bytes of the client are runs.
LEMMA BytesIsRun == \A a, b : Bytes(a, b) = Run(a, b)
BY DEF Bytes, Run

\* The first g bytes have been written and those up to c are being written; the next
\* are in the reader, unless the relay has ended.
Ordered(g, c) ==
    /\ g <= c /\ c <= taken /\ (copyUp # "write" => c = g)
    /\ got = Run(0, g) /\ chunk = Run(g, c)
    /\ copyUp = "done" \/ buf = Run(c, taken)

\* Only a plain request is read in the handler, and the relay starts after that.
Phases ==
    /\ phase \notin {"relay", "close", "done"} => copyUp = "off"
    /\ phase \in {"body", "writeBody"} => kind = "plain"
    /\ arrived \in Nat /\ taken \in 0 .. arrived

ProxyInv ==
    Phases /\ (kind # "plain" => lost = {} /\ \E g, c \in Nat : Ordered(g, c))

\* Nothing has been read yet.
LEMMA ProxyInitially == ProxyInit => ProxyInv
<1> SUFFICES ASSUME ProxyInit PROVE ProxyInv
  OBVIOUS
<1>1. Phases
  BY DEF ProxyInit, Phases
<1>2. Ordered(0, 0)
  BY RunEmpty DEF ProxyInit, Ordered
<1> QED
  BY <1>1, <1>2 DEF ProxyInv, ProxyInit

\* Steps that move no bytes.
LEMMA QuietKeeps ==
    ASSUME ProxyInv, Phases', UNCHANGED <<kind, bytesVars>>,
           copyUp' = copyUp \/ (copyUp = "off" /\ copyUp' \in {"off", "read"})
    PROVE  ProxyInv'
<1> SUFFICES ASSUME kind # "plain" PROVE lost' = {} /\ \E g, c \in Nat : Ordered(g, c)'
  BY DEF ProxyInv
<1>1. PICK g \in Nat, c \in Nat : Ordered(g, c)
  BY DEF ProxyInv
<1>2. Ordered(g, c)'
  BY <1>1 DEF Ordered, bytesVars
<1> QED
  BY <1>2 DEF ProxyInv, bytesVars

\* Reading ahead puts the next bytes behind those in the reader.
LEMMA FillKeeps ==
    ASSUME ProxyInv, NEW n, Fill(n), copyUp = "off", Phases',
           UNCHANGED <<kind, chunk, got, lost, copyUp>>
    PROVE  ProxyInv'
<1> SUFFICES ASSUME kind # "plain" PROVE lost' = {} /\ \E g, c \in Nat : Ordered(g, c)'
  BY DEF ProxyInv
<1>1. PICK g \in Nat, c \in Nat : Ordered(g, c)
  BY DEF ProxyInv
<1>2. taken \in Nat /\ n \in Nat /\ taken <= n /\ c <= taken
  <2>1. Phases
    BY DEF ProxyInv
  <2> QED
    BY <1>1, <2>1 DEF Phases, Fill, Ordered
<1>3. Run(c, taken) \o Run(taken, n) = Run(c, n)
  BY <1>2, RunConcat, Zenon
<1>5. buf' = Run(c, n) /\ taken' = n
  BY <1>1, <1>3, BytesIsRun, Zenon DEF Ordered, Fill
<1>4. Ordered(g, c)'
  BY <1>1, <1>2, <1>5 DEF Ordered
<1> QED
  BY <1>4 DEF ProxyInv

\* The steps of the handler.
LEMMA HandlerKeepsOrder == ASSUME ProxyInv, HandlerStep PROVE ProxyInv'
<1>1. CASE BadRequest \/ RouteReject \/ DialOpens \/ DialRefused \/ ReplyOK \/ ReplyFails \/ EndBody
             \/ Relay \/ CloseUpstream \/ CloseConn \/ HandlerReturns
  <2>1. UNCHANGED <<kind, bytesVars>> /\ (copyUp' = copyUp \/ (copyUp = "off" /\ copyUp' \in {"off", "read"}))
    BY <1>1 DEF ProxyInv, Phases, BadRequest, RouteReject, DialOpens, DialRefused, ReplyOK, ReplyFails,
                EndBody, StartRelay, FailHTTP, Relay, CloseUpstream, CloseConn, HandlerReturns, copyVars
  <2>2. Phases'
    BY <1>1 DEF ProxyInv, Phases, BadRequest, RouteReject, DialOpens, DialRefused, ReplyOK, ReplyFails,
                EndBody, StartRelay, FailHTTP, Relay, CloseUpstream, CloseConn, HandlerReturns, copyVars,
                bytesVars, worldVars, HTTP
  <2> QED
    BY <2>1, <2>2, QuietKeeps
<1>2. CASE ReadRequest
  <2>1. Phases'
    BY <1>2 DEF ProxyInv, Phases, ReadRequest, Fill, copyVars, worldVars
  <2>2. CASE HTTP
    BY <1>2, <2>1, <2>2, FillKeeps DEF ReadRequest, copyVars, ProxyInv, Phases
  <2>3. CASE ~HTTP
    BY <1>2, <2>1, <2>3, QuietKeeps DEF ReadRequest, copyVars, bytesVars
  <2> QED
    BY <2>2, <2>3
<1>3. CASE SniffSNI
  <2>1. Phases'
    BY <1>3 DEF ProxyInv, Phases, SniffSNI, Fill, copyVars, worldVars
  <2> QED
    BY <1>3, <2>1, FillKeeps DEF SniffSNI, copyVars, ProxyInv, Phases
<1>4. CASE Route
  <2>1. Phases'
    BY <1>4 DEF ProxyInv, Phases, Route, copyVars, worldVars
  <2>2. CASE kind = "plain"
    BY <1>4, <2>1, <2>2 DEF ProxyInv, Route
  <2>3. CASE kind # "plain"
    BY <1>4, <2>1, <2>3, QuietKeeps DEF Route, copyVars, bytesVars
  <2> QED
    BY <2>2, <2>3
<1>5. CASE Flush
  <2>1. Phases'
    BY <1>5 DEF ProxyInv, Phases, Flush, StartRelay, FailHTTP, copyVars, worldVars
  <2>2. CASE UNCHANGED <<got, buf>>
    BY <1>5, <2>1, <2>2, QuietKeeps DEF Flush, StartRelay, FailHTTP, copyVars, bytesVars, ProxyInv, Phases
  <2>3. CASE Accepted(buf) /\ buf' = <<>> /\ StartRelay
    <3> SUFFICES ASSUME kind # "plain" PROVE lost' = {} /\ \E g, c \in Nat : Ordered(g, c)'
      BY <1>5, <2>1 DEF ProxyInv, Flush
    <3>1. PICK g \in Nat, c \in Nat : Ordered(g, c)
      BY DEF ProxyInv
    <3>2. copyUp = "off" /\ c = g /\ taken \in Nat /\ taken' = taken /\ chunk' = chunk
      BY <1>5, <3>1 DEF ProxyInv, Phases, Flush, Ordered
    <3>6. Run(0, g) \o Run(g, taken) = Run(0, taken)
      <4>1. 0 \in Nat /\ 0 <= g /\ g <= taken
        BY <3>1, <3>2 DEF Ordered
      <4> QED
        BY <3>2, <4>1, RunConcat, Zenon
    <3>3. got' = Run(0, taken)
      BY <2>3, <3>1, <3>2, <3>6 DEF Accepted, Ordered
    <3>4. chunk' = Run(taken, taken) /\ buf' = Run(taken, taken)
      BY <2>3, <3>1, <3>2, RunEmpty DEF Ordered
    <3>5. Ordered(taken, taken)'
      BY <2>3, <3>2, <3>3, <3>4 DEF Ordered, StartRelay
    <3> QED
      BY <1>5, <3>2, <3>5 DEF ProxyInv, Flush
  <2> QED
    BY <1>5, <2>2, <2>3 DEF Flush
<1>6. CASE ReadBody \/ WriteBody
  <2>0. Phases
    BY DEF ProxyInv
  <2>1. Phases'
    <3>1. CASE ReadBody
      BY <2>0, <3>1 DEF Phases, ReadBody, copyVars, worldVars
    <3>2. CASE WriteBody
      BY <2>0, <3>2 DEF Phases, WriteBody, FailHTTP, copyVars, worldVars
    <3> QED
      BY <1>6, <3>1, <3>2
  <2>2. kind' = "plain"
    BY <1>6 DEF ProxyInv, Phases, ReadBody, WriteBody
  <2> QED
    BY <2>1, <2>2 DEF ProxyInv
<1> QED
  BY <1>1, <1>2, <1>3, <1>4, <1>5, <1>6 DEF HandlerStep

\* io.Copy takes the bytes in the reader first, and writes what it has read.
LEMMA CopyKeepsOrder == ASSUME ProxyInv, CopyStep PROVE ProxyInv'
<1>0. Phases
  BY DEF ProxyInv
<1>1. Phases'
  <2>1. CASE CopyUpReads
    <3>1. taken' \in 0 .. arrived
      BY <1>0, <2>1 DEF Phases, CopyUpReads
    <3> QED
      BY <1>0, <2>1, <3>1 DEF Phases, CopyUpReads, worldVars
  <2>2. CASE CopyUpWrites
    BY <1>0, <2>2 DEF Phases, CopyUpWrites, worldVars
  <2> QED
    BY <2>1, <2>2 DEF CopyStep
<1> SUFFICES ASSUME kind # "plain" PROVE lost' = {} /\ \E g, c \in Nat : Ordered(g, c)'
  BY <1>1 DEF ProxyInv, CopyStep, CopyUpReads, CopyUpWrites
<1>2. PICK g \in Nat, c \in Nat : Ordered(g, c)
  BY DEF ProxyInv
<1>9. lost' = {}
  BY DEF ProxyInv, CopyStep, CopyUpReads, CopyUpWrites
<1>3. taken \in Nat /\ arrived \in Nat /\ lost' = {}
  BY <1>0, <1>9 DEF Phases
<1>4. CASE copyUp = "read" /\ buf # <<>> /\ chunk' = buf /\ buf' = <<>> /\ copyUp' = "write" /\ UNCHANGED <<got, taken>>
  <2>1. c = g /\ buf' = Run(taken, taken)
    BY <1>2, <1>3, <1>4, RunEmpty DEF Ordered
  <2>2. Ordered(g, taken)'
    BY <1>2, <1>3, <1>4, <2>1 DEF Ordered
  <2> QED
    BY <1>3, <1>4, <2>2
<1>5. CASE /\ copyUp = "read" /\ buf = <<>> /\ taken' \in taken + 1 .. arrived /\ chunk' = Run(taken, taken')
           /\ copyUp' = "write" /\ UNCHANGED <<got, buf>>
  <2>1. taken' \in Nat /\ taken <= taken'
    BY <1>3, <1>5
  <2>2. c = g /\ buf = Run(g, taken)
    BY <1>2, <1>5 DEF Ordered
  <2>3. g = taken
    BY <1>2, <1>3, <1>5, <2>2, RunIsEmpty DEF Ordered
  <2>4. buf' = Run(taken', taken')
    BY <1>5, <2>1, RunEmpty
  <2>5. PICK n \in Nat : n = taken'
    BY <2>1
  <2>6. Ordered(g, n)'
    BY <1>2, <1>3, <1>5, <2>1, <2>3, <2>4, <2>5 DEF Ordered
  <2> QED
    BY <1>3, <2>6
<1>6. CASE copyUp = "read" /\ copyUp' = "done" /\ UNCHANGED <<got, chunk, taken>>
  BY <1>2, <1>3, <1>6 DEF Ordered
<1>7. CASE copyUp = "write" /\ Accepted(chunk) /\ copyUp' = "read" /\ chunk' = <<>> /\ UNCHANGED <<taken, buf>>
  <2>3. Run(0, g) \o Run(g, c) = Run(0, c)
    <3>1. 0 \in Nat /\ 0 <= g /\ g <= c
      BY <1>2 DEF Ordered
    <3> QED
      BY <3>1, RunConcat, Zenon
  <2>1. got' = Run(0, c) /\ chunk' = Run(c, c)
    BY <1>2, <1>7, <2>3, RunEmpty DEF Ordered, Accepted
  <2>2. Ordered(c, c)'
    BY <1>2, <1>3, <1>7, <2>1 DEF Ordered
  <2> QED
    BY <1>3, <2>2
<1>8. CASE copyUp = "write" /\ copyUp' = "done" /\ chunk' = <<>> /\ UNCHANGED <<got, taken, buf>>
  <2>1. Ordered(g, g)'
    BY <1>2, <1>3, <1>8, RunEmpty DEF Ordered
  <2> QED
    BY <1>3, <2>1
<1> QED
  BY <1>4, <1>5, <1>6, <1>7, <1>8, BytesIsRun DEF CopyStep, CopyUpReads, CopyUpWrites

\* BytesInOrder: what reaches upstream is what the client sent.
THEOREM ForwardedInOrder == ProxySpec => []BytesInOrder
<1>1. ProxyInv /\ [ProxyNext]_proxyVars => ProxyInv'
  <2> SUFFICES ASSUME ProxyInv, [ProxyNext]_proxyVars PROVE ProxyInv'
    OBVIOUS
  <2>1. CASE UNCHANGED proxyVars \/ CopyDownStep \/ ByteArrives \/ ClientGone \/ RemoteGone
    <3>1. UNCHANGED <<kind, bytesVars, copyUp>>
      BY <2>1 DEF proxyVars, copyVars, CopyDownStep, CopyDownReads, CopyDownWrites, CopyDownEnds,
                   ByteArrives, ClientGone, RemoteGone
    <3>0. Phases
      BY DEF ProxyInv
    <3>2. phase' = phase /\ taken' = taken /\ (arrived' = arrived \/ arrived' = arrived + 1)
      BY <2>1 DEF proxyVars, bytesVars, worldVars, CopyDownStep, CopyDownReads, CopyDownWrites, CopyDownEnds,
                   ByteArrives, ClientGone, RemoteGone
    <3>3. arrived' \in Nat /\ taken' \in 0 .. arrived'
      BY <3>0, <3>2 DEF Phases
    <3>4. Phases'
      BY <3>0, <3>1, <3>2, <3>3 DEF Phases
    <3> QED
      BY <3>1, <3>4, QuietKeeps
  <2> QED
    BY <2>1, HandlerKeepsOrder, CopyKeepsOrder DEF ProxyNext
<1>2. ProxyInv => BytesInOrder
  <2> SUFFICES ASSUME ProxyInv, kind # "plain" PROVE Len(got) <= arrived /\ got = Run(0, Len(got)) /\ lost = {}
    BY BytesIsRun DEF BytesInOrder, FromStart
  <2>1. PICK g \in Nat, c \in Nat : Ordered(g, c)
    BY DEF ProxyInv
  <2>3. Phases
    BY DEF ProxyInv
  <2>2. g <= arrived /\ arrived \in Nat /\ got = Run(0, g)
    BY <2>1, <2>3 DEF Phases, Ordered
  <2>4. Len(got) = g
    <3>1. 0 \in Nat /\ 0 <= g /\ g - 0 = g
      OBVIOUS
    <3> QED
      BY <2>2, <3>1, RunSeq
  <2> QED
    BY <2>2, <2>4 DEF ProxyInv
<1> QED
  BY <1>1, <1>2, ProxyInitially, PTL DEF ProxySpec

(***************************************************************************)
(* Datagram: packets of any length, any number of identifiers.             *)
(***************************************************************************)
\* Of the first m packets, the ones with an identifier.
Sent(k, m) == {p \in 1 .. m : PktID(p) = k}

\* Fragments that were sent under an identifier, each at its index.
FragmentsOK(fr, k, m) ==
    \A i \in DOMAIN fr :
        i \in Nat /\ \E p \in Sent(k, m) : i < FragTotal(p) /\ fr[i] = <<p, i + 1>>

\* An entry: none, or fragments, and the total of a packet that was sent.
EntryOK(e, k, m) ==
    /\ e = [total |-> e.total, age |-> e.age, fragments |-> e.fragments]
    /\ FragmentsOK(e.fragments, k, m)
    /\ e.total = 0 \/ \E p \in Sent(k, m) : e.total = FragTotal(p)

EntriesOK(es, m) == DOMAIN es = 0 .. PktIDs - 1 /\ \A k \in 0 .. PktIDs - 1 : EntryOK(es[k], k, m)

DatagramInv ==
    /\ sentPkts \in 0 .. Len(Length)
    /\ \A f \in network : \E p \in 1 .. sentPkts : f \in Fragment(p)
    /\ EntriesOK(entries, sentPkts)
    /\ DeliveredIntact

LEMMA PacketTypes ==
    ASSUME NEW p \in 1 .. Len(Length)
    PROVE  FragTotal(p) \in Nat \ {0} /\ PktID(p) \in 0 .. PktIDs - 1
<1>1. Length \in Seq(Nat \ {0}) /\ PktIDs \in Nat \ {0} /\ MaxFrags \in Nat \ {0} /\ Len(Length) \in Nat
  BY DatagramAssumption, LenProperties
<1>2. Length[p] \in Nat \ {0} /\ p \in Nat
  BY <1>1, ElementOfSeq
<1>3. FragTotal(p) \in Nat \ {0}
  BY <1>1, <1>2 DEF FragTotal
<1>4. PktID(p) \in 0 .. PktIDs - 1
  BY <1>1, <1>2 DEF PktID
<1> QED
  BY <1>3, <1>4

\* A slot without an entry.
LEMMA NoEntryOK == ASSUME NEW k, NEW m PROVE EntryOK(NoEntry, k, m)
<1>1. NoEntry.total = 0 /\ NoEntry.age = 0 /\ NoEntry.fragments = <<>>
  BY DEF NoEntry
<1>2. \A i \in DOMAIN <<>> : FALSE
  OBVIOUS
<1> QED
  BY <1>1, <1>2 DEF EntryOK, FragmentsOK, NoEntry

\* A fragment that was sent is added to the entry of its identifier.
LEMMA FragmentAdded ==
    ASSUME NEW m \in 0 .. Len(Length), NEW e, NEW p \in 1 .. m, NEW f \in Fragment(p), EntryOK(e, PktID(p), m)
    PROVE  EntryOK(WithFragment(e, f), PktID(p), m) /\ WithFragment(e, f).total # 0
<1> DEFINE w == WithFragment(e, f)
           k == PktID(p)
           fr == [i \in DOMAIN e.fragments \cup {f.frag} |-> IF i = f.frag THEN f.payload ELSE e.fragments[i]]
           t == IF e.total = 0 THEN f.total ELSE e.total
<1>1. p \in 1 .. Len(Length) /\ FragTotal(p) \in Nat \ {0} /\ p \in Sent(k, m)
  BY DatagramAssumption, LenProperties, PacketTypes DEF Sent
<1>2. PICK j \in 0 .. FragTotal(p) - 1 :
          f = [id |-> k, frag |-> j, total |-> FragTotal(p), payload |-> <<p, j + 1>>]
  BY DEF Fragment
<1>3. f.frag = j /\ f.total = FragTotal(p) /\ f.payload = <<p, j + 1>> /\ j \in Nat /\ j < FragTotal(p)
  BY <1>1, <1>2
<1>4. w = [total |-> t, age |-> e.age, fragments |-> fr]
  BY DEF WithFragment
<1> HIDE DEF t, w
<1>5. w.total = t /\ w.fragments = fr /\ w.age = e.age
  BY <1>4
<1>6. FragmentsOK(fr, k, m)
  <2>1. ASSUME NEW i \in DOMAIN fr
        PROVE  i \in Nat /\ \E q \in Sent(k, m) : i < FragTotal(q) /\ fr[i] = <<q, i + 1>>
    <3>1. CASE i = f.frag
      <4>1. fr[i] = <<p, j + 1>> /\ i = j
        BY <1>3, <3>1
      <4> QED
        BY <1>1, <1>3, <4>1
    <3>2. CASE i # f.frag
      <4>1. i \in DOMAIN e.fragments /\ fr[i] = e.fragments[i]
        BY <3>2
      <4> QED
        BY <4>1 DEF EntryOK, FragmentsOK
    <3> QED
      BY <3>1, <3>2, Zenon
  <2> QED
    BY <2>1, Zenon DEF FragmentsOK
<1> HIDE DEF fr
<1>7. t # 0 /\ \E q \in Sent(k, m) : t = FragTotal(q)
  <2>1. CASE e.total = 0
    BY <1>1, <1>3, <2>1 DEF t
  <2>2. CASE e.total # 0
    BY <2>2 DEF t, EntryOK
  <2> QED
    BY <2>1, <2>2
<1>8. EntryOK(w, k, m)
  BY <1>4, <1>5, <1>6, <1>7 DEF EntryOK
<1> QED
  BY <1>5, <1>7, <1>8 DEF w

\* What is handed over when an entry is complete.
LEMMA CombinedIntact ==
    ASSUME NEW m \in 0 .. Len(Length), NEW e, NEW k, EntryOK(e, k, m), e.total # 0, Complete(e)
    PROVE  \/ \E p \in 1 .. m : Combined(e) = Units(p)
           \/ \E p, q \in 1 .. m :
                  /\ p # q /\ PktID(p) = PktID(q)
                  /\ \A i \in DOMAIN Combined(e) :
                         Combined(e)[i][1] \in 1 .. m /\ PktID(Combined(e)[i][1]) = PktID(p)
<1>1. PICK p \in Sent(k, m) : e.total = FragTotal(p)
  BY DEF EntryOK
<1>2. p \in 1 .. m /\ PktID(p) = k /\ FragTotal(p) \in Nat \ {0}
  BY DatagramAssumption, LenProperties, PacketTypes DEF Sent
<1>3. PICK n \in Nat : n = e.total
  BY <1>1, <1>2
<1> DEFINE there == {i \in 1 .. n : i - 1 \in DOMAIN e.fragments}
           s == [i \in 1 .. n |-> IF i \in there THEN e.fragments[i - 1] ELSE <<>>]
<1>4. Combined(e) = Picked(s, there)
  BY <1>3 DEF Combined
<1>5. \A i \in there : s[i] = e.fragments[i - 1] /\ i - 1 \in DOMAIN e.fragments
  OBVIOUS
<1>6. DOMAIN s = 1 .. n
  OBVIOUS
<1>7. Len(s) = n
  BY <1>6
<1>8. CASE Sent(k, m) = {p}
  <2>1. \A i \in DOMAIN e.fragments : i \in 0 .. n - 1 /\ e.fragments[i] = <<p, i + 1>>
    BY <1>1, <1>2, <1>3, <1>8 DEF EntryOK, FragmentsOK
  <2>2. IsFiniteSet(0 .. n - 1) /\ Cardinality(0 .. n - 1) = n
    <3>1. 0 \in Int /\ n - 1 \in Int /\ (IF 0 > n - 1 THEN 0 ELSE (n - 1) - 0 + 1) = n
      BY <1>1, <1>2, <1>3
    <3> QED
      BY <3>1, FS_Interval, Zenon
  <2>3. DOMAIN e.fragments \in SUBSET (0 .. n - 1)
    BY <2>1
  <2>4. Cardinality(DOMAIN e.fragments) = n
    BY <1>3 DEF Complete
  <2>5. DOMAIN e.fragments = 0 .. n - 1
    BY <2>2, <2>3, <2>4, FS_Subset
  <2>6. \A i \in 1 .. n : i \in there /\ s[i] = <<p, i>>
    <3> TAKE i \in 1 .. n
    <3>1. i - 1 \in 0 .. n - 1 /\ (i - 1) + 1 = i
      OBVIOUS
    <3> QED
      BY <1>5, <2>1, <2>5, <3>1
  <2>7. s \in Seq(Nat \X Nat) /\ SubSeq(s, 1, n) = s
    <3> DEFINE T == Nat \X Nat
    <3>1. p \in Nat /\ \A i \in 1 .. n : <<p, i>> \in T
      BY <1>2
    <3> HIDE DEF T
    <3>2. s \in [1 .. n -> T]
      BY <2>6, <3>1, Zenon
    <3>3. s \in Seq(T)
      BY <3>2, SeqDef
    <3> QED
      BY <1>7, <3>3, SubSeqFull DEF T
  <2>8. s = Units(p)
    <3>1. s = [i \in 1 .. n |-> <<p, i>>]
      BY <2>6, Zenon
    <3> QED
      BY <1>1, <1>3, <3>1 DEF Units
  <2> HIDE DEF s, there
  <2>9. Picked(s, there) = SubSeq(s, 0 + 1, n)
    <3>1. 0 \in 0 .. Len(s) /\ \A i \in 1 .. Len(s) : i \in there <=> i > 0
      BY <1>7, <2>6
    <3>2. Picked(s, there) = SubSeq(s, 0 + 1, Len(s))
      BY <2>7, <3>1, PickedRest
    <3> QED
      BY <1>7, <3>2
  <2>10. Picked(s, there) = s
    BY <2>7, <2>9
  <2> QED
    BY <1>2, <1>4, <2>8, <2>10
<1>9. CASE Sent(k, m) # {p}
  <2>1. PICK q \in 1 .. m : q # p /\ PktID(q) = PktID(p)
    BY <1>2, <1>9 DEF Sent
  <2> DEFINE T == Sent(k, m) \X Nat
  <2> HIDE DEF s, there
  <2>2. ASSUME NEW i \in 1 .. n, i \in there PROVE s[i] \in T
    <3>1. PICK j \in DOMAIN e.fragments : s[i] = e.fragments[j]
      BY <1>5, <2>2
    <3>2. PICK r \in Sent(k, m) : j \in Nat /\ e.fragments[j] = <<r, j + 1>>
      BY DEF EntryOK, FragmentsOK
    <3>3. j + 1 \in Nat
      BY <3>2
    <3> QED
      BY <3>1, <3>2, <3>3
  <2>3. \A u \in T : u[1] \in Sent(k, m)
    OBVIOUS
  <2> HIDE DEF T
  <2>4. Combined(e) \in Seq(T)
    BY <1>4, <1>7, <2>2, PickedSeq
  <2>5. \A i \in DOMAIN Combined(e) : Combined(e)[i] \in T
    BY <2>4, ElementOfSeq, LenProperties
  <2>6. \A i \in DOMAIN Combined(e) : Combined(e)[i][1] \in 1 .. m /\ PktID(Combined(e)[i][1]) = PktID(p)
    BY <1>2, <2>3, <2>5 DEF Sent
  <2> QED
    BY <1>2, <2>1, <2>6
<1> QED
  BY <1>8, <1>9
LEMMA DatagramInitially == DatagramInit => DatagramInv
<1> SUFFICES ASSUME DatagramInit PROVE DatagramInv
  OBVIOUS
<1>1. sentPkts \in 0 .. Len(Length)
  BY DatagramAssumption, LenProperties DEF DatagramInit
<1>2. EntriesOK(entries, sentPkts)
  BY NoEntryOK DEF EntriesOK, DatagramInit
<1> QED
  BY <1>1, <1>2 DEF DatagramInv, DeliveredIntact, DatagramInit

\* What was sent stays sent.
LEMMA EntriesStay ==
    ASSUME NEW m \in Nat, NEW n \in Nat, m <= n, NEW es, EntriesOK(es, m)
    PROVE  EntriesOK(es, n)
<1>1. \A k : Sent(k, m) \subseteq Sent(k, n)
  BY DEF Sent
<1>2. ASSUME NEW k \in 0 .. PktIDs - 1 PROVE EntryOK(es[k], k, n)
  <2>1. FragmentsOK(es[k].fragments, k, n)
    BY <1>1 DEF EntriesOK, EntryOK, FragmentsOK
  <2> QED
    BY <1>1, <2>1 DEF EntriesOK, EntryOK
<1> QED
  BY <1>2 DEF EntriesOK

\* cleanup drops whole entries.
LEMMA CleanedOK == ASSUME NEW m, EntriesOK(entries, m) PROVE EntriesOK(Cleaned, m)
  BY NoEntryOK DEF EntriesOK, Cleaned

LEMMA SendPacketKeeps == DatagramInv /\ SendPacket => DatagramInv'
<1> SUFFICES ASSUME DatagramInv, SendPacket PROVE DatagramInv'
  OBVIOUS
<1>1. sentPkts \in Nat /\ sentPkts' = sentPkts + 1 /\ sentPkts' \in 0 .. Len(Length)
  BY DatagramAssumption, LenProperties DEF DatagramInv, SendPacket
<1>2. 1 .. sentPkts \subseteq 1 .. sentPkts' /\ sentPkts' \in 1 .. sentPkts' /\ sentPkts' \in Nat /\ sentPkts <= sentPkts'
  BY <1>1
<1>3. \A f \in network' : \E p \in 1 .. sentPkts' : f \in Fragment(p)
  BY <1>2, Zenon DEF DatagramInv, SendPacket
<1>4. EntriesOK(entries', sentPkts')
  BY <1>1, <1>2, EntriesStay DEF DatagramInv, SendPacket
<1>5. DeliveredIntact'
  <2>1. delivered' = delivered
    BY DEF SendPacket
  <2> QED
    BY <1>2, <2>1, Zenon DEF DatagramInv, DeliveredIntact
<1> QED
  BY <1>1, <1>3, <1>4, <1>5 DEF DatagramInv

LEMMA TickKeeps == DatagramInv /\ DatagramTick => DatagramInv'
<1> SUFFICES ASSUME DatagramInv, DatagramTick PROVE DatagramInv'
  OBVIOUS
<1>1. UNCHANGED <<sentPkts, network, delivered>>
  BY DEF DatagramTick
<1>2. ASSUME NEW k \in 0 .. PktIDs - 1 PROVE EntryOK(entries'[k], k, sentPkts)
  <2> DEFINE e == entries[k]
  <2>1. EntryOK(e, k, sentPkts) /\ k \in DOMAIN entries
    BY DEF DatagramInv, EntriesOK
  <2>2. entries'[k] = e \/ entries'[k] = [e EXCEPT !.age = e.age + 1]
    BY <2>1 DEF DatagramTick
  <2>3. e = [total |-> e.total, age |-> e.age, fragments |-> e.fragments]
    BY <2>1 DEF EntryOK
  <2> HIDE DEF e
  <2>4. CASE entries'[k] = [e EXCEPT !.age = e.age + 1]
    <3>1. entries'[k] = [total |-> e.total, age |-> e.age + 1, fragments |-> e.fragments]
      BY <2>3, <2>4
    <3>2. entries'[k].total = e.total /\ entries'[k].age = e.age + 1 /\ entries'[k].fragments = e.fragments
      BY <3>1
    <3> QED
      BY <2>1, <3>1, <3>2 DEF EntryOK
  <2> QED
    BY <2>1, <2>2, <2>4
<1>3. DOMAIN entries' = 0 .. PktIDs - 1
  BY DEF DatagramTick, DatagramInv, EntriesOK
<1>4. EntriesOK(entries', sentPkts)
  BY <1>2, <1>3 DEF EntriesOK
<1> QED
  BY <1>1, <1>4 DEF DatagramInv, DeliveredIntact

LEMMA ReceiveKeeps == ASSUME DatagramInv, NEW f \in network, ReceiveFragment(f) PROVE DatagramInv'
<1>1. UNCHANGED <<sentPkts, network>>
  BY DEF ReceiveFragment
<1>2. PICK p \in 1 .. sentPkts : f \in Fragment(p)
  BY DEF DatagramInv
<1>3. sentPkts \in Nat /\ sentPkts \in 0 .. Len(Length) /\ p \in 1 .. Len(Length) /\ FragTotal(p) \in Nat \ {0}
  BY DatagramAssumption, LenProperties, PacketTypes DEF DatagramInv
<1>4. PICK j \in 0 .. FragTotal(p) - 1 :
          f = [id |-> PktID(p), frag |-> j, total |-> FragTotal(p), payload |-> <<p, j + 1>>]
  BY <1>2 DEF Fragment
<1>5. f.id = PktID(p) /\ f.total = FragTotal(p) /\ f.payload = <<p, j + 1>> /\ f.id \in 0 .. PktIDs - 1
  BY <1>3, <1>4, PacketTypes
<1> DEFINE Whole(u) ==
               \/ \E q \in 1 .. sentPkts : u = Units(q)
               \/ \E q, r \in 1 .. sentPkts :
                      /\ q # r /\ PktID(q) = PktID(r)
                      /\ \A i \in DOMAIN u : u[i][1] \in 1 .. sentPkts /\ PktID(u[i][1]) = PktID(q)
<1>6. ASSUME NEW u, Whole(u), HandOver(u) PROVE DeliveredIntact'
  <2>1. delivered' = u \/ delivered' = delivered
    BY <1>6 DEF HandOver
  <2>2. CASE delivered' = u
    BY <1>1, <1>6, <2>2, Zenon DEF DeliveredIntact
  <2>3. CASE delivered' = delivered
    BY <1>1, <2>3, Zenon DEF DeliveredIntact, DatagramInv
  <2> QED
    BY <2>1, <2>2, <2>3
<1>7. CASE f.total <= 1
  <2>1. FragTotal(p) = 1 /\ j = 0
    BY <1>3, <1>5, <1>7
  <2>2. HandOver(<<f.payload>>) /\ entries' = entries
    BY <1>7 DEF ReceiveFragment
  <2>3. <<f.payload>> = Units(p)
    BY <1>5, <2>1 DEF Units
  <2>4. DeliveredIntact'
    BY <1>6, <2>2, <2>3
  <2> QED
    BY <1>1, <2>2, <2>4 DEF DatagramInv
<1>8. CASE ~(f.total <= 1)
  <2> DEFINE es == Cleaned
             e == WithFragment(es[f.id], f)
             k == f.id
  <2>1. EntriesOK(es, sentPkts)
    BY CleanedOK DEF DatagramInv
  <2>2. EntryOK(e, k, sentPkts) /\ e.total # 0
    <3>1. EntryOK(es[k], PktID(p), sentPkts)
      BY <1>5, <2>1 DEF EntriesOK
    <3> HIDE DEF es
    <3> QED
      BY <1>2, <1>3, <1>5, <3>1, FragmentAdded
  <2>3. \/ entries' = es /\ delivered' = delivered
        \/ Complete(e) /\ entries' = [es EXCEPT ![k] = NoEntry] /\ HandOver(Combined(e))
        \/ entries' = [es EXCEPT ![k] = e] /\ delivered' = delivered
    BY <1>8 DEF ReceiveFragment
  <2> HIDE DEF es, e
  <2>4. EntriesOK([es EXCEPT ![k] = NoEntry], sentPkts) /\ EntriesOK([es EXCEPT ![k] = e], sentPkts)
    BY <1>5, <2>1, <2>2, NoEntryOK DEF EntriesOK
  <2>5. EntriesOK(entries', sentPkts)
    BY <2>1, <2>3, <2>4, Zenon
  <2>6. DeliveredIntact'
    <3>1. CASE delivered' = delivered
      BY <1>1, <3>1, Zenon DEF DeliveredIntact, DatagramInv
    <3>2. CASE Complete(e) /\ HandOver(Combined(e))
      <4>1. Whole(Combined(e))
        BY <1>3, <2>2, <3>2, CombinedIntact, ZenonT(30)
      <4> QED
        BY <1>6, <3>2, <4>1
    <3> QED
      BY <2>3, <3>1, <3>2
  <2> QED
    BY <1>1, <2>5, <2>6 DEF DatagramInv
<1> QED
  BY <1>7, <1>8

\* Whatever the network loses, repeats or reorders, and whenever entries are cleaned up
\* or refused, the packet that the reassembler hands to the relay is one that was sent,
\* whole; fragments are mixed only between packets that were sent with the same
\* identifier.
THEOREM DeliveredAsSent == DatagramSpec => []DeliveredIntact
<1>1. DatagramInit => DatagramInv
  BY DatagramInitially
<1>2. DatagramInv /\ [DatagramNext]_datagramVars => DatagramInv'
  <2> SUFFICES ASSUME DatagramInv, [DatagramNext]_datagramVars PROVE DatagramInv'
    OBVIOUS
  <2>1. CASE SendPacket
    BY <2>1, SendPacketKeeps
  <2>2. CASE DatagramTick
    BY <2>2, TickKeeps
  <2>3. ASSUME NEW f \in network, ReceiveFragment(f) PROVE DatagramInv'
    BY <2>3, ReceiveKeeps
  <2>4. CASE UNCHANGED <<sentPkts, network, entries, delivered>>
    BY <2>4 DEF DatagramInv, DeliveredIntact
  <2>5. SessionDies \/ ReceiverReturns \/ RepliesTimeOut \/ RepliesEnd
            => UNCHANGED <<sentPkts, network, entries, delivered>>
    BY DEF SessionDies, ReceiverReturns, RepliesTimeOut, RepliesEnd
  <2>6. CASE UNCHANGED datagramVars
    BY <2>4, <2>6 DEF datagramVars
  <2> QED
    BY <2>1, <2>2, <2>3, <2>4, <2>5, <2>6 DEF DatagramNext
<1>3. DatagramInv => DeliveredIntact
  BY DEF DatagramInv
<1> QED
  BY <1>1, <1>2, <1>3, PTL DEF DatagramSpec

(***************************************************************************)
(* LogRing: a ring of any size, followers of any speed.                    *)
(***************************************************************************)
\* Where the indices of the ring wrap.
LEMMA Wraps ==
    ASSUME NEW R \in Nat \ {0}, NEW x \in 0 .. R - 1
    PROVE  x % R = x /\ (x + R) % R = x
OBVIOUS

\* The index before which the newest entry is, and what the entries before and after it are.
Filled ==
    /\ ~ringFull => nextIdx = seq
    /\ ringFull => seq - nextIdx >= RingSize
    /\ \A i \in 0 .. RingSize - 1 :
           /\ i < nextIdx => ring[i] = seq - nextIdx + i + 1
           /\ ringFull /\ i >= nextIdx => ring[i] = seq - nextIdx - RingSize + i + 1

LogInv ==
    /\ seq \in Nat /\ nextIdx \in 0 .. RingSize - 1 /\ ringFull \in BOOLEAN
    /\ ring \in [0 .. RingSize - 1 -> Nat]
    /\ limit \in Nat \ {0} /\ cursor \in Nat
    /\ Filled /\ TailUnbroken

\* The greatest of three numbers.
LEMMA GreatestOf ==
    ASSUME NEW a \in Int, NEW b \in Int, NEW c \in Int
    PROVE  LET m == CHOOSE f \in {a, b, c} : \A g \in {a, b, c} : g <= f
           IN  m \in {a, b, c} /\ a <= m /\ b <= m /\ c <= m
<1>1. \E f \in {a, b, c} : \A g \in {a, b, c} : g <= f
  <2>1. (b <= a /\ c <= a) \/ (a <= b /\ c <= b) \/ (a <= c /\ b <= c)
    OBVIOUS
  <2>2. a <= a /\ b <= b /\ c <= c
    OBVIOUS
  <2> QED
    BY <2>1, <2>2
<1> QED
  BY <1>1

LEMMA LogInitially == ASSUME LogInit PROVE LogInv
<1>1. TailUnbroken
  <2> DEFINE first == CHOOSE f \in {since, upTo - RingSize, upTo - limit} :
                          \A g \in {since, upTo - RingSize, upTo - limit} : g <= f
  <2>1. since \in Nat /\ upTo = 0 /\ RingSize \in Nat /\ limit \in Nat /\ batch = <<>>
    BY RingAssumption DEF LogInit
  <2>2. first \in Int /\ since <= first
    BY <2>1, GreatestOf
  <2> HIDE DEF first
  <2>3. ~(upTo > first)
    BY <2>1, <2>2
  <2>4. [i \in 1 .. 0 |-> first + i] = <<>>
    OBVIOUS
  <2> QED
    BY <2>1, <2>3, <2>4 DEF TailUnbroken, first
<1>2. Filled
  BY RingAssumption DEF LogInit, Filled
<1>3. RingSize \in Nat \ {0} /\ MaxSeq \in Nat
  BY RingAssumption
<1>4. limit \in Nat \ {0} /\ cursor \in Nat
  BY <1>3 DEF LogInit
<1>5. ring \in [0 .. RingSize - 1 -> Nat] /\ nextIdx \in 0 .. RingSize - 1
  BY <1>3 DEF LogInit
<1>6. ringFull \in BOOLEAN /\ seq \in Nat
  BY Zenon DEF LogInit
<1> QED
  BY <1>1, <1>2, <1>4, <1>5, <1>6 DEF LogInv

\* A line is added; the ring wraps or not.
LEMMA AddKeeps == ASSUME LogInv, Add PROVE LogInv'
<1>0. /\ seq \in Nat /\ nextIdx \in Nat /\ nextIdx < RingSize /\ RingSize \in Nat \ {0} /\ seq' = seq + 1
      /\ nextIdx + 1 \in Nat
  BY RingAssumption DEF LogInv, Add
<1>1. UNCHANGED <<limit, cursor, since, batch, upTo>>
  BY DEF Add, followVars
<1>2. /\ ring' \in [0 .. RingSize - 1 -> Nat] /\ ring'[nextIdx] = seq + 1
      /\ \A i \in 0 .. RingSize - 1 : i # nextIdx => ring'[i] = ring[i]
  BY <1>0 DEF LogInv, Add
<1>3. CASE nextIdx + 1 < RingSize
  <2>1. nextIdx + 1 \in 0 .. RingSize - 1 /\ nextIdx' = nextIdx + 1
    <3>1. nextIdx + 1 \in 0 .. RingSize - 1
      BY <1>0, <1>3
    <3> QED
      BY <1>0, <3>1, Wraps DEF Add
  <2>2. ringFull' = ringFull
    BY <1>0, <2>1 DEF Add, LogInv
  <2>3. Filled'
    <3>1. ASSUME NEW i \in 0 .. RingSize - 1
          PROVE  /\ i < nextIdx' => ring'[i] = seq' - nextIdx' + i + 1
                 /\ ringFull' /\ i >= nextIdx' => ring'[i] = seq' - nextIdx' - RingSize + i + 1
      <4>1. i \in Nat /\ seq' - nextIdx' = seq - nextIdx
        BY <1>0, <2>1
      <4>2. CASE i = nextIdx
        BY <1>0, <1>2, <2>1, <4>1, <4>2
      <4>3. CASE i # nextIdx
        <5>1. ring'[i] = ring[i]
          BY <1>2, <4>3
        <5>2. i < nextIdx' <=> i < nextIdx
          BY <1>0, <2>1, <4>1, <4>3
        <5>3. i >= nextIdx' => i >= nextIdx
          BY <1>0, <2>1, <4>1
        <5> QED
          BY <2>2, <4>1, <5>1, <5>2, <5>3 DEF LogInv, Filled
      <4> QED
        BY <4>2, <4>3
    <3>2. seq' - nextIdx' = seq - nextIdx
      BY <1>0, <2>1
    <3> QED
      BY <1>0, <2>1, <2>2, <3>1, <3>2 DEF LogInv, Filled
  <2> QED
    BY <1>0, <1>1, <1>2, <2>1, <2>2, <2>3 DEF LogInv, TailUnbroken
<1>4. CASE nextIdx + 1 = RingSize
  <2>1. nextIdx' = 0
    <3>1. (0 + RingSize) % RingSize = 0
      BY <1>0, Wraps
    <3> QED
      BY <1>0, <1>4, <3>1 DEF Add
  <2>2. ringFull' = TRUE
    BY <2>1, Zenon DEF Add
  <2>3. seq - nextIdx >= 0
    BY <1>0 DEF LogInv, Filled
  <2>4. ASSUME NEW i \in 0 .. RingSize - 1 PROVE ring'[i] = seq' - 0 - RingSize + i + 1
    <3>1. CASE i = nextIdx
      BY <1>0, <1>2, <1>4, <3>1
    <3>2. CASE i # nextIdx
      <4>1. i < nextIdx /\ ring'[i] = ring[i]
        BY <1>0, <1>2, <1>4, <3>2
      <4>2. ring[i] = seq - nextIdx + i + 1
        BY <4>1 DEF LogInv, Filled
      <4> QED
        BY <1>0, <1>4, <4>1, <4>2
    <3> QED
      BY <3>1, <3>2
  <2>5. Filled'
    <3>1. seq' - 0 >= RingSize
      BY <1>0, <1>4, <2>3
    <3>2. \A i \in 0 .. RingSize - 1 : ~(i < 0)
      OBVIOUS
    <3> QED
      BY <2>1, <2>2, <2>4, <3>1, <3>2 DEF Filled
  <2> QED
    BY <1>0, <1>1, <1>2, <2>1, <2>2, <2>5 DEF LogInv, TailUnbroken
<1> QED
  BY <1>0, <1>3, <1>4

\* The entries are the newest RingSize of those that were logged, in order.
LEMMA EntriesAreRun ==
    ASSUME LogInv
    PROVE  \E a \in Nat : /\ a <= seq /\ Entries = Run(a, seq)
                          /\ (a = 0 /\ seq < RingSize) \/ a = seq - RingSize
<1>0. /\ seq \in Nat /\ nextIdx \in Nat /\ nextIdx < RingSize /\ RingSize \in Nat \ {0}
      /\ ringFull \in BOOLEAN
  BY RingAssumption DEF LogInv
<1>1. CASE ~ringFull
  <2>1. nextIdx = seq
    BY <1>1 DEF LogInv, Filled
  <2>2. Entries = [i \in 1 .. seq |-> ring[(0 + i - 1) % RingSize]]
    BY <1>1, <2>1 DEF Entries
  <2>3. ASSUME NEW i \in 1 .. seq PROVE ring[(0 + i - 1) % RingSize] = 0 + i
    <3>1. PICK x \in 0 .. RingSize - 1 : x = 0 + i - 1 /\ x < nextIdx
      BY <1>0, <2>1
    <3>2. x % RingSize = x
      BY <1>0, Wraps
    <3>3. ring[x] = seq - nextIdx + x + 1
      BY <3>1 DEF LogInv, Filled
    <3>4. seq - nextIdx + x + 1 = 0 + i
      BY <1>0, <2>1, <3>1
    <3> QED
      BY <3>1, <3>2, <3>3, <3>4
  <2>4. seq - 0 = seq
    BY <1>0
  <2>5. Entries = Run(0, seq)
    BY <2>2, <2>3, <2>4 DEF Run
  <2>6. seq < RingSize /\ 0 <= seq
    BY <1>0, <2>1
  <2> QED
    BY <2>5, <2>6
<1>2. CASE ringFull
  <2>1. seq - nextIdx >= RingSize
    BY <1>2 DEF LogInv, Filled
  <2>2. PICK a \in Nat : a = seq - RingSize /\ a <= seq
    BY <1>0, <2>1
  <2>3. Entries = [i \in 1 .. RingSize |-> ring[(nextIdx + i - 1) % RingSize]]
    BY <1>2 DEF Entries
  <2>4. ASSUME NEW i \in 1 .. RingSize PROVE ring[(nextIdx + i - 1) % RingSize] = a + i
    <3>1. CASE nextIdx + i - 1 < RingSize
      <4>1. PICK x \in 0 .. RingSize - 1 : x = nextIdx + i - 1 /\ x >= nextIdx
        BY <1>0, <3>1
      <4>2. x % RingSize = x
        BY <1>0, Wraps
      <4>3. ring[x] = seq - nextIdx - RingSize + x + 1
        BY <1>2, <4>1 DEF LogInv, Filled
      <4>4. seq - nextIdx - RingSize + x + 1 = a + i
        BY <1>0, <2>2, <4>1
      <4> QED
        BY <4>1, <4>2, <4>3, <4>4
    <3>2. CASE ~(nextIdx + i - 1 < RingSize)
      <4>1. PICK x \in 0 .. RingSize - 1 : x + RingSize = nextIdx + i - 1 /\ x < nextIdx
        <5>1. nextIdx + i - 1 - RingSize \in 0 .. RingSize - 1 /\ nextIdx + i - 1 - RingSize < nextIdx
          BY <1>0, <3>2
        <5>2. (nextIdx + i - 1 - RingSize) + RingSize = nextIdx + i - 1
          BY <1>0
        <5> QED
          BY <5>1, <5>2
      <4>2. (x + RingSize) % RingSize = x
        BY <1>0, Wraps
      <4>3. ring[x] = seq - nextIdx + x + 1
        BY <4>1 DEF LogInv, Filled
      <4>4. seq - nextIdx + x + 1 = a + i
        BY <1>0, <2>2, <4>1
      <4> QED
        BY <4>1, <4>2, <4>3, <4>4
    <3> QED
      BY <3>1, <3>2
  <2>5. seq - a = RingSize
    BY <1>0, <2>2
  <2>6. Entries = Run(a, seq)
    BY <2>3, <2>4, <2>5 DEF Run
  <2> QED
    BY <2>2, <2>6
<1> QED
  BY <1>0, <1>1, <1>2

\* Of a run, the numbers above one of them.
LEMMA NewerOfRun ==
    ASSUME NEW a \in Nat, NEW b \in Nat, a <= b, NEW after \in Nat
    PROVE  \E m \in Nat : /\ a <= m /\ m <= b
                          /\ Picked(Run(a, b), {i \in DOMAIN Run(a, b) : Run(a, b)[i] > after}) = Run(m, b)
                          /\ (m = a /\ after <= a) \/ m = after \/ (m = b /\ b <= after)
<1> DEFINE s == Run(a, b)
           I == {i \in DOMAIN s : s[i] > after}
<1>1. PICK n \in Nat : n = b - a
  OBVIOUS
<1>2. s \in Seq(Nat) /\ Len(s) = n /\ DOMAIN s = 1 .. n /\ \A i \in 1 .. n : s[i] = a + i
  BY <1>1, RunSeq, LenProperties
<1>3. PICK c \in 0 .. n : \/ c = 0 /\ after <= a
                          \/ a + c = after
                          \/ c = n /\ b <= after
  <2>1. CASE after <= a
    BY <2>1
  <2>2. CASE b <= after
    BY <2>2
  <2>3. CASE ~(after <= a) /\ ~(b <= after)
    <3>1. after - a \in 0 .. n /\ a + (after - a) = after
      BY <1>1, <2>3
    <3> QED
      BY <3>1
  <2> QED
    BY <2>1, <2>2, <2>3
<1> HIDE DEF s
<1>4. \A i \in 1 .. n : i \in I <=> i > c
  <2> TAKE i \in 1 .. n
  <2>1. i \in I <=> a + i > after
    BY <1>2
  <2>2. a + i > after <=> i > c
    BY <1>1, <1>3
  <2> QED
    BY <2>1, <2>2
<1> HIDE DEF I
<1>5. Picked(s, I) = SubSeq(s, c + 1, n)
  BY <1>2, <1>4, PickedRest, Zenon
<1>6. PICK m \in Nat : m = a + c
  OBVIOUS
<1>7. b = a + n /\ c \in Nat /\ c <= n /\ b <= b /\ a <= m /\ m <= b
  BY <1>1, <1>6
<1>8. SubSeq(Run(a, b), c + 1, n) = Run(m, b)
  <2>1. Slice(Run(a, b), c, n) = Run(m, b)
    BY <1>6, <1>7, RunSlice
  <2> QED
    BY <2>1 DEF Slice
<1>9. (m = a /\ after <= a) \/ m = after \/ (m = b /\ b <= after)
  BY <1>3, <1>6, <1>7
<1> QED
  BY <1>5, <1>7, <1>8, <1>9, Zenon DEF s, I

\* The last numbers of a run.
LEMMA LastOfRun ==
    ASSUME NEW m \in Nat, NEW b \in Nat, m <= b, NEW n \in Nat
    PROVE  \E k \in Nat : /\ m <= k /\ k <= b /\ LastOf(Run(m, b), n) = Run(k, b)
                          /\ k = b - n \/ (k = m /\ b - n <= m)
<1>1. PICK l \in Nat : l = b - m
  OBVIOUS
<1>2. Len(Run(m, b)) = l
  BY <1>1, RunSeq
<1>3. CASE l > n
  <2>1. PICK i \in Nat : i = l - n /\ i <= l
    BY <1>1, <1>3
  <2>2. LastOf(Run(m, b), n) = SubSeq(Run(m, b), i + 1, l)
    BY <1>2, <1>3, <2>1 DEF LastOf
  <2>3. PICK k \in Nat : k = m + i
    OBVIOUS
  <2>4. b = m + l /\ b <= b /\ m <= k /\ k <= b /\ k = b - n
    BY <1>1, <2>1, <2>3
  <2>5. SubSeq(Run(m, b), i + 1, l) = Run(k, b)
    <3>1. Slice(Run(m, b), i, l) = Run(k, b)
      BY <2>1, <2>3, <2>4, RunSlice
    <3> QED
      BY <3>1 DEF Slice
  <2> QED
    BY <2>2, <2>4, <2>5
<1>4. CASE ~(l > n)
  <2>1. LastOf(Run(m, b), n) = Run(m, b)
    BY <1>2, <1>4 DEF LastOf
  <2>2. b - n <= m /\ m <= m
    BY <1>1, <1>4
  <2> QED
    BY <2>1, <2>2
<1> QED
  BY <1>3, <1>4

\* A follower is sent the run that TailUnbroken describes.
LEMMA SendKeeps == ASSUME LogInv, SendEntries PROVE LogInv'
<1>0. /\ seq \in Nat /\ cursor \in Nat /\ limit \in Nat /\ RingSize \in Nat
      /\ batch' = EntriesSince(cursor) /\ since' = cursor /\ upTo' = seq /\ limit' = limit
      /\ UNCHANGED <<ring, nextIdx, ringFull, seq>>
  BY RingAssumption DEF LogInv, SendEntries, ringVars
<1>1. PICK a \in Nat : /\ a <= seq /\ Entries = Run(a, seq)
                       /\ (a = 0 /\ seq < RingSize) \/ a = seq - RingSize
  BY EntriesAreRun
<1>2. PICK m \in Nat : /\ a <= m /\ m <= seq
                       /\ Picked(Entries, {i \in DOMAIN Entries : Entries[i] > cursor}) = Run(m, seq)
                       /\ (m = a /\ cursor <= a) \/ m = cursor \/ (m = seq /\ seq <= cursor)
  BY <1>0, <1>1, NewerOfRun
<1>3. PICK k \in Nat : /\ m <= k /\ k <= seq /\ LastOf(Run(m, seq), limit) = Run(k, seq)
                       /\ k = seq - limit \/ (k = m /\ seq - limit <= m)
  BY <1>0, <1>2, LastOfRun, Zenon
<1>4. batch' = Run(k, seq)
  BY <1>0, <1>2, <1>3 DEF EntriesSince
<1> DEFINE first == CHOOSE f \in {cursor, seq - RingSize, seq - limit} :
                        \A g \in {cursor, seq - RingSize, seq - limit} : g <= f
<1>5. /\ first \in {cursor, seq - RingSize, seq - limit}
      /\ cursor <= first /\ seq - RingSize <= first /\ seq - limit <= first
  BY <1>0, GreatestOf
<1>6. TailUnbroken' <=> batch' = [i \in 1 .. (IF seq > first THEN seq - first ELSE 0) |-> first + i]
  BY <1>0 DEF TailUnbroken
<1> HIDE DEF first
<1>7. first \in Int
  BY <1>0, <1>5
<1>8. TailUnbroken'
  <2>1. CASE seq > first
    <3>1. k = first
      BY <1>0, <1>1, <1>2, <1>3, <1>5, <1>7, <2>1
    <3> QED
      BY <1>4, <1>6, <2>1, <3>1 DEF Run
  <2>2. CASE ~(seq > first)
    <3>1. k = seq
      BY <1>0, <1>1, <1>2, <1>3, <1>5, <1>7, <2>2
    <3>2. Run(k, seq) = <<>>
      BY <1>0, <3>1, RunEmpty
    <3>3. [i \in 1 .. 0 |-> first + i] = <<>>
      OBVIOUS
    <3> QED
      BY <1>4, <1>6, <2>2, <3>2, <3>3
  <2> QED
    BY <2>1, <2>2
<1>9. cursor' \in Nat
  <2>1. CASE batch' = <<>>
    BY <1>0, <2>1 DEF SendEntries
  <2>2. CASE batch' # <<>>
    <3>1. cursor' = batch'[Len(batch')]
      BY <2>2 DEF SendEntries
    <3>2. batch' \in Seq(Nat)
      BY <1>0, <1>3, <1>4, RunSeq
    <3>3. Len(batch') \in 1 .. Len(batch')
      BY <2>2, <3>2, EmptySeq, LenProperties
    <3>4. batch'[Len(batch')] \in Nat
      BY <3>2, <3>3, ElementOfSeq
    <3> QED
      BY <3>1, <3>4
  <2> QED
    BY <2>1, <2>2
<1>10. Filled'
  BY <1>0 DEF LogInv, Filled
<1> QED
  BY <1>0, <1>8, <1>9, <1>10 DEF LogInv

\* TailUnbroken: a follower is sent an unbroken run of IDs that ends with the newest entry and
\* begins right after its cursor, unless the ring or its limit has cut the oldest off.
THEOREM FollowersSeeTail == LogSpec => []TailUnbroken
<1>1. LogInit => LogInv
  BY LogInitially
<1>2. LogInv /\ [LogNext]_logVars => LogInv'
  <2>1. LogInv /\ UNCHANGED logVars => LogInv'
    BY DEF LogInv, Filled, TailUnbroken, logVars, ringVars, followVars
  <2> QED
    BY <2>1, AddKeeps, SendKeeps DEF LogNext
<1>3. LogInv => TailUnbroken
  BY DEF LogInv
<1> QED
  BY <1>1, <1>2, <1>3, PTL DEF LogSpec
=============================================================================
