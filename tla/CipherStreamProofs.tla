-------------------------- MODULE CipherStreamProofs --------------------------
(***************************************************************************)
(* Proofs about CipherStream for every record size, threshold, rekey       *)
(* interval, window, carrier and set of timers: a counter seals one        *)
(* plaintext only, buffered bytes are never left without a timer, what the *)
(* reader refuses was torn or came twice, and the whole implements         *)
(* ReliableStream.                                                         *)
(***************************************************************************)
EXTENDS CipherStream, RunTheorems, TLAPS

-----------------------------------------------------------------------------
\* The counters used so far are those up to writeCounter.
CountersUsed ==
    /\ writeCounter \in Nat
    /\ \A r \in sealed : r.counter \in Nat /\ r.counter <= writeCounter

NonceInv == CountersUsed /\ NonceUsedOnce

\* Sealing a record, which every attempt to send does first, uses a counter that
\* no earlier record has.
LEMMA SealFresh ==
  ASSUME NonceInv, Seal
  PROVE  NonceInv'
<1>1. /\ writeCounter' = writeCounter + 1
      /\ sealed' = sealed \cup {Record}
  BY DEF Seal
<1>2. Record.counter = writeCounter + 1
  BY DEF Record
<1>3. CountersUsed'
  BY <1>1, <1>2 DEF NonceInv, CountersUsed
<1>4. NonceUsedOnce'
  <2> SUFFICES ASSUME NEW r \in sealed', NEW q \in sealed', r.counter = q.counter
               PROVE  r = q
    BY DEF NonceUsedOnce
  <2>1. \A s \in sealed : s.counter # Record.counter
    BY <1>2 DEF NonceInv, CountersUsed
  <2> QED BY <1>1, <2>1 DEF NonceInv, NonceUsedOnce
<1> QED BY <1>3, <1>4 DEF NonceInv

\* Every other step leaves the counter and the sealed records alone.
LEMMA NonceNext ==
  ASSUME NonceInv, [Next]_vars
  PROVE  NonceInv'
<1>1. CASE Seal
  BY <1>1, SealFresh
<1>2. CASE UNCHANGED <<writeCounter, sealed>>
  BY <1>2 DEF NonceInv, CountersUsed, NonceUsedOnce
<1>3. Seal \/ UNCHANGED <<writeCounter, sealed>>
  <2>1. CASE SendRecord
    BY <2>1 DEF SendRecord
  <2>2. CASE SendFails
    BY <2>2 DEF SendFails
  <2>3. CASE \E sent \in {"none", "part", "all"} : SendTimesOut(sent)
    BY <2>3 DEF SendTimesOut
  <2>4. CASE FinishWrite \/ FinishTimer \/ FinishClose \/ CallClose \/ BeginClose
    BY <2>4 DEF FinishWrite, FinishTimer, FinishClose, CallClose, BeginClose
  <2>5. CASE ReaderStep
    BY <2>5 DEF ReaderStep, ReadBuffered, ReadRecord, ReadRefuses, wvars
  <2>6. CASE \E n \in 1 .. MaxBytes : BeginWrite(n)
    BY <2>6 DEF BeginWrite
  <2>7. CASE \E t \in Timer : TimerFires(t) \/ BeginTimer(t)
    BY <2>7 DEF TimerFires, BeginTimer
  <2>8. CASE \E n \in 0 .. Len(wire) : CarrierFails(n)
    BY <2>8 DEF CarrierFails, wvars
  <2>9. CASE \E i \in DOMAIN wire : Replay(i)
    BY <2>9 DEF Replay, wvars
  <2>10. CASE UNCHANGED vars
    BY <2>10 DEF vars, wvars
  <2> QED
    BY <2>1, <2>2, <2>3, <2>4, <2>5, <2>6, <2>7, <2>8, <2>9, <2>10 DEF Next, WriterStep
<1> QED BY <1>1, <1>2, <1>3

\* No two different plaintexts are ever sealed under one counter.
THEOREM NonceUsedOnceHolds == Spec => []NonceUsedOnce
<1>1. Init => NonceInv
  BY DEF Init, NonceInv, CountersUsed, NonceUsedOnce
<1>2. NonceInv /\ [Next]_vars => NonceInv'
  BY NonceNext
<1>3. NonceInv => NonceUsedOnce
  BY DEF NonceInv
<1> QED BY <1>1, <1>2, <1>3, PTL DEF Spec

-----------------------------------------------------------------------------
\* A Write that does not coalesce keeps nothing back.
BufferUsed == coalesceBuf \in Seq(Nat) /\ (~coalesce => coalesceBuf = <<>>)

\* The timer in the field is pending, unless its callback is running.
FieldPending ==
    /\ coalesceTimer = 0 \/ (coalesceTimer \in Timer /\ timer[coalesceTimer] # "none")
                         \/ holder = "timer"
    /\ timer \in [Timer -> {"none", "armed", "fired"}]

TimerInv == next \in Nat /\ BufferUsed /\ FieldPending /\ BufferedHasTimer

\* What is left of a sequence of naturals is one.
LEMMA BeyondSeq ==
  ASSUME NEW s \in Seq(Nat), NEW n \in Nat
  PROVE  Beyond(s, n) \in Seq(Nat) /\ (s = <<>> => Beyond(s, n) = <<>>)
BY DEF Beyond

\* A holder of writeMu that sends from the buffer has a chunk of it.
LEMMA ChunkOfBuffer ==
  ASSUME BufferUsed, ~(holder = "write" /\ ~coalesce)
  PROVE  Len(Chunk) \in Nat
<1>1. ToSend \in Seq(Nat)
  BY DEF ToSend, BufferUsed
<1> QED BY <1>1, CipherAssumption DEF Chunk, UpTo

\* Steps that change neither the buffer nor a timer keep the timer invariant.
LEMMA TimerStable ==
  ASSUME TimerInv, UNCHANGED wvars, broken' = broken \/ broken' = TRUE
  PROVE  TimerInv'
BY DEF TimerInv, BufferUsed, FieldPending, BufferedHasTimer, wvars

\* A record sent from the buffer leaves the timers alone.
LEMMA TimerSend ==
  ASSUME TimerInv, SendRecord
  PROVE  TimerInv'
<1>1. holder # "none"
  BY DEF SendRecord, Chunk, ToSend, UpTo
<1>2. BufferUsed'
  <2>1. CASE holder = "write" /\ ~coalesce
    BY <2>1 DEF SendRecord, TimerInv, BufferUsed
  <2>2. CASE ~(holder = "write" /\ ~coalesce)
    <3>1. Len(Chunk) \in Nat
      BY <2>2, ChunkOfBuffer DEF TimerInv
    <3>2. coalesceBuf' = Beyond(coalesceBuf, Len(Chunk)) /\ coalesce' = coalesce
      BY <2>2 DEF SendRecord
    <3> QED BY <3>1, <3>2, BeyondSeq DEF TimerInv, BufferUsed
  <2> QED BY <2>1, <2>2
<1>3. FieldPending'
  BY DEF SendRecord, TimerInv, FieldPending
<1>4. BufferedHasTimer'
  BY <1>1 DEF SendRecord, BufferedHasTimer
<1> QED BY <1>2, <1>3, <1>4 DEF TimerInv, SendRecord

\* A call that fails is excused by the failure.
LEMMA TimerError ==
  ASSUME TimerInv, ReturnError, broken' \/ timedOut'
  PROVE  TimerInv'
BY DEF TimerInv, ReturnError, BufferUsed, FieldPending, BufferedHasTimer

\* A Write that begins holds writeMu.
LEMMA TimerBeginWrite ==
  ASSUME TimerInv, NEW n \in 1 .. MaxBytes, BeginWrite(n)
  PROVE  TimerInv'
<1>1. n \in Nat /\ next + n \in Nat
  BY CipherAssumption DEF TimerInv
<1>2. [i \in 1 .. n |-> next + i] \in Seq(Nat)
  BY <1>1 DEF TimerInv
<1>3. BufferUsed'
  <2> DEFINE p == [i \in 1 .. n |-> next + i]
  <2>1. coalesce' = coalesce
        /\ coalesceBuf' = IF coalesce THEN coalesceBuf \o p ELSE coalesceBuf
    BY DEF BeginWrite
  <2>2. p \in Seq(Nat)
    BY <1>2
  <2> HIDE DEF p
  <2>3. coalesceBuf \o p \in Seq(Nat)
    BY <2>2 DEF TimerInv, BufferUsed
  <2> QED BY <2>1, <2>3 DEF TimerInv, BufferUsed
<1>4. holder = "none" /\ holder' = "write" /\ UNCHANGED <<coalesceTimer, timer>>
  BY DEF BeginWrite
<1>5. FieldPending' /\ BufferedHasTimer'
  BY <1>4 DEF TimerInv, FieldPending, BufferedHasTimer
<1> QED BY <1>1, <1>3, <1>5 DEF BeginWrite, TimerInv

\* A Write that leaves bytes behind finds a timer pending or starts one.
LEMMA TimerFinishWrite ==
  ASSUME TimerInv, FinishWrite
  PROVE  TimerInv'
<1>1. BufferUsed' /\ next' \in Nat
  BY DEF FinishWrite, TimerInv, BufferUsed
<1>2. CASE coalesce /\ coalesceBuf = <<>>
  BY <1>1, <1>2 DEF FinishWrite, StopTimer, TimerInv, FieldPending, BufferedHasTimer
<1>3. CASE coalesce /\ coalesceBuf # <<>> /\ coalesceTimer = 0
  <2> PICK t \in FreeTimer : StartTimer(t)
    BY <1>3 DEF FinishWrite
  <2>1. t \in Timer /\ coalesceTimer' = t /\ timer' = [timer EXCEPT ![t] = "armed"]
    BY DEF StartTimer, FreeTimer
  <2>2. timer'[t] = "armed" /\ timer' \in [Timer -> {"none", "armed", "fired"}]
    BY <2>1 DEF TimerInv, FieldPending
  <2> QED BY <1>1, <2>1, <2>2 DEF TimerInv, FieldPending, BufferedHasTimer
<1>4. CASE ~coalesce \/ (coalesceBuf # <<>> /\ coalesceTimer # 0)
  BY <1>1, <1>4 DEF FinishWrite, TimerInv, BufferUsed, FieldPending, BufferedHasTimer
<1> QED BY <1>2, <1>3, <1>4

\* A timer that fires is still pending.
LEMMA TimerFire ==
  ASSUME TimerInv, NEW t \in Timer, TimerFires(t)
  PROVE  TimerInv'
<1>1. timer' \in [Timer -> {"none", "armed", "fired"}]
  BY DEF TimerFires, TimerInv, FieldPending
<1>2. \A u \in Timer : timer[u] # "none" => timer'[u] # "none"
  BY DEF TimerFires, TimerInv, FieldPending
<1> QED
  BY <1>1, <1>2 DEF TimerFires, TimerInv, BufferUsed, FieldPending, BufferedHasTimer

\* A callback that begins holds writeMu or has nothing to flush.
LEMMA TimerBegin ==
  ASSUME TimerInv, NEW t \in Timer, BeginTimer(t)
  PROVE  TimerInv'
<1>1. timer' \in [Timer -> {"none", "armed", "fired"}]
  BY DEF BeginTimer, TimerInv, FieldPending
<1> QED
  BY <1>1 DEF BeginTimer, TimerInv, BufferUsed, FieldPending, BufferedHasTimer

\* A callback that ends has flushed everything.
LEMMA TimerFinish ==
  ASSUME TimerInv, FinishTimer
  PROVE  TimerInv'
BY DEF FinishTimer, ToSend, TimerInv, BufferUsed, FieldPending, BufferedHasTimer

\* Close holds writeMu when it stops the timer.
LEMMA TimerBeginClose ==
  ASSUME TimerInv, BeginClose
  PROVE  TimerInv'
BY DEF BeginClose, StopTimer, TimerInv, BufferUsed, FieldPending, BufferedHasTimer

\* Calling Close changes nothing, returning from it ends the obligation.
LEMMA TimerOther ==
  ASSUME TimerInv, CallClose \/ FinishClose
  PROVE  TimerInv'
BY DEF CallClose, FinishClose, TimerInv, BufferUsed, FieldPending, BufferedHasTimer

\* Every step keeps the timer invariant.
LEMMA TimerNext ==
  ASSUME TimerInv, [Next]_vars
  PROVE  TimerInv'
<1>1. CASE SendRecord
  BY <1>1, TimerSend
<1>2. CASE SendFails
  BY <1>2, TimerError DEF SendFails
<1>3. CASE \E sent \in {"none", "part", "all"} : SendTimesOut(sent)
  BY <1>3, TimerError DEF SendTimesOut
<1>4. CASE FinishWrite \/ FinishTimer \/ BeginClose \/ CallClose \/ FinishClose
  BY <1>4, TimerFinishWrite, TimerFinish, TimerBeginClose, TimerOther
<1>5. CASE \E n \in 1 .. MaxBytes : BeginWrite(n)
  BY <1>5, TimerBeginWrite
<1>6. CASE \E t \in Timer : TimerFires(t) \/ BeginTimer(t)
  BY <1>6, TimerFire, TimerBegin
<1>7. CASE ReaderStep \/ (\E i \in DOMAIN wire : Replay(i)) \/ UNCHANGED vars
  BY <1>7, TimerStable
  DEF ReaderStep, ReadBuffered, ReadRecord, ReadRefuses, Replay, vars
<1>8. CASE \E n \in 0 .. Len(wire) : CarrierFails(n)
  BY <1>8, TimerStable DEF CarrierFails
<1> QED
  BY <1>1, <1>2, <1>3, <1>4, <1>5, <1>6, <1>7, <1>8 DEF Next, WriterStep

\* Bytes that wait in the coalescing buffer always have a pending timer, unless a
\* write to the carrier has failed.
THEOREM BufferedHasTimerHolds == Spec => []BufferedHasTimer
<1>1. Init => TimerInv
  BY DEF Init, TimerInv, BufferUsed, FieldPending, BufferedHasTimer
<1>2. TimerInv /\ [Next]_vars => TimerInv'
  BY TimerNext
<1>3. TimerInv => BufferedHasTimer
  BY DEF TimerInv
<1> QED BY <1>1, <1>2, <1>3, PTL DEF Spec
-----------------------------------------------------------------------------
\* What the steps of the two ends and of the carrier make of a sequence.
LEMMA Appended ==
    ASSUME NEW S, NEW w \in Seq(S), NEW r \in S
    PROVE  /\ Append(w, r) \in Seq(S) /\ Len(Append(w, r)) = Len(w) + 1
           /\ \A i \in 1 .. Len(w) : Append(w, r)[i] = w[i]
           /\ Append(w, r)[Len(w) + 1] = r
BY AppendProperties

LEMMA HeadGone ==
    ASSUME NEW S, NEW w \in Seq(S), w # <<>>
    PROVE  /\ Tail(w) \in Seq(S) /\ Len(Tail(w)) = Len(w) - 1 /\ Len(w) \in Nat \ {0}
           /\ \A i \in 1 .. Len(w) - 1 : Tail(w)[i] = w[i + 1]
           /\ Head(w) = w[1] /\ w[1] \in S
<1>1. Len(w) \in Nat \ {0}
  BY EmptySeq
<1>2. Head(w) = w[1] /\ w[1] \in S
  BY <1>1, ElementOfSeq
<1> QED
  BY <1>1, <1>2, HeadTailProperties

LEMMA FirstOnes ==
    ASSUME NEW S, NEW w \in Seq(S), NEW n \in 0 .. Len(w)
    PROVE  /\ UpTo(w, n) \in Seq(S) /\ Len(UpTo(w, n)) = n
           /\ \A i \in 1 .. n : UpTo(w, n)[i] = w[i]
<1>1. UpTo(w, n) = SubSeq(w, 1, n)
  <2>1. n \in Nat /\ Len(w) \in Nat /\ n <= Len(w)
    BY LenProperties
  <2> QED
    BY <2>1 DEF UpTo
<1>2. \A i \in 1 .. n : w[i] \in S
  BY ElementOfSeq, LenProperties
<1> QED
  BY <1>1, <1>2, SubSeqProperties

\* Records as the carrier takes them: some bytes, at most MaxRecord, sealed under a counter
\* that has been used and with the key the reader expects, unless a record has been torn.
Sealed == [counter : Nat, gen : Int, data : Seq(Nat)]

Good(w, isTorn, used) ==
    /\ w \in Seq(Sealed)
    /\ \A i \in 1 .. Len(w) :
           /\ Len(w[i].data) \in 1 .. MaxRecord /\ w[i].counter \in 1 .. used
           /\ isTorn \/ w[i].gen = ReadGen(w[i].counter)

\* Without duplicates they come in order, after those that were read.
Rising(w, max) ==
    /\ \A i, j \in 1 .. Len(w) : i < j => w[i].counter < w[j].counter
    /\ \A i \in 1 .. Len(w) : max < w[i].counter

Window == [maxSeq : Nat, bits : [0 .. Size - 1 -> BOOLEAN]]

Buffers == coalesceBuf \in Seq(Nat) /\ rest \in Seq(Nat) /\ next \in Nat

RefusedInv ==
    /\ Buffers /\ torn \in BOOLEAN
    /\ writeCounter \in Nat /\ replays \in Nat
    /\ window \in Window /\ window.maxSeq \in 0 .. writeCounter
    /\ Good(wire, torn, writeCounter)
    /\ replays = 0 => Rising(wire, window.maxSeq)
    /\ NothingRefusedInVain

\* What is sealed is a piece of what the holder of writeMu has to send.
LEMMA ChunkOK ==
    ASSUME Buffers, Chunk # <<>>
    PROVE  /\ Chunk \in Seq(Nat) /\ Len(Chunk) \in 1 .. MaxRecord
           /\ ToSend \in {coalesceBuf, rest} /\ Len(Chunk) <= Len(ToSend)
           /\ Chunk = SubSeq(ToSend, 1, Len(Chunk))
<1>1. ToSend \in {coalesceBuf, rest, <<>>} /\ ToSend \in Seq(Nat)
  BY DEF ToSend, Buffers
<1> DEFINE k == IF Len(ToSend) < MaxRecord THEN Len(ToSend) ELSE MaxRecord
<1>2. Chunk = SubSeq(ToSend, 1, k)
  BY DEF Chunk, UpTo
<1>3. k \in 0 .. Len(ToSend) /\ k \in Nat /\ k <= MaxRecord
  BY <1>1, LenProperties, CipherAssumption
<1> HIDE DEF k
<1>4. \A i \in 1 .. k : ToSend[i] \in Nat
  BY <1>1, <1>3, ElementOfSeq
<1>5. Chunk \in Seq(Nat) /\ Len(Chunk) = k
  BY <1>2, <1>3, <1>4, SubSeqProperties
<1>6. Len(Chunk) # 0
  BY <1>5, EmptySeq
<1>7. ToSend # <<>>
  BY <1>1, <1>3, <1>5, <1>6
<1> QED
  BY <1>1, <1>2, <1>3, <1>5, <1>6, <1>7

\* The record that is put on the wire, whole or in part.
LEMMA RecordOK ==
    ASSUME Buffers, writeCounter \in Nat, Chunk # <<>>, NEW isTorn \in BOOLEAN
    PROVE  /\ OnWire(isTorn) \in Sealed
           /\ OnWire(isTorn).counter = writeCounter + 1 /\ OnWire(isTorn).data = Chunk
           /\ isTorn \/ OnWire(isTorn).gen = ReadGen(writeCounter + 1)
           /\ Record.data = Chunk
<1>1. Chunk \in Seq(Nat)
  BY ChunkOK
<1>2. WriteGen(writeCounter + 1) \in Int /\ WriteGen(writeCounter + 1) = ReadGen(writeCounter + 1)
  BY CipherAssumption DEF WriteGen, ReadGen
<1>3. Record = [counter |-> writeCounter + 1, gen |-> WriteGen(writeCounter + 1), data |-> Chunk]
  BY DEF Record
<1> HIDE DEF Record
<1>4. CASE isTorn
  <2>1. OnWire(isTorn) = [Record EXCEPT !.gen = -1]
    BY <1>4 DEF OnWire
  <2>2. OnWire(isTorn) = [counter |-> writeCounter + 1, gen |-> -1, data |-> Chunk]
    BY <1>3, <2>1
  <2>3. -1 \in Int
    OBVIOUS
  <2>4. writeCounter + 1 \in Nat
    OBVIOUS
  <2>5. OnWire(isTorn) \in Sealed
    BY <1>1, <2>2, <2>3, <2>4 DEF Sealed
  <2>6. OnWire(isTorn).counter = writeCounter + 1 /\ OnWire(isTorn).data = Chunk /\ Record.data = Chunk
    BY <1>3, <2>2
  <2> QED
    BY <1>4, <2>5, <2>6, Zenon
<1>5. CASE ~isTorn
  <2>1. OnWire(isTorn) = Record
    BY <1>5 DEF OnWire
  <2> QED
    BY <1>1, <1>2, <1>3, <2>1 DEF Sealed
<1> QED
  BY <1>4, <1>5

\* A record more.
LEMMA SentKeeps ==
    ASSUME RefusedInv, Chunk # <<>>, Seal, NEW isTorn \in BOOLEAN, torn => isTorn,
           wire' = wire \/ wire' = Append(wire, OnWire(isTorn))
    PROVE  /\ Good(wire', isTorn, writeCounter') /\ (replays = 0 => Rising(wire', window.maxSeq))
           /\ writeCounter' \in Nat
           /\ \A r \in sealed' : Len(r.data) \in 1 .. MaxRecord
<1> DEFINE r == OnWire(isTorn)
<1>1. /\ r \in Sealed /\ r.counter = writeCounter + 1 /\ r.data = Chunk
      /\ isTorn \/ r.gen = ReadGen(r.counter)
      /\ Record.data = Chunk
  BY RecordOK DEF RefusedInv
<1>2. Len(Chunk) \in 1 .. MaxRecord
  BY ChunkOK DEF RefusedInv
<1> HIDE DEF r
<1>3. writeCounter \in Nat /\ writeCounter' = writeCounter + 1 /\ writeCounter' \in Nat
  BY DEF RefusedInv, Seal
<1>4. \A q \in sealed' : Len(q.data) \in 1 .. MaxRecord
  BY <1>1, <1>2 DEF Seal, RefusedInv, NothingRefusedInVain
<1>5. wire \in Seq(Sealed) /\ Len(wire) \in Nat
  BY LenProperties DEF RefusedInv, Good
<1>6. \A i \in 1 .. Len(wire) : /\ Len(wire[i].data) \in 1 .. MaxRecord /\ wire[i].counter \in 1 .. writeCounter
                                /\ isTorn \/ wire[i].gen = ReadGen(wire[i].counter)
  BY DEF RefusedInv, Good
<1>7. CASE wire' = wire
  BY <1>3, <1>4, <1>5, <1>6, <1>7 DEF RefusedInv, Good
<1>8. CASE wire' = Append(wire, r)
  <2>1. /\ wire' \in Seq(Sealed) /\ Len(wire') = Len(wire) + 1
        /\ \A i \in 1 .. Len(wire) : wire'[i] = wire[i]
        /\ wire'[Len(wire) + 1] = r
    BY <1>1, <1>5, <1>8, Appended
  <2>2. \A i \in 1 .. Len(wire') : i \in 1 .. Len(wire) \/ i = Len(wire) + 1
    BY <1>5, <2>1
  <2>3. Good(wire', isTorn, writeCounter')
    <3>1. ASSUME NEW i \in 1 .. Len(wire')
          PROVE  /\ Len(wire'[i].data) \in 1 .. MaxRecord /\ wire'[i].counter \in 1 .. writeCounter'
                 /\ isTorn \/ wire'[i].gen = ReadGen(wire'[i].counter)
      <4>1. CASE i \in 1 .. Len(wire)
        BY <1>3, <1>6, <2>1, <4>1
      <4>2. CASE i = Len(wire) + 1
        BY <1>1, <1>2, <1>3, <2>1, <4>2
      <4> QED
        BY <2>2, <4>1, <4>2
    <3> QED
      BY <2>1, <3>1 DEF Good
  <2>4. ASSUME replays = 0 PROVE Rising(wire', window.maxSeq)
    <3>1. Rising(wire, window.maxSeq) /\ window.maxSeq \in 0 .. writeCounter
      BY <2>4 DEF RefusedInv
    <3>2. ASSUME NEW i \in 1 .. Len(wire'), NEW j \in 1 .. Len(wire'), i < j
          PROVE  wire'[i].counter < wire'[j].counter
      <4>1. i \in 1 .. Len(wire)
        BY <1>5, <2>1, <3>2
      <4>2. CASE j \in 1 .. Len(wire)
        BY <2>1, <3>1, <3>2, <4>1, <4>2 DEF Rising
      <4>3. CASE j = Len(wire) + 1
        BY <1>1, <1>3, <1>6, <2>1, <4>1, <4>3
      <4> QED
        BY <2>2, <4>2, <4>3
    <3>3. ASSUME NEW i \in 1 .. Len(wire') PROVE window.maxSeq < wire'[i].counter
      <4>1. CASE i \in 1 .. Len(wire)
        BY <2>1, <3>1, <4>1 DEF Rising
      <4>2. CASE i = Len(wire) + 1
        BY <1>1, <1>3, <2>1, <3>1, <4>2
      <4> QED
        BY <2>2, <4>1, <4>2
    <3> QED
      BY <3>2, <3>3 DEF Rising
  <2> QED
    BY <1>3, <1>4, <2>3, <2>4
<1> QED
  BY <1>7, <1>8 DEF r

LEMMA SlotInRing == ASSUME NEW s \in Int PROVE Slot(s) \in 0 .. Size - 1
BY SizeAssumption DEF Slot

\* The window moves on to the greatest counter.
LEMMA AddOK ==
    ASSUME NEW w \in Window, NEW s \in Nat
    PROVE  Add(w, s) \in Window /\ Add(w, s).maxSeq = IF s > w.maxSeq THEN s ELSE w.maxSeq
<1>1. Slot(s) \in 0 .. Size - 1
  BY SlotInRing
<1>2. CASE s > w.maxSeq
  <2> DEFINE b == [i \in 0 .. Size - 1 |-> IF i = Slot(s) THEN TRUE ELSE w.bits[i] /\ i \notin Passed(w, s)]
  <2>1. Add(w, s) = [maxSeq |-> s, bits |-> b]
    BY <1>2 DEF Add
  <2>2. \A i \in 0 .. Size - 1 : (IF i = Slot(s) THEN TRUE ELSE w.bits[i] /\ i \notin Passed(w, s)) \in BOOLEAN
    OBVIOUS
  <2>3. b \in [0 .. Size - 1 -> BOOLEAN]
    BY <2>2, Zenon
  <2> HIDE DEF b
  <2> QED
    BY <1>2, <2>1, <2>3 DEF Window
<1>3. CASE ~(s > w.maxSeq)
  <2>1. Add(w, s) = [w EXCEPT !.bits[Slot(s)] = TRUE]
    BY <1>3 DEF Add
  <2> QED
    BY <1>1, <1>3, <2>1, ZenonT(60) DEF Window
<1> QED
  BY <1>2, <1>3

\* The buffers stay sequences of bytes.
LEMMA BuffersKeep == ASSUME Buffers, [Next]_vars PROVE Buffers'
<1>1. CASE SendRecord
  <2>1. Len(Chunk) \in Nat
    BY <1>1, ChunkOK DEF SendRecord
  <2>2. Beyond(rest, Len(Chunk)) \in Seq(Nat) /\ Beyond(coalesceBuf, Len(Chunk)) \in Seq(Nat)
    BY <2>1, BeyondSeq DEF Buffers
  <2> QED
    BY <1>1, <2>2 DEF SendRecord, Buffers
<1>2. CASE SendFails \/ \E sent \in {"none", "part", "all"} : SendTimesOut(sent)
  <2>1. rest' = <<>> /\ coalesceBuf' = coalesceBuf /\ next' = next
    BY <1>2 DEF SendFails, SendTimesOut, ReturnError
  <2>2. <<>> \in Seq(Nat)
    BY EmptySeq
  <2> QED
    BY <2>1, <2>2 DEF Buffers
<1>3. ASSUME NEW n \in 1 .. MaxBytes, BeginWrite(n) PROVE Buffers'
  <2> DEFINE p == [i \in 1 .. n |-> next + i]
  <2>1. n \in Nat /\ next \in Nat /\ next' = next + n
    BY <1>3, CipherAssumption DEF Buffers, BeginWrite
  <2>2. p \in Seq(Nat)
    BY <2>1, IsASeq
  <2>3. \/ coalesceBuf' = coalesceBuf \o p /\ rest' = rest
        \/ coalesceBuf' = coalesceBuf /\ rest' = p
    BY <1>3 DEF BeginWrite
  <2> HIDE DEF p
  <2>4. coalesceBuf \o p \in Seq(Nat)
    BY <2>2, ConcatProperties DEF Buffers
  <2>5. next' \in Nat
    BY <2>1
  <2>6. coalesceBuf' \in Seq(Nat) /\ rest' \in Seq(Nat)
    BY <2>2, <2>3, <2>4, Zenon DEF Buffers
  <2> QED
    BY <2>5, <2>6 DEF Buffers
<1>4. CASE FinishWrite \/ FinishTimer \/ FinishClose \/ CallClose \/ BeginClose
  BY <1>4 DEF FinishWrite, FinishTimer, FinishClose, CallClose, BeginClose, Buffers
<1>5. CASE ReaderStep
  BY <1>5 DEF ReaderStep, ReadBuffered, ReadRecord, ReadRefuses, wvars, Buffers
<1>6. CASE \E t \in Timer : TimerFires(t) \/ BeginTimer(t)
  BY <1>6 DEF TimerFires, BeginTimer, Buffers
<1>7. CASE UNCHANGED wvars
  BY <1>7 DEF wvars, Buffers
<1> QED
  BY <1>1, <1>2, <1>3, <1>4, <1>5, <1>6, <1>7 DEF Next, WriterStep, CarrierFails, Replay, vars

\* The head of the wire is a record like the others.
LEMMA HeadOK ==
    ASSUME RefusedInv, wire # <<>>
    PROVE  /\ Head(wire) = wire[1] /\ Head(wire) \in Sealed /\ Len(wire) \in Nat \ {0}
           /\ Len(Head(wire).data) \in 1 .. MaxRecord /\ Head(wire).counter \in 1 .. writeCounter
           /\ torn \/ Head(wire).gen = ReadGen(Head(wire).counter)
           /\ replays = 0 => window.maxSeq < Head(wire).counter
           /\ Tail(wire) \in Seq(Sealed) /\ Len(Tail(wire)) = Len(wire) - 1
           /\ \A i \in 1 .. Len(wire) - 1 : i + 1 \in 1 .. Len(wire) /\ Tail(wire)[i] = wire[i + 1]
<1>1. wire \in Seq(Sealed)
  BY DEF RefusedInv, Good
<1>2. /\ Tail(wire) \in Seq(Sealed) /\ Len(Tail(wire)) = Len(wire) - 1 /\ Len(wire) \in Nat \ {0}
      /\ \A i \in 1 .. Len(wire) - 1 : Tail(wire)[i] = wire[i + 1]
      /\ Head(wire) = wire[1] /\ wire[1] \in Sealed
  BY <1>1, HeadGone
<1>3. 1 \in 1 .. Len(wire)
  BY <1>2
<1>4. /\ Len(wire[1].data) \in 1 .. MaxRecord /\ wire[1].counter \in 1 .. writeCounter
      /\ torn \/ wire[1].gen = ReadGen(wire[1].counter)
  BY <1>3 DEF RefusedInv, Good
<1>5. replays = 0 => window.maxSeq < wire[1].counter
  BY <1>3 DEF RefusedInv, Rising
<1>6. \A i \in 1 .. Len(wire) - 1 : i + 1 \in 1 .. Len(wire)
  BY <1>2
<1> QED
  BY <1>2, <1>4, <1>5, <1>6

\* The head is read or refused.
LEMMA TakenKeeps ==
    ASSUME RefusedInv, wire # <<>>, wire' = Tail(wire)
    PROVE  /\ Good(wire', torn, writeCounter)
           /\ replays = 0 => Rising(wire', Head(wire).counter) /\ Rising(wire', window.maxSeq)
<1>0. /\ Head(wire) = wire[1] /\ Len(wire) \in Nat \ {0}
      /\ wire' \in Seq(Sealed) /\ Len(wire') = Len(wire) - 1
      /\ \A i \in 1 .. Len(wire') : i + 1 \in 1 .. Len(wire) /\ wire'[i] = wire[i + 1]
  BY HeadOK
<1>1. Good(wire', torn, writeCounter)
  BY <1>0 DEF RefusedInv, Good
<1>2. ASSUME replays = 0 PROVE Rising(wire', Head(wire).counter) /\ Rising(wire', window.maxSeq)
  <2>1. Rising(wire, window.maxSeq)
    BY <1>2 DEF RefusedInv
  <2>2. \A i, j \in 1 .. Len(wire') : i < j => wire'[i].counter < wire'[j].counter
    BY <1>0, <2>1 DEF Rising
  <2>3. \A i \in 1 .. Len(wire') : window.maxSeq < wire'[i].counter
    BY <1>0, <2>1 DEF Rising
  <2>4. ASSUME NEW i \in 1 .. Len(wire') PROVE Head(wire).counter < wire'[i].counter
    <3>1. 1 \in 1 .. Len(wire) /\ i + 1 \in 1 .. Len(wire) /\ 1 < i + 1
      BY <1>0
    <3> QED
      BY <1>0, <2>1, <3>1 DEF Rising
  <2> QED
    BY <2>2, <2>3, <2>4 DEF Rising
<1> QED
  BY <1>1, <1>2

\* Steps that leave the wire, the counters and the window alone.
LEMMA RefusedStable ==
    ASSUME RefusedInv, Buffers', UNCHANGED <<writeCounter, sealed, torn, window, refused, wire, replays>>
    PROVE  RefusedInv'
BY DEF RefusedInv, NothingRefusedInVain

\* What the carrier does to the records it holds.
LEMMA CarrierKeeps ==
    ASSUME RefusedInv, (\E n \in 0 .. Len(wire) : CarrierFails(n)) \/ (\E i \in DOMAIN wire : Replay(i))
    PROVE  RefusedInv'
<1>0. wire \in Seq(Sealed) /\ Len(wire) \in Nat /\ DOMAIN wire = 1 .. Len(wire)
  BY LenProperties DEF RefusedInv, Good
<1>1. Buffers' /\ UNCHANGED <<writeCounter, sealed, torn, window, refused>>
  BY DEF RefusedInv, Buffers, CarrierFails, Replay, wvars, rvars
<1>2. ASSUME NEW n \in 0 .. Len(wire), CarrierFails(n) PROVE RefusedInv'
  <2>1. /\ wire' \in Seq(Sealed) /\ Len(wire') = n /\ \A i \in 1 .. n : wire'[i] = wire[i]
        /\ replays' = replays
    BY <1>0, <1>2, FirstOnes DEF CarrierFails
  <2>2. \A i \in 1 .. Len(wire') : i \in 1 .. Len(wire) /\ wire'[i] = wire[i]
    BY <1>0, <2>1
  <2>3. Good(wire', torn, writeCounter)
    BY <2>1, <2>2 DEF RefusedInv, Good
  <2>4. replays = 0 => Rising(wire', window.maxSeq)
    BY <2>2, Zenon DEF RefusedInv, Rising
  <2> QED
    BY <1>1, <2>1, <2>3, <2>4 DEF RefusedInv, NothingRefusedInVain
<1>3. ASSUME NEW i \in DOMAIN wire, Replay(i) PROVE RefusedInv'
  <2>1. wire[i] \in Sealed
    BY <1>0, <1>3, ElementOfSeq
  <2>2. /\ wire' \in Seq(Sealed) /\ Len(wire') = Len(wire) + 1
        /\ \A j \in 1 .. Len(wire) : wire'[j] = wire[j]
        /\ wire'[Len(wire) + 1] = wire[i]
    BY <1>0, <1>3, <2>1, Appended DEF Replay
  <2>3. \A j \in 1 .. Len(wire') : \E k \in 1 .. Len(wire) : wire'[j] = wire[k]
    BY <1>0, <2>2
  <2>4. Good(wire', torn, writeCounter)
    BY <2>2, <2>3 DEF RefusedInv, Good
  <2>5. replays' \in Nat /\ replays' > 0
    BY <1>3 DEF Replay, RefusedInv
  <2> QED
    BY <1>1, <2>4, <2>5 DEF RefusedInv, NothingRefusedInVain
<1> QED
  BY <1>2, <1>3

\* The reader, too.
LEMMA ReaderKeeps == ASSUME RefusedInv, ReaderStep PROVE RefusedInv'
<1>0. Buffers' /\ UNCHANGED <<writeCounter, sealed, torn, replays>>
  BY Zenon DEF RefusedInv, Buffers, ReaderStep, ReadBuffered, ReadRecord, ReadRefuses, wvars
<1>1. ASSUME NEW n \in 1 .. MaxRecord, ReadBuffered(n) PROVE RefusedInv'
  BY <1>0, <1>1, RefusedStable DEF ReadBuffered
<1>2. ASSUME NEW n \in 1 .. MaxRecord, ReadRecord(n) PROVE RefusedInv'
  <2>1. wire # <<>> /\ wire' = Tail(wire) /\ window' = Add(window, Head(wire).counter) /\ refused' = refused
    BY <1>2 DEF ReadRecord
  <2>2. /\ Head(wire).counter \in 1 .. writeCounter
        /\ replays = 0 => window.maxSeq < Head(wire).counter
    BY <2>1, HeadOK
  <2>3. /\ window' \in Window /\ window'.maxSeq \in 0 .. writeCounter
        /\ replays = 0 => window'.maxSeq = Head(wire).counter
    <3>1. Head(wire).counter \in Nat /\ window \in Window
      BY <2>2 DEF RefusedInv
    <3>2. /\ window' \in Window
          /\ window'.maxSeq = IF Head(wire).counter > window.maxSeq THEN Head(wire).counter ELSE window.maxSeq
      BY <2>1, <3>1, AddOK, Zenon
    <3> QED
      BY <2>2, <3>2 DEF RefusedInv
  <2>4. Good(wire', torn, writeCounter) /\ (replays = 0 => Rising(wire', Head(wire).counter))
    BY <2>1, TakenKeeps
  <2> QED
    BY <1>0, <2>1, <2>3, <2>4 DEF RefusedInv, NothingRefusedInVain
<1>3. CASE ReadRefuses
  <2>1. wire # <<>> /\ wire' = Tail(wire) /\ window' = window
    BY <1>3 DEF ReadRefuses
  <2>2. /\ Head(wire).counter \in 1 .. writeCounter
        /\ torn \/ Head(wire).gen = ReadGen(Head(wire).counter)
        /\ replays = 0 => window.maxSeq < Head(wire).counter
    BY <2>1, HeadOK
  <2>3. \/ torn /\ refused' = refused \cup {"decrypt"}
        \/ replays > 0 /\ refused' = refused \cup {"counter"}
    <3>1. CASE Head(wire).gen # ReadGen(Head(wire).counter) /\ refused' = refused \cup {"decrypt"}
      BY <2>2, <3>1
    <3>2. CASE ~Accepts(window, Head(wire).counter) /\ refused' = refused \cup {"counter"}
      <4>1. replays # 0
        BY <2>2, <3>2 DEF Accepts
      <4> QED
        BY <3>2, <4>1 DEF RefusedInv
    <3> QED
      BY <1>3, <3>1, <3>2 DEF ReadRefuses
  <2>4. NothingRefusedInVain'
    BY <1>0, <2>3 DEF RefusedInv, NothingRefusedInVain
  <2>5. Good(wire', torn, writeCounter) /\ (replays = 0 => Rising(wire', window.maxSeq))
    BY <2>1, TakenKeeps
  <2> QED
    BY <1>0, <2>1, <2>4, <2>5 DEF RefusedInv
<1> QED
  BY <1>1, <1>2, <1>3 DEF ReaderStep

LEMMA RefusedNext == ASSUME RefusedInv, [Next]_vars PROVE RefusedInv'
<1>0. Buffers'
  BY BuffersKeep DEF RefusedInv
<1>1. ASSUME NEW isTorn \in BOOLEAN, torn => isTorn, Chunk # <<>>, Seal, torn' = isTorn,
             UNCHANGED <<window, refused, replays>>,
             wire' = wire \/ wire' = Append(wire, OnWire(isTorn))
      PROVE  RefusedInv'
  <2>1. /\ Good(wire', isTorn, writeCounter') /\ (replays = 0 => Rising(wire', window.maxSeq))
        /\ writeCounter' \in Nat
        /\ \A r \in sealed' : Len(r.data) \in 1 .. MaxRecord
    BY <1>1, SentKeeps
  <2>2. window.maxSeq \in 0 .. writeCounter'
    BY <1>1 DEF RefusedInv, Seal
  <2>3. NothingRefusedInVain'
    BY <1>1, <2>1 DEF NothingRefusedInVain, RefusedInv
  <2> QED
    BY <1>0, <1>1, <2>1, <2>2, <2>3 DEF RefusedInv
<1>2. torn \in BOOLEAN
  BY DEF RefusedInv
<1>3. CASE SendRecord
  BY <1>1, <1>2, <1>3 DEF SendRecord, rvars
<1>4. CASE SendFails
  BY <1>1, <1>2, <1>4 DEF SendFails, rvars
<1>5. ASSUME NEW sent \in {"none", "part", "all"}, SendTimesOut(sent) PROVE RefusedInv'
  <2>1. torn' \in BOOLEAN /\ (torn => torn')
    BY <1>2, <1>5 DEF SendTimesOut
  <2>2. PICK isTorn \in BOOLEAN : isTorn = torn'
    BY <2>1
  <2> QED
    BY <1>1, <1>5, <2>1, <2>2, Zenon DEF SendTimesOut, rvars
<1>6. CASE FinishWrite \/ FinishTimer \/ FinishClose \/ CallClose \/ BeginClose
  BY <1>0, <1>6, RefusedStable DEF FinishWrite, FinishTimer, FinishClose, CallClose, BeginClose, rvars
<1>7. CASE \E n \in 1 .. MaxBytes : BeginWrite(n)
  BY <1>0, <1>7, RefusedStable DEF BeginWrite, rvars
<1>8. CASE \E t \in Timer : TimerFires(t) \/ BeginTimer(t)
  BY <1>0, <1>8, RefusedStable DEF TimerFires, BeginTimer, rvars
<1>9. CASE UNCHANGED vars
  BY <1>0, <1>9, RefusedStable DEF vars, wvars, rvars
<1> QED
  BY <1>3, <1>4, <1>5, <1>6, <1>7, <1>8, <1>9, ReaderKeeps, CarrierKeeps DEF Next, WriterStep

LEMMA RefusedInit == ASSUME Init PROVE RefusedInv
<1>1. Buffers /\ torn \in BOOLEAN /\ writeCounter \in Nat /\ replays \in Nat
  BY EmptySeq, Zenon DEF Init, Buffers
<1>2. window \in Window /\ window.maxSeq = 0
  BY DEF Init, EmptyWindow, Window
<1>3. wire \in Seq(Sealed) /\ Len(wire) = 0
  BY EmptySeq DEF Init
<1>4. Good(wire, torn, writeCounter) /\ Rising(wire, window.maxSeq)
  BY <1>3 DEF Good, Rising
<1>5. NothingRefusedInVain
  BY DEF Init, NothingRefusedInVain
<1> QED
  BY <1>1, <1>2, <1>4, <1>5 DEF RefusedInv

\* NothingRefusedInVain: no record is empty or too long; one that does not open was torn by
\* a timeout, and one that is refused for its counter came twice.
THEOREM NothingRefusedInVainHolds == Spec => []NothingRefusedInVain
<1>1. Init => RefusedInv
  BY RefusedInit
<1>2. RefusedInv /\ [Next]_vars => RefusedInv'
  BY RefusedNext
<1>3. RefusedInv => NothingRefusedInVain
  BY DEF RefusedInv
<1> QED BY <1>1, <1>2, <1>3, PTL DEF Spec
-----------------------------------------------------------------------------
\* A record that is not the next one to be accepted, nor an older one, comes after the one
\* before it.
Chained(w, max) ==
    \A i \in 1 .. Len(w) :
        w[i].counter <= max + 1 \/ \E j \in 1 .. i - 1 : w[j].counter = w[i].counter - 1

\* The record sealed last is on the wire or has been read.
Reaches(w, max, used) == max = used \/ \E j \in 1 .. Len(w) : w[j].counter = used

\* Every counter that the window still covers has been accepted.
AllSeen(w) == \A s \in 1 .. w.maxSeq : w.maxSeq - s < Size => w.bits[Slot(s)]

\* What has been written and not been sealed.
Pending == IF coalesce THEN coalesceBuf ELSE rest

\* A stream uses one of the two buffers.
OneBuffer ==
    /\ coalesce \in BOOLEAN
    /\ coalesce => rest = <<>>
    /\ ~coalesce => coalesceBuf = <<>> /\ (holder # "write" => rest = <<>>)

\* The record under counter c holds the bytes after E[c - 1] up to E[c]; the reader has taken
\* those up to E[maxSeq], and returned the first g of them.
Tiled(E, g) ==
    /\ E[0] = 0 /\ \A k \in Nat : E[k] <= next
    /\ g <= E[window.maxSeq] /\ got = Run(0, g) /\ readPlainBuf = Run(g, E[window.maxSeq])
    /\ \A i \in 1 .. Len(wire) :
           /\ E[wire[i].counter - 1] <= E[wire[i].counter]
           /\ wire[i].data = Run(E[wire[i].counter - 1], E[wire[i].counter])
    /\ Chained(wire, window.maxSeq) /\ AllSeen(window)
    /\ ~broken => /\ Reaches(wire, window.maxSeq, writeCounter)
                  /\ Pending = Run(E[writeCounter], next)

TilesInv ==
    /\ RefusedInv /\ OneBuffer
    /\ timedOut \in BOOLEAN /\ (torn => timedOut)
    /\ timedOut \/ \E E \in [Nat -> Nat], g \in Nat : Tiled(E, g)

\* Chains: a record more at the end, the head gone, only the first n left.
LEMMA ChainAppended ==
    ASSUME NEW w \in Seq(Sealed), NEW r \in Sealed, NEW max \in Nat, Chained(w, max),
           r.counter <= max + 1 \/ \E j \in 1 .. Len(w) : w[j].counter = r.counter - 1
    PROVE  Chained(Append(w, r), max)
<1> DEFINE v == Append(w, r)
<1>1. /\ Len(v) = Len(w) + 1 /\ \A i \in 1 .. Len(w) : v[i] = w[i]
      /\ v[Len(w) + 1] = r /\ Len(w) \in Nat
  BY Appended, LenProperties
<1> HIDE DEF v
<1>2. ASSUME NEW i \in 1 .. Len(v)
      PROVE  v[i].counter <= max + 1 \/ \E j \in 1 .. i - 1 : v[j].counter = v[i].counter - 1
  <2>1. CASE i \in 1 .. Len(w)
    <3>1. \A j \in 1 .. i - 1 : j \in 1 .. Len(w)
      BY <1>1, <2>1
    <3> QED
      BY <1>1, <2>1, <3>1 DEF Chained
  <2>2. CASE i = Len(w) + 1
    <3>1. i - 1 = Len(w)
      BY <1>1, <2>2
    <3> QED
      BY <1>1, <2>2, <3>1
  <2> QED
    BY <1>1, <2>1, <2>2
<1> QED
  BY <1>2 DEF Chained, v

LEMMA ChainTail ==
    ASSUME NEW w \in Seq(Sealed), w # <<>>, NEW max \in Nat, NEW m \in Nat, Chained(w, max),
           max <= m, w[1].counter <= m
    PROVE  Chained(Tail(w), m)
<1> DEFINE v == Tail(w)
<1>1. /\ Len(v) = Len(w) - 1 /\ Len(w) \in Nat \ {0}
      /\ \A i \in 1 .. Len(w) - 1 : v[i] = w[i + 1]
  BY HeadGone
<1>2. \A i \in 1 .. Len(w) : w[i] \in Sealed
  BY ElementOfSeq
<1> HIDE DEF v
<1>3. ASSUME NEW i \in 1 .. Len(v)
      PROVE  v[i].counter <= m + 1 \/ \E j \in 1 .. i - 1 : v[j].counter = v[i].counter - 1
  <2>1. i \in Nat /\ i + 1 \in 1 .. Len(w) /\ v[i] = w[i + 1]
    BY <1>1
  <2>2. v[i].counter \in Nat /\ w[1].counter \in Nat
    <3>1. 1 \in 1 .. Len(w)
      BY <1>1
    <3>2. w[i + 1] \in Sealed /\ w[1] \in Sealed
      BY <1>2, <2>1, <3>1
    <3> QED
      BY <2>1, <3>2, Zenon DEF Sealed
  <2>3. CASE w[i + 1].counter <= max + 1
    <3>1. \A c \in Nat : c <= max + 1 => c <= m + 1
      OBVIOUS
    <3> QED
      BY <2>1, <2>2, <2>3, <3>1, Zenon
  <2>4. ASSUME NEW j \in 1 .. i + 1 - 1, w[j].counter = w[i + 1].counter - 1
        PROVE  v[i].counter <= m + 1 \/ \E k \in 1 .. i - 1 : v[k].counter = v[i].counter - 1
    <3>1. CASE j = 1
      BY <2>1, <2>2, <2>4, <3>1
    <3>2. CASE j # 1
      <4>1. j - 1 \in 1 .. i - 1 /\ j - 1 \in 1 .. Len(w) - 1 /\ (j - 1) + 1 = j
        BY <1>1, <2>1, <3>2
      <4>2. v[j - 1] = w[j]
        BY <1>1, <4>1
      <4> QED
        BY <2>1, <2>4, <4>1, <4>2
    <3> QED
      BY <3>1, <3>2
  <2> QED
    BY <2>1, <2>3, <2>4 DEF Chained
<1> QED
  BY <1>3 DEF Chained, v

LEMMA ChainFront ==
    ASSUME NEW w \in Seq(Sealed), NEW max \in Nat, NEW n \in 0 .. Len(w), Chained(w, max)
    PROVE  Chained(UpTo(w, n), max)
<1> DEFINE v == UpTo(w, n)
<1>1. Len(v) = n /\ (\A i \in 1 .. n : v[i] = w[i]) /\ Len(w) \in Nat
  BY FirstOnes, LenProperties
<1> HIDE DEF v
<1>2. ASSUME NEW i \in 1 .. Len(v)
      PROVE  v[i].counter <= max + 1 \/ \E j \in 1 .. i - 1 : v[j].counter = v[i].counter - 1
  <2>1. i \in 1 .. Len(w) /\ v[i] = w[i] /\ \A j \in 1 .. i - 1 : v[j] = w[j]
    BY <1>1
  <2> QED
    BY <2>1 DEF Chained
<1> QED
  BY <1>2 DEF Chained, v

\* The window that moves on by one has still seen everything it covers.
LEMMA SeenNext ==
    ASSUME NEW w \in Window, AllSeen(w)
    PROVE  AllSeen(Add(w, w.maxSeq + 1))
<1> DEFINE m == w.maxSeq + 1
           v == Add(w, m)
           b == [i \in 0 .. Size - 1 |-> IF i = Slot(m) THEN TRUE ELSE w.bits[i] /\ i \notin Passed(w, m)]
<1>1. w.maxSeq \in Nat /\ m \in Nat /\ w.bits \in [0 .. Size - 1 -> BOOLEAN]
  BY DEF Window
<1>2. v = [maxSeq |-> m, bits |-> b]
  BY <1>1 DEF Add
<1>4. \A i \in 0 .. Size - 1 : i = Slot(m) \/ (w.bits[i] /\ i \notin Passed(w, m)) => b[i]
  OBVIOUS
<1> HIDE DEF b
<1>3. v.maxSeq = m /\ v.bits = b
  BY <1>2
<1>5. m - w.maxSeq = 1
  BY <1>1
<1>6. ASSUME NEW s \in 1 .. m, m - s < Size PROVE v.bits[Slot(s)]
  <2>0. Slot(s) \in 0 .. Size - 1
    BY SlotInRing
  <2>1. CASE Slot(s) = Slot(m)
    BY <1>3, <1>4, <2>0, <2>1
  <2>2. CASE Slot(s) # Slot(m)
    <3>1. s # m
      BY <2>2
    <3>2. s \in 1 .. w.maxSeq /\ w.maxSeq - s < Size /\ Size > 1
      BY <1>1, <1>6, <3>1, SizeAssumption
    <3>3. w.bits[Slot(s)]
      BY <3>2 DEF AllSeen
    <3>4. Passed(w, m) = {Slot(q) : q \in m .. m}
      BY <1>5, <3>2, SizeAssumption DEF Passed
    <3>5. Slot(s) \notin Passed(w, m)
      BY <1>1, <2>2, <3>4
    <3> QED
      BY <1>3, <1>4, <2>0, <2>2, <3>3, <3>5
  <2> QED
    BY <2>1, <2>2
<1> HIDE DEF v, m
<1>7. AllSeen(v)
  BY <1>3, <1>6 DEF AllSeen
<1> QED
  BY <1>7 DEF v, m

LEMMA OneBufferKeeps == ASSUME Buffers, OneBuffer, [Next]_vars PROVE OneBuffer'
<1>1. CASE SendRecord
  <2>1. Len(Chunk) \in Nat
    BY <1>1, ChunkOK DEF SendRecord
  <2>2. /\ rest = <<>> => Beyond(rest, Len(Chunk)) = <<>>
        /\ coalesceBuf = <<>> => Beyond(coalesceBuf, Len(Chunk)) = <<>>
    BY <2>1, BeyondSeq DEF Buffers
  <2> QED
    BY <1>1, <2>2 DEF SendRecord, OneBuffer
<1>2. CASE SendFails \/ \E sent \in {"none", "part", "all"} : SendTimesOut(sent)
  BY <1>2 DEF SendFails, SendTimesOut, ReturnError, OneBuffer
<1>3. CASE \E n \in 1 .. MaxBytes : BeginWrite(n)
  BY <1>3 DEF BeginWrite, OneBuffer
<1>4. CASE FinishWrite
  BY <1>4 DEF FinishWrite, ToSend, OneBuffer
<1>5. CASE FinishTimer \/ FinishClose \/ CallClose \/ BeginClose
  BY <1>5 DEF FinishTimer, FinishClose, CallClose, BeginClose, OneBuffer
<1>6. CASE \E t \in Timer : TimerFires(t) \/ BeginTimer(t)
  BY <1>6 DEF TimerFires, BeginTimer, OneBuffer
<1>7. CASE UNCHANGED wvars
  BY <1>7 DEF wvars, OneBuffer
<1> QED
  BY <1>1, <1>2, <1>3, <1>4, <1>5, <1>6, <1>7
  DEF Next, WriterStep, ReaderStep, ReadBuffered, ReadRecord, ReadRefuses, CarrierFails, Replay, vars

\* Types that the following lemmas share.
LEMMA TiledTypes ==
    ASSUME TilesInv, NEW E \in [Nat -> Nat], NEW g \in Nat, Tiled(E, g)
    PROVE  /\ next \in Nat /\ writeCounter \in Nat /\ writeCounter + 1 \in Nat
           /\ window \in Window /\ window.maxSeq \in Nat /\ window.maxSeq <= writeCounter
           /\ E[writeCounter] \in Nat /\ E[writeCounter] <= next
           /\ E[window.maxSeq] \in Nat /\ E[window.maxSeq] <= next
           /\ wire \in Seq(Sealed) /\ Len(wire) \in Nat /\ DOMAIN wire = 1 .. Len(wire)
           /\ \A i \in 1 .. Len(wire) : wire[i].counter \in Nat /\ wire[i].counter \in 1 .. writeCounter
<1>1. /\ next \in Nat /\ writeCounter \in Nat /\ window \in Window /\ window.maxSeq \in 0 .. writeCounter
      /\ Good(wire, torn, writeCounter)
  BY DEF TilesInv, RefusedInv, Buffers
<1>2. writeCounter + 1 \in Nat /\ window.maxSeq \in Nat /\ window.maxSeq <= writeCounter
  BY <1>1
<1>3. wire \in Seq(Sealed) /\ Len(wire) \in Nat /\ DOMAIN wire = 1 .. Len(wire)
  BY <1>1, LenProperties DEF Good
<1>6. \A i \in 1 .. Len(wire) : wire[i].counter \in 1 .. writeCounter
  BY <1>1, Zenon DEF Good
<1>7. ASSUME NEW c \in 1 .. writeCounter PROVE c \in Nat
  <2>1. writeCounter \in Nat
    BY <1>1
  <2> QED
    BY <2>1
<1>4. \A i \in 1 .. Len(wire) : wire[i].counter \in Nat /\ wire[i].counter \in 1 .. writeCounter
  BY <1>6, <1>7, Zenon
<1>5. \A k \in Nat : E[k] \in Nat /\ E[k] <= next
  BY DEF Tiled
<1> QED
  BY <1>1, <1>2, <1>3, <1>4, <1>5, ZenonT(60)

\* The chunk that is sealed is the first part of what is pending.
LEMMA PendingSent ==
    ASSUME TilesInv, NEW a \in Nat, a <= next, Pending = Run(a, next), SendRecord
    PROVE  /\ Len(Chunk) \in Nat \ {0} /\ a + Len(Chunk) <= next
           /\ Chunk = Run(a, a + Len(Chunk)) /\ Pending' = Run(a + Len(Chunk), next)
<1>1. Chunk # <<>> /\ Buffers /\ OneBuffer /\ next \in Nat
  BY DEF SendRecord, TilesInv, RefusedInv, Buffers
<1>2. /\ Len(Chunk) \in 1 .. MaxRecord /\ ToSend \in {coalesceBuf, rest} /\ Len(Chunk) <= Len(ToSend)
      /\ Chunk = SubSeq(ToSend, 1, Len(Chunk))
  BY <1>1, ChunkOK
<1>3. ToSend = Pending
  <2>1. ToSend # <<>>
    <3>1. Len(<<>>) = 0
      BY EmptySeq
    <3> QED
      BY <1>2, <3>1
  <2> QED
    BY <1>1, <2>1 DEF ToSend, Pending, OneBuffer
<1>4. Len(Pending) = next - a
  BY <1>1, RunSeq, Zenon
<1>5. PICK k \in Nat : k = Len(Chunk) /\ k # 0
  <2>1. Len(Chunk) \in 1 .. MaxRecord
    BY <1>2
  <2>2. Len(Chunk) \in Nat /\ Len(Chunk) # 0
    BY <2>1, CipherAssumption
  <2> QED
    BY <2>2
<1>6. k # 0 /\ a + k <= next /\ a + k \in Nat
  <2>1. k <= next - a
    BY <1>2, <1>3, <1>4, <1>5
  <2> QED
    BY <1>1, <1>5, <2>1
<1>7. Chunk = Run(a, a + k)
  BY <1>1, <1>2, <1>3, <1>5, <1>6, RunHead, ZenonT(60)
<1>8. Pending' = Beyond(Pending, k)
  <2>1. CASE coalesce
    BY <1>5, <2>1 DEF SendRecord, Pending
  <2>2. CASE ~coalesce
    <3>1. holder = "write"
      BY <1>1, <1>2, <1>3, <2>2 DEF OneBuffer, ToSend, Chunk, UpTo
    <3> QED
      BY <1>5, <2>2, <3>1 DEF SendRecord, Pending
  <2> QED
    BY <2>1, <2>2
<1>9. Beyond(Pending, k) = Run(a + k, next)
  <2>1. PICK j \in Nat : j = next - a
    BY <1>1
  <2>2. a + j = next
    BY <1>1, <1>6, <2>1
  <2>3. k <= j /\ a + j <= next
    BY <1>1, <1>6, <2>1
  <2>4. SubSeq(Run(a, next), k + 1, j) = Run(a + k, a + j)
    BY <1>1, <2>3, RunPiece, ZenonT(60)
  <2> QED
    BY <1>4, <2>1, <2>2, <2>4 DEF Beyond
<1> QED
  BY <1>5, <1>6, <1>7, <1>8, <1>9, ZenonT(60)

\* Two lengths add up to a length, and not to a shorter one.
LEMMA SumNat == \A x, y \in Nat : x + y \in Nat /\ x <= x + y
OBVIOUS

\* The counter before the next one.
LEMMA CounterBefore == \A x \in Nat : (x + 1) - 1 = x
OBVIOUS

\* Appended, for a record put on the wire.
LEMMA RecordAppended ==
    \A w \in Seq(Sealed), r \in Sealed :
        /\ Append(w, r) \in Seq(Sealed) /\ Len(Append(w, r)) = Len(w) + 1
        /\ \A i \in 1 .. Len(w) : Append(w, r)[i] = w[i]
        /\ Append(w, r)[Len(w) + 1] = r
BY Appended

\* A record is sealed and put on the wire: the next tile.
LEMMA TiledSend ==
    ASSUME TilesInv, ~timedOut, NEW E \in [Nat -> Nat], NEW g \in Nat, Tiled(E, g), SendRecord
    PROVE  \E F \in [Nat -> Nat] : Tiled(F, g)'
<1>0. /\ next \in Nat /\ writeCounter \in Nat /\ writeCounter + 1 \in Nat
      /\ window \in Window /\ window.maxSeq \in Nat /\ window.maxSeq <= writeCounter
      /\ E[writeCounter] \in Nat /\ E[writeCounter] <= next
      /\ wire \in Seq(Sealed) /\ Len(wire) \in Nat
      /\ \A i \in 1 .. Len(wire) : wire[i].counter \in Nat /\ wire[i].counter \in 1 .. writeCounter
  BY TiledTypes, Zenon
<1> DEFINE a == E[writeCounter]
           n == writeCounter + 1
           r == OnWire(torn)
<1>1. /\ ~broken /\ ~torn /\ broken' = broken /\ Chunk # <<>>
      /\ writeCounter' = n /\ wire' = Append(wire, r)
      /\ UNCHANGED <<next, window, got, readPlainBuf>>
  BY DEF SendRecord, Seal, TilesInv, rvars
<1>2. /\ Len(Chunk) \in Nat \ {0} /\ a + Len(Chunk) <= next
      /\ Chunk = Run(a, a + Len(Chunk)) /\ Pending' = Run(a + Len(Chunk), next)
  BY <1>0, <1>1, PendingSent, ZenonT(60) DEF Tiled
<1>3. r \in Sealed /\ r.counter = n /\ r.data = Chunk
  BY <1>0, <1>1, RecordOK DEF TilesInv, RefusedInv
<1> HIDE DEF r
<1>4. PICK e \in Nat : e = a + Len(Chunk) /\ e <= next
  BY <1>0, <1>2, SumNat, Zenon
<1>5. PICK F \in [Nat -> Nat] : F[n] = e /\ \A k \in Nat : k # n => F[k] = E[k]
  <2>1. [E EXCEPT ![n] = e] \in [Nat -> Nat] /\ [E EXCEPT ![n] = e][n] = e
        /\ \A k \in Nat : k # n => [E EXCEPT ![n] = e][k] = E[k]
    BY <1>0, Zenon
  <2> QED
    BY <2>1, Zenon
<1>6. F[0] = 0 /\ (\A k \in Nat : F[k] <= next) /\ F[writeCounter] = a /\ F[window.maxSeq] = E[window.maxSeq]
  <2>1. 0 # n /\ writeCounter # n /\ window.maxSeq # n
    <3>1. \A v \in Nat : 0 # v + 1 /\ v # v + 1 /\ \A m \in Nat : m <= v => m # v + 1
      OBVIOUS
    <3> QED
      BY <1>0, <3>1, Zenon
  <2>2. E[0] = 0 /\ \A k \in Nat : E[k] <= next
    BY DEF Tiled
  <2>3. ASSUME NEW k \in Nat PROVE F[k] <= next
    BY <1>4, <1>5, <2>2, Zenon
  <2> QED
    BY <1>0, <1>5, <2>1, <2>2, <2>3, Zenon
<1>7. \A i \in 1 .. Len(wire) : F[wire[i].counter] = E[wire[i].counter]
                                  /\ F[wire[i].counter - 1] = E[wire[i].counter - 1]
  <2> TAKE i \in 1 .. Len(wire)
  <2>0. wire[i].counter \in 1 .. writeCounter /\ writeCounter \in Nat
    BY <1>0, ZenonT(60)
  <2>1. wire[i].counter \in Nat /\ wire[i].counter - 1 \in Nat /\ wire[i].counter # n /\ wire[i].counter - 1 # n
    <3>1. \A v \in Nat : \A c \in 1 .. v : c \in Nat /\ c - 1 \in Nat /\ c # v + 1 /\ c - 1 # v + 1
      OBVIOUS
    <3> QED
      BY <2>0, <3>1, Zenon
  <2> QED
    BY <1>5, <2>1, Zenon
<1>8. /\ wire' \in Seq(Sealed) /\ Len(wire') = Len(wire) + 1
      /\ \A i \in 1 .. Len(wire) : wire'[i] = wire[i]
      /\ wire'[Len(wire) + 1] = r
  <2>1. /\ Append(wire, r) \in Seq(Sealed) /\ Len(Append(wire, r)) = Len(wire) + 1
        /\ \A i \in 1 .. Len(wire) : Append(wire, r)[i] = wire[i]
        /\ Append(wire, r)[Len(wire) + 1] = r
    BY <1>0, <1>3, RecordAppended, Zenon
  <2>2. wire' = Append(wire, r)
    BY <1>1, Zenon
  <2> QED
    BY <2>1, <2>2, Zenon
<1>9. ASSUME NEW i \in 1 .. Len(wire')
      PROVE  /\ F[wire'[i].counter - 1] <= F[wire'[i].counter]
             /\ wire'[i].data = Run(F[wire'[i].counter - 1], F[wire'[i].counter])
  <2>1. CASE i \in 1 .. Len(wire)
    BY <1>7, <1>8, <2>1, ZenonT(60) DEF Tiled
  <2>2. CASE i = Len(wire) + 1
    <3>1. wire'[i].counter = n /\ wire'[i].data = Run(a, e)
      BY <1>2, <1>3, <1>4, <1>8, <2>2, Zenon
    <3>2. n - 1 = writeCounter /\ a <= e
      <4>1. n - 1 = writeCounter
        BY <1>0, CounterBefore, Zenon
      <4>2. a \in Nat /\ Len(Chunk) \in Nat
        BY <1>0, <1>2, Zenon
      <4>3. a <= a + Len(Chunk)
        BY <4>2, SumNat, Zenon
      <4> QED
        BY <1>4, <4>1, <4>3, Zenon
    <3>3. F[wire'[i].counter - 1] = a /\ F[wire'[i].counter] = e
      BY <1>5, <1>6, <3>1, <3>2, Zenon
    <3> QED
      BY <3>1, <3>2, <3>3
  <2>3. i \in 1 .. Len(wire) \/ i = Len(wire) + 1
    <3>1. Len(wire) \in Nat /\ Len(wire') = Len(wire) + 1
      BY <1>0, <1>8
    <3>2. \A m \in Nat : \A k \in 1 .. m + 1 : k \in 1 .. m \/ k = m + 1
      OBVIOUS
    <3> QED
      BY <3>1, <3>2, Zenon
  <2> QED
    BY <2>1, <2>2, <2>3
<1>10. Chained(wire', window.maxSeq)
  <2>1. r.counter <= window.maxSeq + 1 \/ \E j \in 1 .. Len(wire) : wire[j].counter = r.counter - 1
    <3>1. r.counter - 1 = writeCounter
      BY <1>0, <1>3
    <3>2. Reaches(wire, window.maxSeq, writeCounter)
      BY <1>1 DEF Tiled
    <3>3. CASE window.maxSeq = writeCounter
      <4>1. \A v \in Nat : v + 1 <= v + 1
        OBVIOUS
      <4> QED
        BY <1>0, <1>3, <3>3, <4>1, Zenon
    <3>4. CASE window.maxSeq # writeCounter
      BY <3>1, <3>2, <3>4, Zenon DEF Reaches
    <3> QED
      BY <3>3, <3>4, Zenon
  <2> QED
    BY <1>0, <1>1, <1>3, <2>1, ChainAppended, Zenon DEF Tiled
<1>11. Reaches(wire', window.maxSeq, n)
  <2>1. Len(wire) + 1 \in 1 .. Len(wire')
    BY <1>0, <1>8
  <2> QED
    BY <1>3, <1>8, <2>1, ZenonT(60) DEF Reaches
<1>12. Tiled(F, g)'
  <2>1. F[0] = 0 /\ \A k \in Nat : F[k] <= next'
    BY <1>1, <1>6
  <2>2. g <= F[window'.maxSeq] /\ got' = Run(0, g) /\ readPlainBuf' = Run(g, F[window'.maxSeq])
    BY <1>1, <1>6 DEF Tiled
  <2>3. Chained(wire', window'.maxSeq) /\ AllSeen(window')
    BY <1>1, <1>10 DEF Tiled
  <2>4. Reaches(wire', window'.maxSeq, writeCounter') /\ Pending' = Run(F[writeCounter'], next')
    BY <1>1, <1>2, <1>4, <1>5, <1>11
  <2> QED
    BY <1>9, <2>1, <2>2, <2>3, <2>4, Zenon DEF Tiled
<1> QED
  BY <1>5, <1>12

\* Steps that leave the wire, the reader and what is pending alone.
LEMMA TiledStable ==
    ASSUME NEW E \in [Nat -> Nat], NEW g \in Nat, Tiled(E, g), broken' = broken,
           UNCHANGED <<next, window, got, readPlainBuf, wire>>,
           broken \/ UNCHANGED <<writeCounter, coalesce, coalesceBuf, rest>>
    PROVE  Tiled(E, g)'
<1>1. ~broken => writeCounter' = writeCounter /\ Pending' = Pending
  BY DEF Pending
<1> QED
  BY <1>1, Zenon DEF Tiled

\* The bytes of a new Write wait behind those that are pending.
LEMMA TiledWrite ==
    ASSUME TilesInv, NEW E \in [Nat -> Nat], NEW g \in Nat, Tiled(E, g),
           NEW n \in 1 .. MaxBytes, BeginWrite(n)
    PROVE  Tiled(E, g)' /\ next \in Nat /\ n \in Nat /\ next' = next + n
<1>0. /\ next \in Nat /\ writeCounter \in Nat /\ E[writeCounter] \in Nat /\ E[writeCounter] <= next
  BY TiledTypes, Zenon
<1>1. n \in Nat
  BY CipherAssumption
<1>2. /\ next' = next + n /\ holder = "none"
      /\ UNCHANGED <<window, got, readPlainBuf, wire, broken, writeCounter, coalesce>>
  BY DEF BeginWrite, rvars
<1>3. PICK m \in Nat : m = next + n /\ next <= m /\ m - next = n
  BY <1>0, <1>1
<1>4. [i \in 1 .. n |-> next + i] = Run(next, m)
  BY <1>3 DEF Run
<1>5. ASSUME ~broken PROVE Pending' = Run(E[writeCounter], m)
  <2> DEFINE a == E[writeCounter]
  <2>1. Pending = Run(a, next)
    BY <1>5 DEF Tiled
  <2>2. CASE coalesce
    <3>1. Pending' = Pending \o Run(next, m)
      BY <1>2, <1>4, <2>2, Zenon DEF BeginWrite, Pending
    <3> QED
      BY <1>0, <1>3, <2>1, <3>1, RunConcat, Zenon
  <2>3. CASE ~coalesce
    <3>1. Pending' = Run(next, m)
      BY <1>2, <1>4, <2>3 DEF BeginWrite, Pending
    <3>2. Pending = <<>>
      BY <1>2, <2>3 DEF TilesInv, OneBuffer, Pending
    <3>3. a = next
      BY <1>0, <2>1, <3>2, RunIsEmpty, Zenon
    <3> QED
      BY <3>1, <3>3
  <2> QED
    BY <2>2, <2>3
<1>6. \A k \in Nat : E[k] <= next'
  <2>1. \A k \in Nat : E[k] \in Nat /\ E[k] <= next
    BY DEF Tiled
  <2> QED
    BY <1>0, <1>1, <1>2, <2>1
<1>7. Tiled(E, g)'
  BY <1>2, <1>3, <1>5, <1>6, ZenonT(60) DEF Tiled
<1> QED
  BY <1>0, <1>1, <1>2, <1>7

\* The first n numbers of a run and the others, as Read takes them from a buffer.
LEMMA RunCut ==
    ASSUME NEW a \in Nat, NEW c \in Nat, NEW n \in Nat, a + n <= c
    PROVE  UpTo(Run(a, c), n) = Run(a, a + n) /\ Beyond(Run(a, c), n) = Run(a + n, c)
<1>1. Len(Run(a, c)) = c - a
  BY RunSeq
<1>2. n <= c - a
  OBVIOUS
<1>3. UpTo(Run(a, c), n) = SubSeq(Run(a, c), 1, n)
  BY <1>1, <1>2 DEF UpTo
<1>4. SubSeq(Run(a, c), 1, n) = Run(a, a + n)
  BY RunHead, ZenonT(60)
<1>5. PICK j \in Nat : j = c - a
  BY <1>2
<1>6. n <= j /\ a + j <= c
  BY <1>2, <1>5
<1>7. SubSeq(Run(a, c), n + 1, j) = Run(a + n, a + j)
  BY <1>6, RunPiece, ZenonT(60)
<1>8. Beyond(Run(a, c), n) = Run(a + n, c)
  <2>1. a + j = c
    BY <1>5
  <2> QED
    BY <1>1, <1>5, <1>7, <2>1 DEF Beyond
<1> QED
  BY <1>3, <1>4, <1>8

LEMMA RunTaken ==
    ASSUME NEW a \in Nat, NEW b \in Nat, NEW c \in Nat, NEW n \in Nat, b = a + n, b <= c
    PROVE  UpTo(Run(a, c), n) = Run(a, b) /\ Beyond(Run(a, c), n) = Run(b, c)
BY RunCut

\* Read returns n bytes of the record it has.
LEMMA TiledBuffered ==
    ASSUME TilesInv, NEW E \in [Nat -> Nat], NEW g \in Nat, Tiled(E, g),
           NEW n \in 1 .. MaxRecord, ReadBuffered(n)
    PROVE  g + n \in Nat /\ n \in Nat /\ Tiled(E, g + n)'
<1> DEFINE b == E[window.maxSeq]
<1>0. window.maxSeq \in Nat /\ b \in Nat
  BY TiledTypes, Zenon
<1>1. n \in Nat
  BY CipherAssumption
<1>2. g <= b /\ got = Run(0, g) /\ readPlainBuf = Run(g, b)
  BY DEF Tiled
<1>3. n \in 1 .. Len(Run(g, b))
  BY <1>2 DEF ReadBuffered
<1> HIDE DEF b
<1>4. PICK h \in Nat : h = g + n /\ g <= h
  BY <1>1
<1>5. h <= b
  <2>1. g <= b
    BY <1>2
  <2>2. Len(Run(g, b)) = b - g
    BY <1>0, <2>1, RunSeq
  <2>3. n <= b - g
    BY <1>3, <2>2
  <2> QED
    BY <1>0, <1>1, <1>4, <2>3
<1>11. UpTo(Run(g, b), n) = Run(g, h) /\ Beyond(Run(g, b), n) = Run(h, b)
  BY <1>0, <1>1, <1>4, <1>5, RunTaken
<1>6. Run(0, g) \o Run(g, h) = Run(0, h)
  <2>1. 0 \in Nat /\ 0 <= g
    OBVIOUS
  <2> QED
    BY <1>4, <2>1, RunConcat, Zenon
<1>7. got' = Run(0, h) /\ readPlainBuf' = Run(h, b)
  BY <1>2, <1>6, <1>11, ZenonT(60) DEF ReadBuffered
<1>8. UNCHANGED <<next, window, wire, broken, writeCounter, coalesce, coalesceBuf, rest>>
  BY DEF ReadBuffered, wvars
<1>9. Pending' = Pending
  BY <1>8 DEF Pending
<1>10. Tiled(E, h)'
  BY <1>5, <1>7, <1>8, <1>9, Zenon DEF Tiled, b
<1> QED
  BY <1>1, <1>4, <1>10

\* A counter not below w that is w itself or one of the first w counters is w.
LEMMA NoneBeyond == \A w, k \in Nat : \A c \in 1 .. w : w <= k /\ (k = w \/ k = c) => k = w
OBVIOUS

\* The head of the wire goes: a record that was accepted before, or the next one.
LEMMA TiledHeadGone ==
    ASSUME TilesInv, NEW E \in [Nat -> Nat], NEW g \in Nat, Tiled(E, g), wire # <<>>, wire' = Tail(wire),
           NEW m \in Nat, window.maxSeq <= m, wire[1].counter <= m,
           m = window.maxSeq \/ m = wire[1].counter
    PROVE  /\ \A i \in 1 .. Len(wire') :
                  /\ E[wire'[i].counter - 1] <= E[wire'[i].counter]
                  /\ wire'[i].data = Run(E[wire'[i].counter - 1], E[wire'[i].counter])
           /\ Chained(wire', m)
           /\ ~broken => Reaches(wire', m, writeCounter)
<1>0. window.maxSeq \in Nat /\ writeCounter \in Nat /\ wire \in Seq(Sealed) /\ window.maxSeq <= writeCounter
  BY TiledTypes, Zenon
<1>1. /\ Len(wire) \in Nat \ {0} /\ Len(wire') = Len(wire) - 1
      /\ \A i \in 1 .. Len(wire) - 1 : i + 1 \in 1 .. Len(wire) /\ wire'[i] = wire[i + 1]
  BY HeadOK DEF TilesInv
<1>2. Chained(wire', m)
  BY <1>0, ChainTail, ZenonT(60) DEF Tiled
<1>3. \A i \in 1 .. Len(wire') : \E j \in 1 .. Len(wire) : wire'[i] = wire[j]
  BY <1>1, Zenon
<1>4. \A j \in 1 .. Len(wire) :
          /\ E[wire[j].counter - 1] <= E[wire[j].counter]
          /\ wire[j].data = Run(E[wire[j].counter - 1], E[wire[j].counter])
  BY Zenon DEF Tiled
<1>5. ASSUME NEW i \in 1 .. Len(wire')
      PROVE  /\ E[wire'[i].counter - 1] <= E[wire'[i].counter]
             /\ wire'[i].data = Run(E[wire'[i].counter - 1], E[wire'[i].counter])
  <2>1. PICK j \in 1 .. Len(wire) : wire'[i] = wire[j]
    BY <1>3
  <2> QED
    BY <1>4, <2>1, Zenon
<1>6. ASSUME ~broken PROVE Reaches(wire', m, writeCounter)
  <2>1. CASE window.maxSeq = writeCounter
    <3>1. wire[1].counter \in 1 .. writeCounter
      BY HeadOK, ZenonT(60) DEF TilesInv
    <3>2. m = writeCounter
      <4>1. writeCounter <= m /\ (m = writeCounter \/ m = wire[1].counter)
        BY <2>1
      <4> QED
        BY <1>0, <3>1, <4>1, NoneBeyond, Zenon
    <3> QED
      BY <3>2 DEF Reaches
  <2>2. ASSUME NEW j \in 1 .. Len(wire), wire[j].counter = writeCounter
        PROVE  Reaches(wire', m, writeCounter)
    <3>1. CASE j = 1
      <4>1. wire[1].counter = writeCounter
        BY <2>2, <3>1
      <4>2. m = writeCounter
        <5>1. \A w, k, x \in Nat : x <= w /\ x <= k /\ w <= k /\ (k = x \/ k = w) => k = w
          OBVIOUS
        <5>2. writeCounter <= m /\ (m = window.maxSeq \/ m = writeCounter)
          BY <4>1
        <5> QED
          BY <1>0, <5>1, <5>2, Zenon
      <4> QED
        BY <4>2 DEF Reaches
    <3>2. CASE j # 1
      <4>1. j - 1 \in 1 .. Len(wire) - 1 /\ (j - 1) + 1 = j
        BY <1>1, <3>2
      <4>2. PICK k \in 1 .. Len(wire) - 1 : k + 1 = j
        BY <4>1
      <4>3. k \in 1 .. Len(wire') /\ wire'[k] = wire[j]
        BY <1>1, <4>2
      <4> QED
        BY <2>2, <4>3, ZenonT(60) DEF Reaches
    <3> QED
      BY <3>1, <3>2
  <2>3. Reaches(wire, window.maxSeq, writeCounter)
    BY <1>6 DEF Tiled
  <2> QED
    BY <2>1, <2>2, <2>3, ZenonT(60) DEF Reaches
<1> QED
  BY <1>2, <1>5, <1>6, Zenon

\* What the window accepts is the next record, and what it refuses an older one.
LEMMA NextAccepted ==
    ASSUME TilesInv, NEW E \in [Nat -> Nat], NEW g \in Nat, Tiled(E, g), wire # <<>>
    PROVE  /\ wire[1].counter \in Nat \ {0} /\ wire[1].counter <= window.maxSeq + 1
           /\ Accepts(window, wire[1].counter) => wire[1].counter = window.maxSeq + 1
           /\ ~Accepts(window, wire[1].counter) => wire[1].counter <= window.maxSeq
<1>0. window.maxSeq \in Nat /\ writeCounter \in Nat
  BY TiledTypes
<1>1. Len(wire) \in Nat \ {0} /\ wire[1].counter \in 1 .. writeCounter
  BY HeadOK, Zenon DEF TilesInv
<1>2. PICK c \in Nat : c = wire[1].counter /\ c # 0
  <2>1. \A w \in Nat : \A c \in 1 .. w : c \in Nat /\ c # 0
    OBVIOUS
  <2> QED
    BY <1>0, <1>1, <2>1, Zenon
<1>3. PICK m \in Nat : m = window.maxSeq
  BY <1>0
<1>4. c <= m + 1
  <2>1. 1 \in 1 .. Len(wire)
    BY <1>1
  <2>2. wire[1].counter <= window.maxSeq + 1 \/ \E j \in 1 .. 1 - 1 : wire[j].counter = wire[1].counter - 1
    BY <2>1 DEF Tiled, Chained
  <2>3. ~ \E j \in 1 .. 1 - 1 : wire[j].counter = wire[1].counter - 1
    OBVIOUS
  <2> QED
    BY <1>2, <1>3, <2>2, <2>3
<1>5. Accepts(window, c) => c = m + 1
  <2>1. CASE c > m
    BY <1>4, <2>1
  <2>2. CASE ~(c > m)
    <3>1. c \in 1 .. m
      <4>1. c # 0
        BY <1>2
      <4> QED
        BY <2>2, <4>1
    <3>2. m - c < Size => window.bits[Slot(c)]
      BY <1>3, <3>1, Zenon DEF Tiled, AllSeen
    <3> QED
      BY <1>3, <2>2, <3>2, ZenonT(60) DEF Accepts
  <2> QED
    BY <2>1, <2>2
<1>6. ~Accepts(window, c) => c <= m
  <2>1. ~Accepts(window, c) => ~(c > m)
    BY <1>2, <1>3 DEF Accepts
  <2> QED
    BY <2>1
<1> QED
  BY <1>2, <1>3, <1>4, <1>5, <1>6, Zenon

\* Read takes the next record and returns n bytes of it.
LEMMA TiledRead ==
    ASSUME TilesInv, NEW E \in [Nat -> Nat], NEW g \in Nat, Tiled(E, g),
           NEW n \in 1 .. MaxRecord, ReadRecord(n)
    PROVE  g + n \in Nat /\ n \in Nat /\ Tiled(E, g + n)'
<1>0. window \in Window /\ window.maxSeq \in Nat /\ E[window.maxSeq] \in Nat
  BY TiledTypes, ZenonT(60)
<1>1. n \in Nat
  BY CipherAssumption
<1>2. /\ wire # <<>> /\ wire' = Tail(wire) /\ readPlainBuf = <<>> /\ Head(wire) = wire[1]
      /\ n \in 1 .. Len(wire[1].data) /\ Accepts(window, wire[1].counter)
      /\ window' = Add(window, wire[1].counter)
      /\ got' = got \o UpTo(wire[1].data, n) /\ readPlainBuf' = Beyond(wire[1].data, n)
      /\ UNCHANGED <<next, broken, writeCounter, coalesce, coalesceBuf, rest>>
  BY HeadOK, Zenon DEF TilesInv, ReadRecord, wvars
<1>3. wire[1].counter = window.maxSeq + 1
  BY <1>2, NextAccepted, Zenon
<1>4. PICK c \in Nat : c = window.maxSeq + 1
  BY <1>0
<1>5. PICK b \in Nat : b = E[c]
  OBVIOUS
<1>6. g = E[window.maxSeq]
  <2>1. g <= E[window.maxSeq] /\ Run(g, E[window.maxSeq]) = <<>>
    BY <1>2, ZenonT(60) DEF Tiled
  <2> QED
    BY <1>0, <2>1, RunIsEmpty, Zenon
<1>7. g <= b /\ wire[1].data = Run(g, b) /\ got = Run(0, g)
  <2>1. 1 \in 1 .. Len(wire)
    BY <1>2, HeadOK DEF TilesInv
  <2>2. /\ E[wire[1].counter - 1] <= E[wire[1].counter]
        /\ wire[1].data = Run(E[wire[1].counter - 1], E[wire[1].counter])
    BY <2>1 DEF Tiled
  <2>3. wire[1].counter - 1 = window.maxSeq
    BY <1>0, <1>3
  <2> QED
    BY <1>3, <1>4, <1>5, <1>6, <2>2, <2>3, ZenonT(60) DEF Tiled
<1>8. PICK h \in Nat : h = g + n /\ g <= h
  BY <1>1
<1>9. h <= b
  <2>1. Len(Run(g, b)) = b - g
    BY <1>7, RunSeq, ZenonT(60)
  <2>2. n <= b - g
    BY <1>2, <1>7, <2>1
  <2> QED
    BY <1>1, <1>8, <2>2
<1>10. UpTo(Run(g, b), n) = Run(g, h) /\ Beyond(Run(g, b), n) = Run(h, b)
  BY <1>1, <1>8, <1>9, RunTaken
<1>11. Run(0, g) \o Run(g, h) = Run(0, h)
  <2>1. 0 \in Nat /\ 0 <= g
    OBVIOUS
  <2> QED
    BY <1>8, <2>1, RunConcat, Zenon
<1>12. got' = Run(0, h) /\ readPlainBuf' = Run(h, b)
  BY <1>2, <1>7, <1>10, <1>11, ZenonT(60)
<1>13. window'.maxSeq = c /\ AllSeen(window')
  <2>1. window' = Add(window, window.maxSeq + 1)
    BY <1>2, <1>3
  <2>2. AllSeen(window')
    BY <1>0, <2>1, SeenNext DEF Tiled
  <2>3. window'.maxSeq = IF c > window.maxSeq THEN c ELSE window.maxSeq
    BY <1>0, <1>4, <2>1, AddOK, Zenon
  <2> QED
    BY <1>0, <1>4, <2>2, <2>3
<1>14. /\ \A i \in 1 .. Len(wire') :
              /\ E[wire'[i].counter - 1] <= E[wire'[i].counter]
              /\ wire'[i].data = Run(E[wire'[i].counter - 1], E[wire'[i].counter])
       /\ Chained(wire', c)
       /\ ~broken => Reaches(wire', c, writeCounter)
  <2>1. window.maxSeq <= c /\ wire[1].counter <= c /\ c = wire[1].counter
    BY <1>0, <1>3, <1>4
  <2> QED
    BY <1>2, <2>1, TiledHeadGone, ZenonT(60)
<1>15. Pending' = Pending
  BY <1>2 DEF Pending
<1>16. Tiled(E, h)'
  BY <1>2, <1>5, <1>9, <1>12, <1>13, <1>14, <1>15, ZenonT(60) DEF Tiled
<1> QED
  BY <1>1, <1>8, <1>16

\* Read refuses a record that came twice.
LEMMA TiledRefuse ==
    ASSUME TilesInv, ~timedOut, NEW E \in [Nat -> Nat], NEW g \in Nat, Tiled(E, g), ReadRefuses
    PROVE  Tiled(E, g)'
<1>0. window.maxSeq \in Nat
  BY TiledTypes, ZenonT(60)
<1>1. /\ wire # <<>> /\ wire' = Tail(wire) /\ Head(wire) = wire[1]
      /\ wire[1].gen = ReadGen(wire[1].counter)
      /\ UNCHANGED <<next, window, got, readPlainBuf, broken, writeCounter, coalesce, coalesceBuf, rest>>
  BY HeadOK, Zenon DEF TilesInv, ReadRefuses, wvars
<1>2. ~Accepts(window, wire[1].counter)
  BY <1>1, Zenon DEF ReadRefuses
<1>3. wire[1].counter <= window.maxSeq
  BY <1>1, <1>2, NextAccepted, Zenon
<1>4. window.maxSeq <= window.maxSeq
  BY <1>0
<1>5. /\ \A i \in 1 .. Len(wire') :
             /\ E[wire'[i].counter - 1] <= E[wire'[i].counter]
             /\ wire'[i].data = Run(E[wire'[i].counter - 1], E[wire'[i].counter])
      /\ Chained(wire', window.maxSeq)
      /\ ~broken => Reaches(wire', window.maxSeq, writeCounter)
  BY <1>0, <1>1, <1>3, <1>4, TiledHeadGone, Zenon
<1>6. Pending' = Pending
  BY <1>1 DEF Pending
<1> QED
  BY <1>1, <1>5, <1>6, ZenonT(60) DEF Tiled

\* The carrier fails and keeps the first records, or delivers one again.
LEMMA TiledCarrier ==
    ASSUME TilesInv, NEW E \in [Nat -> Nat], NEW g \in Nat, Tiled(E, g),
           (\E n \in 0 .. Len(wire) : CarrierFails(n)) \/ (\E i \in DOMAIN wire : Replay(i))
    PROVE  Tiled(E, g)'
<1>0. window.maxSeq \in Nat /\ wire \in Seq(Sealed) /\ Len(wire) \in Nat /\ DOMAIN wire = 1 .. Len(wire)
  BY TiledTypes, ZenonT(60)
<1>1. UNCHANGED <<next, window, got, readPlainBuf, writeCounter, coalesce, coalesceBuf, rest>>
  BY DEF CarrierFails, Replay, wvars, rvars
<1>2. \A j \in 1 .. Len(wire) :
          /\ E[wire[j].counter - 1] <= E[wire[j].counter]
          /\ wire[j].data = Run(E[wire[j].counter - 1], E[wire[j].counter])
  BY DEF Tiled
<1>3. ASSUME \A i \in 1 .. Len(wire') : \E j \in 1 .. Len(wire) : wire'[i] = wire[j],
             Chained(wire', window.maxSeq),
             broken' \/ (~broken /\ Reaches(wire', window.maxSeq, writeCounter))
      PROVE  Tiled(E, g)'
  <2>1. ASSUME NEW i \in 1 .. Len(wire')
        PROVE  /\ E[wire'[i].counter - 1] <= E[wire'[i].counter]
               /\ wire'[i].data = Run(E[wire'[i].counter - 1], E[wire'[i].counter])
    <3>1. PICK j \in 1 .. Len(wire) : wire'[i] = wire[j]
      BY <1>3, Zenon
    <3> QED
      BY <1>2, <3>1, Zenon
  <2>2. Pending' = Pending
    BY <1>1 DEF Pending
  <2> QED
    BY <1>1, <1>3, <2>1, <2>2, Zenon DEF Tiled
<1>4. ASSUME NEW n \in 0 .. Len(wire), CarrierFails(n) PROVE Tiled(E, g)'
  <2>1. wire' = UpTo(wire, n) /\ broken'
    BY <1>4 DEF CarrierFails
  <2>2. Len(wire') = n /\ \A i \in 1 .. n : wire'[i] = wire[i]
    BY <1>0, <2>1, FirstOnes, Zenon
  <2>3. \A i \in 1 .. Len(wire') : i \in 1 .. Len(wire) /\ wire'[i] = wire[i]
    <3>1. \A m \in Nat : \A k \in 0 .. m : \A i \in 1 .. k : i \in 1 .. m
      OBVIOUS
    <3> QED
      BY <1>0, <2>2, <3>1, Zenon
  <2>4. Chained(wire', window.maxSeq)
    BY <1>0, <2>1, ChainFront, ZenonT(60) DEF Tiled
  <2> QED
    BY <1>3, <2>1, <2>3, <2>4, ZenonT(60)
<1>5. ASSUME NEW i \in DOMAIN wire, Replay(i) PROVE Tiled(E, g)'
  <2>1. i \in 1 .. Len(wire) /\ wire[i] \in Sealed
    BY <1>0, <1>5, ElementOfSeq
  <2>2. wire' = Append(wire, wire[i]) /\ ~broken /\ broken' = broken
    BY <1>5 DEF Replay
  <2>3. /\ Len(wire') = Len(wire) + 1 /\ \A j \in 1 .. Len(wire) : wire'[j] = wire[j]
        /\ wire'[Len(wire) + 1] = wire[i]
    BY <1>0, <2>1, <2>2, Appended
  <2>4. \A j \in 1 .. Len(wire') : j \in 1 .. Len(wire) \/ j = Len(wire) + 1
    <3>1. \A m \in Nat : \A j \in 1 .. m + 1 : j \in 1 .. m \/ j = m + 1
      OBVIOUS
    <3> QED
      BY <1>0, <2>3, <3>1, Zenon
  <2>5. \A j \in 1 .. Len(wire') : \E k \in 1 .. Len(wire) : wire'[j] = wire[k]
    BY <2>1, <2>3, <2>4, Zenon
  <2>6. \A j \in 1 .. Len(wire) : j \in 1 .. Len(wire')
    BY <1>0, <2>3
  <2>7. Chained(wire', window.maxSeq)
    <3>1. \/ wire[i].counter <= window.maxSeq + 1
          \/ \E j \in 1 .. i - 1 : wire[j].counter = wire[i].counter - 1
      BY <2>1, Zenon DEF Tiled, Chained
    <3>2. \A j \in 1 .. i - 1 : j \in 1 .. Len(wire)
      BY <1>0, <2>1
    <3>3. \/ wire[i].counter <= window.maxSeq + 1
          \/ \E j \in 1 .. Len(wire) : wire[j].counter = wire[i].counter - 1
      BY <3>1, <3>2, Zenon
    <3>4. Chained(wire, window.maxSeq)
      BY DEF Tiled
    <3> QED
      BY <1>0, <2>1, <2>2, <3>3, <3>4, ChainAppended, ZenonT(60)
  <2>8. Reaches(wire', window.maxSeq, writeCounter)
    <3>1. Reaches(wire, window.maxSeq, writeCounter)
      BY <2>2, Zenon DEF Tiled
    <3> QED
      BY <2>3, <2>6, <3>1, Zenon DEF Reaches
  <2> QED
    BY <1>3, <2>2, <2>5, <2>7, <2>8, ZenonT(60)
<1> QED
  BY <1>4, <1>5

-----------------------------------------------------------------------------
\* What is written is the run of all numbers up to next.
LEMMA WrittenRun == ASSUME NEW n \in Nat PROVE [i \in 1 .. n |-> i] = Run(0, n)
<1>1. n - 0 = n /\ \A i \in 1 .. n : 0 + i = i
  OBVIOUS
<1> QED
  BY <1>1 DEF Run

\* More is written; what was written stays.
LEMMA AcceptStep ==
    ASSUME NEW n \in Nat \ {0}, next \in Nat, next' = next + n, UNCHANGED <<got, timedOut>>
    PROVE  Abstract!Next
<1>0. PICK w \in Nat : w = next'
  OBVIOUS
<1>1. [i \in 1 .. next |-> i] = Run(0, next) /\ [i \in 1 .. next' |-> i] = Run(0, next')
  <2>1. [i \in 1 .. next |-> i] = Run(0, next) /\ [i \in 1 .. w |-> i] = Run(0, w)
    BY WrittenRun, ZenonT(30)
  <2> QED
    BY <1>0, <2>1, ZenonT(30)
<1>2. Len(Run(0, next)) = next /\ Len(Run(0, next')) = next + n
  <2>1. 0 \in Nat /\ 0 <= next /\ 0 <= next' /\ next' \in Nat
    OBVIOUS
  <2>2. Len(Run(0, next)) = next - 0 /\ Len(Run(0, next')) = next' - 0
    BY <2>1, RunSeq
  <2> QED
    BY <2>2
<1>3. SubSeq(Run(0, next'), 1, next) = Run(0, next)
  <2>1. 0 \in Nat /\ next' \in Nat /\ 0 + next <= next' /\ 0 + next = next
    OBVIOUS
  <2>2. SubSeq(Run(0, next'), 1, next) = Run(0, 0 + next)
    BY <2>1, RunHead
  <2> QED
    BY <2>1, <2>2
<1>4. Abstract!Accept(n)
  BY <1>1, <1>2, <1>3 DEF Abstract!Accept
<1>5. n \in 1 .. Len([i \in 1 .. next' |-> i]) - Len([i \in 1 .. next |-> i])
  BY <1>1, <1>2
<1> QED
  BY <1>4, <1>5 DEF Abstract!Next

\* More is read: a longer prefix of what was written.
LEMMA DeliverStep ==
    ASSUME NEW g \in Nat, NEW n \in Nat \ {0}, next \in Nat, g + n <= next,
           got = Run(0, g), got' = Run(0, g + n), UNCHANGED <<next, timedOut>>
    PROVE  Abstract!Next
<1>1. [i \in 1 .. next |-> i] = Run(0, next)
  BY WrittenRun
<1>2. Len(Run(0, next)) = next /\ Len(Run(0, g)) = g
  <2>1. 0 \in Nat /\ 0 <= next /\ 0 <= g
    OBVIOUS
  <2>2. Len(Run(0, next)) = next - 0 /\ Len(Run(0, g)) = g - 0
    BY <2>1, RunSeq, Zenon
  <2> QED
    BY <2>2
<1>3. SubSeq(Run(0, next), 1, g + n) = Run(0, g + n)
  <2>1. PICK h \in Nat : h = g + n
    OBVIOUS
  <2>2. 0 \in Nat /\ 0 + h <= next /\ 0 + h = h
    BY <2>1
  <2>3. SubSeq(Run(0, next), 1, h) = Run(0, 0 + h)
    BY <2>2, RunHead, Zenon
  <2> QED
    BY <2>1, <2>2, <2>3
<1>4. Abstract!Deliver(n)
  BY <1>1, <1>2, <1>3 DEF Abstract!Deliver
<1>5. n \in 1 .. Len([i \in 1 .. next |-> i]) - Len(got)
  BY <1>1, <1>2
<1> QED
  BY <1>4, <1>5 DEF Abstract!Next

\* The step of the stream and of the ReliableStream that it is, while no write has timed out.
LEMMA TiledStep ==
    ASSUME TilesInv, ~timedOut, ~timedOut', [Next]_vars
    PROVE  /\ \E E \in [Nat -> Nat], g \in Nat : Tiled(E, g)'
           /\ Abstract!Next \/ UNCHANGED <<next, got, timedOut>>
<1>0. PICK E \in [Nat -> Nat], g \in Nat : Tiled(E, g)
  BY DEF TilesInv
<1>1. CASE SendRecord
  <2>1. UNCHANGED <<next, got, timedOut>>
    BY <1>1 DEF SendRecord, rvars
  <2>2. \E F \in [Nat -> Nat] : Tiled(F, g)'
    BY <1>0, <1>1, TiledSend
  <2> QED
    BY <1>0, <2>1, <2>2
<1>2. CASE \/ SendFails \/ FinishWrite \/ FinishTimer \/ FinishClose \/ CallClose \/ BeginClose
           \/ (\E t \in Timer : TimerFires(t) \/ BeginTimer(t)) \/ UNCHANGED vars
  <2>1. /\ broken' = broken /\ UNCHANGED <<next, window, got, readPlainBuf, wire, timedOut>>
        /\ broken \/ UNCHANGED <<writeCounter, coalesce, coalesceBuf, rest>>
    BY <1>2 DEF SendFails, ReturnError, FinishWrite, FinishTimer, FinishClose, CallClose, BeginClose,
                TimerFires, BeginTimer, vars, wvars, rvars
  <2>2. Tiled(E, g)'
    BY <1>0, <2>1, TiledStable
  <2> QED
    BY <1>0, <2>1, <2>2
<1>3. ASSUME NEW n \in 1 .. MaxBytes, BeginWrite(n)
      PROVE  Tiled(E, g)' /\ Abstract!Next
  <2>1. Tiled(E, g)' /\ next \in Nat /\ n \in Nat /\ next' = next + n
    BY <1>0, <1>3, TiledWrite
  <2>2. n # 0
    OBVIOUS
  <2>3. UNCHANGED <<got, timedOut>>
    BY <1>3 DEF BeginWrite, rvars
  <2> QED
    BY <2>1, <2>2, <2>3, AcceptStep
<1>4. ASSUME NEW n \in 1 .. MaxRecord, ReadBuffered(n) \/ ReadRecord(n)
      PROVE  (g + n \in Nat /\ Tiled(E, g + n)') /\ Abstract!Next
  <2>1. g + n \in Nat /\ n \in Nat /\ Tiled(E, g + n)'
    BY <1>0, <1>4, TiledBuffered, TiledRead
  <2>2. n # 0 /\ UNCHANGED <<next, timedOut>>
    <3>1. n # 0
      OBVIOUS
    <3>2. UNCHANGED wvars
      BY <1>4, Zenon DEF ReadBuffered, ReadRecord
    <3> QED
      BY <3>1, <3>2 DEF wvars
  <2>3. next \in Nat /\ got = Run(0, g)
    BY <1>0, TiledTypes, Zenon DEF Tiled
  <2>4. got' = Run(0, g + n) /\ g + n <= next
    <3>1. PICK h \in Nat : h = g + n
      BY <2>1
    <3>2. Tiled(E, h)' /\ window'.maxSeq \in Nat
      <4>1. RefusedInv'
        BY RefusedNext DEF TilesInv
      <4>2. window'.maxSeq \in Nat
        BY <4>1 DEF RefusedInv, Window
      <4> QED
        BY <2>1, <3>1, <4>2
    <3>3. got' = Run(0, h) /\ h <= E[window'.maxSeq] /\ E[window'.maxSeq] <= next' /\ E[window'.maxSeq] \in Nat
      BY <3>2, Zenon DEF Tiled
    <3>4. h <= next
      BY <2>2, <2>3, <3>3
    <3> QED
      BY <3>1, <3>3, <3>4
  <2> QED
    BY <2>1, <2>2, <2>3, <2>4, DeliverStep
<1>5. CASE ReadRefuses
  <2>1. UNCHANGED <<next, got, timedOut>>
    BY <1>5 DEF ReadRefuses, wvars
  <2>2. Tiled(E, g)'
    BY <1>0, <1>5, TiledRefuse
  <2> QED
    BY <1>0, <2>1, <2>2
<1>6. CASE (\E n \in 0 .. Len(wire) : CarrierFails(n)) \/ (\E i \in DOMAIN wire : Replay(i))
  <2>1. UNCHANGED <<next, got, timedOut>>
    BY <1>6 DEF CarrierFails, Replay, wvars, rvars
  <2>2. Tiled(E, g)'
    BY <1>0, <1>6, TiledCarrier
  <2> QED
    BY <1>0, <2>1, <2>2
<1>7. \A sent : ~SendTimesOut(sent)
  BY DEF SendTimesOut
<1> QED
  BY <1>0, <1>1, <1>2, <1>3, <1>4, <1>5, <1>6, <1>7, ZenonT(60) DEF Next, WriterStep, ReaderStep

\* A timeout ends the promise and nothing restores it.
LEMMA TilesNext == ASSUME TilesInv, [Next]_vars PROVE TilesInv' /\ [Abstract!Next]_(Abstract!vars)
<1>1. RefusedInv' /\ OneBuffer'
  BY RefusedNext, OneBufferKeeps DEF TilesInv, RefusedInv
<1>2. /\ timedOut' \in BOOLEAN /\ (timedOut => timedOut') /\ (torn' => timedOut')
  <2>1. timedOut \in BOOLEAN /\ (torn => timedOut)
    BY DEF TilesInv
  <2>2. CASE \E sent \in {"none", "part", "all"} : SendTimesOut(sent)
    BY <2>1, <2>2 DEF SendTimesOut
  <2>3. CASE UNCHANGED <<timedOut, torn>>
    BY <2>1, <2>3
  <2> QED
    BY <2>2, <2>3 DEF Next, WriterStep, ReaderStep, SendRecord, SendFails, FinishWrite, FinishTimer,
        FinishClose, CallClose, BeginClose, BeginWrite, TimerFires, BeginTimer, ReadBuffered, ReadRecord,
        ReadRefuses, CarrierFails, Replay, vars, wvars
<1>3. CASE timedOut'
  <2>1. Abstract!Next
    BY <1>2, <1>3 DEF Abstract!Next, Abstract!Void
  <2> QED
    BY <1>1, <1>2, <1>3, <2>1 DEF TilesInv
<1>4. CASE ~timedOut'
  <2>1. ~timedOut
    BY <1>2, <1>4
  <2>2. /\ \E E \in [Nat -> Nat], g \in Nat : Tiled(E, g)'
        /\ Abstract!Next \/ UNCHANGED <<next, got, timedOut>>
    BY <1>4, <2>1, TiledStep
  <2>3. [Abstract!Next]_(Abstract!vars)
    BY <2>2 DEF Abstract!vars
  <2>4. TilesInv'
    BY <1>1, <1>2, <2>2 DEF TilesInv
  <2> QED
    BY <2>3, <2>4
<1> QED
  BY <1>3, <1>4

\* IsReliableStream: over coalescing, flushes by timers, records read in pieces, duplicates and
\* carrier failures the reader gets a prefix of what was written, until a write times out.
THEOREM StreamIsReliable == Spec => IsReliableStream
<1>1. Init => TilesInv /\ Abstract!Init
  <2> SUFFICES ASSUME Init PROVE TilesInv /\ Abstract!Init
    OBVIOUS
  <2>1. RefusedInv
    BY RefusedInit
  <2>2. OneBuffer /\ timedOut = FALSE /\ torn = FALSE
    BY DEF Init, OneBuffer
  <2>3. Run(0, 0) = <<>> /\ Len(<<>>) = 0
    BY RunEmpty, EmptySeq
  <2>4. window.maxSeq = 0
    BY DEF Init, EmptyWindow
  <2>5. Pending = <<>> /\ writeCounter = 0 /\ next = 0 /\ wire = <<>> /\ got = <<>> /\ readPlainBuf = <<>>
    BY DEF Init, Pending
  <2>6. PICK E \in [Nat -> Nat] : \A k \in Nat : E[k] = 0
    <3>1. [k \in Nat |-> 0] \in [Nat -> Nat] /\ \A k \in Nat : [i \in Nat |-> 0][k] = 0
      OBVIOUS
    <3> QED
      BY <3>1, ZenonT(60)
  <2>7. Chained(wire, window.maxSeq) /\ Reaches(wire, window.maxSeq, writeCounter)
    BY <2>3, <2>4, <2>5 DEF Chained, Reaches
  <2>8. AllSeen(window)
    BY <2>4 DEF AllSeen
  <2>9. Tiled(E, 0)
    <3>1. E[0] = 0 /\ \A k \in Nat : E[k] <= next
      BY <2>5, <2>6
    <3>2. \A i \in 1 .. Len(wire) : FALSE
      BY <2>3, <2>5
    <3> QED
      BY <2>3, <2>4, <2>5, <2>7, <2>8, <3>1, <3>2 DEF Tiled
  <2>10. TilesInv
    BY <2>1, <2>2, <2>9, Zenon DEF TilesInv
  <2>11. [i \in 1 .. next |-> i] = <<>>
    BY <2>3, <2>5, WrittenRun
  <2> QED
    BY <2>2, <2>5, <2>10, <2>11 DEF Abstract!Init
<1>2. TilesInv /\ [Next]_vars => TilesInv' /\ [Abstract!Next]_(Abstract!vars)
  BY TilesNext
<1> QED
  BY <1>1, <1>2, PTL DEF Spec, IsReliableStream, Abstract!Spec
=============================================================================
