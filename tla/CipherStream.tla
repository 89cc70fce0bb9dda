---------------------------- MODULE CipherStream ----------------------------
(***************************************************************************)
(* One direction of a V3CipherStream (internal/wire/cipher_stream.go): the *)
(* writing end with its record counter, coalescing buffer and timers, the  *)
(* carrier (a smux or QUIC stream) that delivers records in order, and the *)
(* reading end with its replay window.                                     *)
(*                                                                         *)
(* writeMu is held from the beginning of a Write, timer callback or Close  *)
(* to its end, and so while a record waits for room in the carrier; holder *)
(* says who has it.  Byte number i is the i-th byte handed to Write.  A    *)
(* sealed record opens under the key generation it was sealed with, and    *)
(* padding, which Read discards, is left out.                              *)
(***************************************************************************)
EXTENDS Integers, Sequences, FiniteSets, ReplayWindow

CONSTANTS MaxRecord,     \* maxV3RecordPlaintext
          Threshold,     \* coalesceFlushThreshold
          RekeyInterval,
          Capacity,      \* records the carrier holds before a write to it blocks
          Deadline,      \* a deadline is set on the stream, as during an open
          Timer,         \* bound: identities for timers that exist at once
          MaxBytes,      \* bound on the bytes written
          MaxReplays     \* bound on the records that arrive twice

ASSUME CipherAssumption ==
    /\ MaxRecord \in Nat \ {0} /\ Threshold \in 1 .. MaxRecord
    /\ RekeyInterval \in Nat \ {0} /\ Capacity \in Nat \ {0}
    /\ Deadline \in BOOLEAN /\ Timer \subseteq Nat \ {0}
    /\ MaxBytes \in Nat /\ MaxReplays \in Nat

VARIABLES
    coalesce,      \* CoalesceDelay > 0
    next,          \* the number of bytes handed to Write so far
    rest,          \* what is left of the argument of a Write that does not coalesce
    coalesceBuf,
    coalesceTimer, \* the timer the field points to, 0 for nil
    timer,         \* each timer: "none", "armed", or "fired" and waiting for writeMu
    holder,        \* who has writeMu: "none", "write", "timer" or "close"
    close,         \* Close: not called, waiting for writeMu, flushing, returned
    writeCounter,
    sealed,        \* history: every record ever sealed
    wire,          \* the records in the carrier
    broken,        \* the carrier has failed
    timedOut,      \* history: a write to the carrier has timed out
    torn,          \* and has left part of a record there
    window,        \* readWindow
    readPlainBuf,
    got,           \* history: the bytes Read has returned
    refused,       \* history: why Read has refused records
    replays        \* the number of records that were delivered twice

wvars == <<coalesce, next, rest, coalesceBuf, coalesceTimer, timer, holder, close,
           writeCounter, sealed, timedOut, torn>>
rvars == <<window, readPlainBuf, got, refused>>
vars == <<wvars, rvars, wire, broken, replays>>

Init ==
    /\ coalesce \in BOOLEAN
    /\ next = 0 /\ rest = <<>> /\ coalesceBuf = <<>>
    /\ coalesceTimer = 0
    /\ timer = [t \in Timer |-> "none"]
    /\ holder = "none" /\ close = "open"
    /\ writeCounter = 0 /\ sealed = {}
    /\ wire = <<>> /\ broken = FALSE /\ timedOut = FALSE /\ torn = FALSE
    /\ window = EmptyWindow /\ readPlainBuf = <<>> /\ got = <<>>
    /\ refused = {} /\ replays = 0

UpTo(s, n) == SubSeq(s, 1, IF Len(s) < n THEN Len(s) ELSE n)
Beyond(s, n) == SubSeq(s, n + 1, Len(s))

(***************************************************************************)
(* The generation of the key of a record, at either end.                   *)
(***************************************************************************)
\* Mutant: the writer changes keys one record early.
WriteGenEarly(counter) == counter \div RekeyInterval

WriteGen(counter) == (counter - 1) \div RekeyInterval

ReadGen(counter) == (counter - 1) \div RekeyInterval

(***************************************************************************)
(* What the holder of writeMu still has to send, a record at a time: a     *)
(* coalescing Write stops below the threshold, a flush at the end.         *)
(***************************************************************************)
ToSend ==
    CASE holder = "write" /\ coalesce -> IF Len(coalesceBuf) >= Threshold
                                         THEN coalesceBuf ELSE <<>>
      [] holder = "write" /\ ~coalesce -> rest
      [] holder \in {"timer", "close"} -> coalesceBuf
      [] OTHER -> <<>>

Chunk == UpTo(ToSend, MaxRecord)

Record == [counter |-> writeCounter + 1, gen |-> WriteGen(writeCounter + 1), data |-> Chunk]

\* The counter moves before the record is handed to the carrier, and stays
\* where it is when that fails.  That it never wraps, the code checks; 2^64 - 1 records
\* are far beyond the bounds.
Seal ==
    /\ writeCounter' = writeCounter + 1
    /\ sealed' = sealed \cup {Record}

\* Where a record has been left in part, nothing that follows it can be opened.
OnWire(isTorn) == IF isTorn THEN [Record EXCEPT !.gen = -1] ELSE Record

\* writeRecordLocked succeeds and its caller moves on.
SendRecord ==
    /\ Chunk # <<>> /\ ~broken
    /\ Len(wire) < Capacity
    /\ Seal
    /\ wire' = Append(wire, OnWire(torn))
    /\ IF holder = "write" /\ ~coalesce
       THEN rest' = Beyond(rest, Len(Chunk)) /\ UNCHANGED coalesceBuf
       ELSE coalesceBuf' = Beyond(coalesceBuf, Len(Chunk)) /\ UNCHANGED rest
    /\ UNCHANGED <<coalesce, next, coalesceTimer, timer, holder, close, broken, timedOut, torn,
                   rvars, replays>>

\* It fails: the call returns and what was not sent stays in coalesceBuf.
ReturnError ==
    /\ holder' = "none" /\ rest' = <<>>
    /\ coalesceTimer' = IF holder = "timer" THEN 0 ELSE coalesceTimer
    /\ close' = IF holder = "close" THEN "done" ELSE close
    /\ UNCHANGED <<coalesce, next, coalesceBuf, timer>>

\* Mutant: the counter moves only when the record has been written.
SendFailsKeepsCounter ==
    /\ Chunk # <<>> /\ broken
    /\ sealed' = sealed \cup {Record}
    /\ ReturnError
    /\ UNCHANGED <<writeCounter, wire, broken, timedOut, torn, rvars, replays>>

SendFails ==
    /\ Chunk # <<>> /\ broken
    /\ Seal /\ ReturnError
    /\ UNCHANGED <<wire, broken, timedOut, torn, rvars, replays>>

\* The deadline passes while the carrier is full: none of the record, part of it
\* or all of it is on its way.
SendTimesOut(sent) ==
    /\ Deadline
    /\ Chunk # <<>> /\ ~broken
    /\ Len(wire) >= Capacity
    /\ Seal /\ ReturnError
    /\ torn' = (torn \/ sent = "part")
    /\ wire' = IF sent = "none" THEN wire ELSE Append(wire, OnWire(torn'))
    /\ timedOut' = TRUE
    /\ UNCHANGED <<broken, rvars, replays>>

(***************************************************************************)
(* Write.                                                                  *)
(***************************************************************************)
FreeTimer == {t \in Timer : timer[t] = "none" /\ t # coalesceTimer}

BeginWrite(n) ==
    LET p == [i \in 1 .. n |-> next + i]
    IN  /\ holder = "none" /\ close \in {"open", "called"}
        /\ next + n <= MaxBytes
        /\ coalesce => FreeTimer # {}
        /\ next' = next + n
        /\ holder' = "write"
        /\ IF coalesce THEN coalesceBuf' = coalesceBuf \o p /\ UNCHANGED rest
                       ELSE rest' = p /\ UNCHANGED coalesceBuf
        /\ UNCHANGED <<coalesce, coalesceTimer, timer, close, writeCounter, sealed,
                       timedOut, torn, rvars, wire, broken, replays>>

\* Stop prevents a timer from firing, not a callback that waits for writeMu.
StopTimer ==
    /\ coalesceTimer' = 0
    /\ timer' = [t \in Timer |-> IF t = coalesceTimer /\ timer[t] = "armed"
                                 THEN "none" ELSE timer[t]]

StartTimer(t) ==
    /\ coalesceTimer' = t
    /\ timer' = [timer EXCEPT ![t] = "armed"]

FinishWrite ==
    /\ holder = "write" /\ ToSend = <<>>
    /\ holder' = "none"
    /\ IF coalesce /\ coalesceBuf = <<>> THEN StopTimer
       ELSE IF coalesce /\ coalesceTimer = 0 THEN \E t \in FreeTimer : StartTimer(t)
       ELSE UNCHANGED <<coalesceTimer, timer>>
    /\ UNCHANGED <<coalesce, next, rest, coalesceBuf, close, writeCounter, sealed,
                   timedOut, torn, rvars, wire, broken, replays>>

(***************************************************************************)
(* onCoalesceTimer.                                                        *)
(***************************************************************************)
TimerFires(t) ==
    /\ timer[t] = "armed"
    /\ timer' = [timer EXCEPT ![t] = "fired"]
    /\ UNCHANGED <<coalesce, next, rest, coalesceBuf, coalesceTimer, holder, close,
                   writeCounter, sealed, timedOut, torn, rvars, wire, broken, replays>>

BeginTimer(t) ==
    LET idle == close = "done" \/ coalesceBuf = <<>>
    IN  /\ timer[t] = "fired" /\ holder = "none"
        /\ timer' = [timer EXCEPT ![t] = "none"]
        /\ holder' = IF idle THEN "none" ELSE "timer"
        /\ coalesceTimer' = IF idle THEN 0 ELSE coalesceTimer
        /\ UNCHANGED <<coalesce, next, rest, coalesceBuf, close, writeCounter, sealed,
                       timedOut, torn, rvars, wire, broken, replays>>

\* Mutant: the field keeps pointing to the timer that has fired.
FinishTimerKeepsField ==
    /\ holder = "timer" /\ ToSend = <<>>
    /\ holder' = "none"
    /\ UNCHANGED <<coalesce, next, rest, coalesceBuf, coalesceTimer, timer, close,
                   writeCounter, sealed, timedOut, torn, rvars, wire, broken, replays>>

FinishTimer ==
    /\ holder = "timer" /\ ToSend = <<>>
    /\ holder' = "none" /\ coalesceTimer' = 0
    /\ UNCHANGED <<coalesce, next, rest, coalesceBuf, timer, close, writeCounter, sealed,
                   timedOut, torn, rvars, wire, broken, replays>>

(***************************************************************************)
(* Close.  It waits for writeMu like any Write.                            *)
(***************************************************************************)
CallClose ==
    /\ close = "open"
    /\ close' = "called"
    /\ UNCHANGED <<coalesce, next, rest, coalesceBuf, coalesceTimer, timer, holder,
                   writeCounter, sealed, timedOut, torn, rvars, wire, broken, replays>>

BeginClose ==
    /\ close = "called" /\ holder = "none"
    /\ close' = "closing" /\ holder' = "close"
    /\ StopTimer
    /\ UNCHANGED <<coalesce, next, rest, coalesceBuf, writeCounter, sealed, timedOut, torn,
                   rvars, wire, broken, replays>>

\* Mutant: Close does not wait for the buffer to be flushed.
FinishCloseUnflushed ==
    /\ holder = "close"
    /\ close' = "done" /\ holder' = "none"
    /\ UNCHANGED <<coalesce, next, rest, coalesceBuf, coalesceTimer, timer, writeCounter,
                   sealed, timedOut, torn, rvars, wire, broken, replays>>

FinishClose ==
    /\ holder = "close" /\ ToSend = <<>>
    /\ close' = "done" /\ holder' = "none"
    /\ UNCHANGED <<coalesce, next, rest, coalesceBuf, coalesceTimer, timer, writeCounter,
                   sealed, timedOut, torn, rvars, wire, broken, replays>>

(***************************************************************************)
(* Read at the other end: what is left of a record first, then the next    *)
(* record, whose counter is checked after it has been opened.              *)
(***************************************************************************)
ReadBuffered(n) ==
    /\ n \in 1 .. Len(readPlainBuf)
    /\ got' = got \o UpTo(readPlainBuf, n)
    /\ readPlainBuf' = Beyond(readPlainBuf, n)
    /\ UNCHANGED <<wvars, window, refused, wire, broken, replays>>

\* Mutant: the window is not consulted.
ReadRecordAnyCounter(n) ==
    LET r == Head(wire)
    IN  /\ readPlainBuf = <<>> /\ wire # <<>>
        /\ n \in 1 .. Len(r.data)
        /\ wire' = Tail(wire)
        /\ got' = got \o UpTo(r.data, n)
        /\ readPlainBuf' = Beyond(r.data, n)
        /\ UNCHANGED <<wvars, window, refused, broken, replays>>

ReadRecord(n) ==
    LET r == Head(wire)
    IN  /\ readPlainBuf = <<>> /\ wire # <<>>
        /\ n \in 1 .. Len(r.data)
        /\ r.gen = ReadGen(r.counter) /\ Accepts(window, r.counter)
        /\ wire' = Tail(wire)
        /\ window' = Add(window, r.counter)
        /\ got' = got \o UpTo(r.data, n)
        /\ readPlainBuf' = Beyond(r.data, n)
        /\ UNCHANGED <<wvars, refused, broken, replays>>

ReadRefuses ==
    LET r == Head(wire)
    IN  /\ readPlainBuf = <<>> /\ wire # <<>>
        /\ \/ r.gen # ReadGen(r.counter) /\ refused' = refused \cup {"decrypt"}
           \/ /\ r.gen = ReadGen(r.counter) /\ ~Accepts(window, r.counter)
              /\ refused' = refused \cup {"counter"}
        /\ wire' = Tail(wire)
        /\ UNCHANGED <<wvars, window, readPlainBuf, got, broken, replays>>

(***************************************************************************)
(* The carrier.                                                            *)
(***************************************************************************)
CarrierFails(n) ==
    /\ ~broken /\ n \in 0 .. Len(wire)
    /\ broken' = TRUE
    /\ wire' = UpTo(wire, n)
    /\ UNCHANGED <<wvars, rvars, replays>>

Replay(i) ==
    /\ replays < MaxReplays /\ ~broken /\ i \in DOMAIN wire
    /\ wire' = Append(wire, wire[i])
    /\ replays' = replays + 1
    /\ UNCHANGED <<wvars, rvars, broken>>

WriterStep == SendRecord \/ SendFails \/ FinishWrite \/ FinishTimer \/ FinishClose

ReaderStep ==
    \/ \E n \in 1 .. MaxRecord : ReadBuffered(n) \/ ReadRecord(n)
    \/ ReadRefuses

Next ==
    \/ WriterStep \/ ReaderStep
    \/ \E sent \in {"none", "part", "all"} : SendTimesOut(sent)
    \/ \E n \in 1 .. MaxBytes : BeginWrite(n)
    \/ \E t \in Timer : TimerFires(t) \/ BeginTimer(t)
    \/ CallClose \/ BeginClose
    \/ \E n \in 0 .. Len(wire) : CarrierFails(n)
    \/ \E i \in DOMAIN wire : Replay(i)

Spec == Init /\ [][Next]_vars

(***************************************************************************)
(* Fairness: whoever holds writeMu runs on unless the carrier is full, a   *)
(* timer that is not stopped fires, and a goroutine that waits for writeMu *)
(* gets it in the end although others take it meanwhile (sync.Mutex does   *)
(* not starve its waiters).  Whether the other end reads is up to it.      *)
(***************************************************************************)
FairSpec ==
    /\ Spec
    /\ WF_vars(WriterStep)
    /\ \A t \in Timer : WF_vars(TimerFires(t)) /\ SF_vars(BeginTimer(t))
    /\ SF_vars(BeginClose)

ReadSpec == FairSpec /\ WF_vars(ReaderStep)
-----------------------------------------------------------------------------
\* Two different plaintexts are never sealed under one counter, and so never
\* under one key and nonce, even when a write fails and the bytes it left in
\* coalesceBuf are sealed again (cipher_stream.go:193-197).
NonceUsedOnce ==
    \A r, q \in sealed : r.counter = q.counter => r = q

\* The two ends change keys at the same record without telling each other: a
\* record fails to open only if a timeout has torn one, and is refused for its
\* counter only if it came twice (cipher_stream.go:199-215, 389-405, 437).  None is
\* empty or longer than the reader takes (189, 267, 312, 331, 385).
NothingRefusedInVain ==
    /\ \A r \in sealed : Len(r.data) \in 1 .. MaxRecord
    /\ "decrypt" \in refused => torn
    /\ "counter" \in refused => replays > 0

\* Bytes that wait in coalesceBuf always have a timer that will flush them, also
\* when the callback of an earlier timer has set the field to nil meanwhile.
\* Only a failed write leaves bytes behind without one.
BufferedHasTimer ==
    coalesceBuf # <<>> /\ holder = "none" /\ close # "done" =>
        \/ \E t \in Timer : timer[t] # "none"
        \/ broken \/ timedOut

Abstract == INSTANCE ReliableStream
                WITH written <- [i \in 1 .. next |-> i], read <- got, void <- timedOut

\* The stream is a ReliableStream: over coalescing, flushes by timers, records
\* read in pieces, duplicates and carrier failures the reader gets a prefix of
\* what was written.
IsReliableStream == Abstract!Spec

\* Every byte written arrives, whatever mixture of threshold, timer and Close
\* sends it, provided the other end reads and the carrier holds.
WrittenArrives ==
    \A n \in 1 .. MaxBytes :
        next >= n ~> Len(got) >= n \/ broken \/ timedOut

\* client.go:706, of closing both ends of a proxied stream: "immediately close
\* both sides, to force the io.Copy of the other direction to stop" (translated).
\* So a Write in progress ends once Close has been called.
CloseInterruptsWrite ==
    close = "called" /\ holder = "write" ~> holder # "write"
=============================================================================
