---------------------------- MODULE ReplayWindow ----------------------------
(***************************************************************************)
(* replayWindow of internal/wire/cipher_stream.go: which record counters a *)
(* receiver has accepted, kept as the greatest one and a ring of Size bits.*)
(* Counter s has bit (s - 1) % Size.  The words of 64 bits the ring is     *)
(* stored in are left out.                                                 *)
(***************************************************************************)
EXTENDS Integers

CONSTANT Size           \* replayWindowSize

ASSUME SizeAssumption == Size \in Nat \ {0}

Slot(s) == (s - 1) % Size

EmptyWindow == [maxSeq |-> 0, bits |-> [i \in 0 .. Size - 1 |-> FALSE]]

\* The slots of the counters the window slides over when it moves on to s: all
\* of them once it moves by its size or more.
Passed(w, s) ==
    IF s - w.maxSeq >= Size THEN 0 .. Size - 1
                            ELSE {Slot(q) : q \in w.maxSeq + 1 .. s}

\* checkAndAdd returns TRUE.
Accepts(w, s) ==
    /\ s # 0
    /\ s > w.maxSeq \/ (w.maxSeq - s < Size /\ ~w.bits[Slot(s)])

\* The window after checkAndAdd(s) has returned TRUE.
Add(w, s) ==
    IF s > w.maxSeq
    THEN [maxSeq |-> s,
          bits   |-> [i \in 0 .. Size - 1 |->
                         IF i = Slot(s) THEN TRUE
                         ELSE w.bits[i] /\ i \notin Passed(w, s)]]
    ELSE [w EXCEPT !.bits[Slot(s)] = TRUE]
=============================================================================
