--------------------------- MODULE ReliableStream ---------------------------
(***************************************************************************)
(* What the two ends of a tunnel stream may expect of it, in one direction:*)
(* what is read is what was written, in order, without gaps or repetition, *)
(* and nothing else.  The promise ends for good when a write of the carrier*)
(* has timed out, after which the writer cannot know what was sent.        *)
(***************************************************************************)
EXTENDS Integers, Sequences

VARIABLES written,  \* the bytes handed to Write, in order
          read,     \* the bytes returned by Read, in order
          void      \* the promise is off

vars == <<written, read, void>>

Init == written = <<>> /\ read = <<>> /\ void = FALSE

Accept(n) ==
    /\ Len(written') = Len(written) + n
    /\ SubSeq(written', 1, Len(written)) = written
    /\ UNCHANGED <<read, void>>

Deliver(n) ==
    /\ Len(read) + n <= Len(written)
    /\ read' = SubSeq(written, 1, Len(read) + n)
    /\ UNCHANGED <<written, void>>

Void == void' = TRUE

Next ==
    \/ \E n \in 1 .. Len(written') - Len(written) : Accept(n)
    \/ \E n \in 1 .. Len(written) - Len(read) : Deliver(n)
    \/ Void

Spec == Init /\ [][Next]_vars
=============================================================================
