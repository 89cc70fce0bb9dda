------------------------------ MODULE Picking -------------------------------
(***************************************************************************)
(* The loop that goes through a slice and appends some of its elements to  *)
(* a new one.  SelectSeq would do for TLC; the recursion is written out    *)
(* because the proofs have to unfold it.                                   *)
(***************************************************************************)
EXTENDS Integers, Sequences

\* The elements of s at the indices in I, in the order of s.
Picked(s, I) ==
    LET out[i \in 0 .. Len(s)] ==
            IF i = 0 THEN <<>>
            ELSE IF i \in I THEN Append(out[i - 1], s[i])
            ELSE out[i - 1]
    IN  out[Len(s)]
=============================================================================
