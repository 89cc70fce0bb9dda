---------------------------- MODULE MCHandshake ----------------------------
(***************************************************************************)
(* Small instances of Handshake: three connections, two frames, clocks that*)
(* agree or differ by a tick.                                              *)
(***************************************************************************)
EXTENDS Handshake, TLC

CONSTANTS a, b, h1, h2, h3

ClientValue == {a, b}
HandlerValue == {h1, h2, h3}

Symmetry == Permutations(ClientValue) \cup Permutations(HandlerValue)
=============================================================================
