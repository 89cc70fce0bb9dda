-------------------------- MODULE MCServerSessions --------------------------
(***************************************************************************)
(* Small instances of ServerSessions.  Connections c1 and c2 are WebSocket,*)
(* c3 is QUIC.                                                             *)
(***************************************************************************)
EXTENDS ServerSessions, TLC

CONSTANTS c1, c2, c3, a, b, x, y

ConnValue == {c1, c2, c3}
TwoConns == {c1, c3}
QuicValue == {c3}
ClientValue == {a, b}
StreamValue == {x, y}

\* The connections of one transport, the clients and the streams are alike.
Symmetry ==
    Permutations({c1, c2}) \cup Permutations(ClientValue) \cup Permutations(StreamValue)
=============================================================================
