------------------------------ MODULE Datagram ------------------------------
(***************************************************************************)
(* UDP over QUIC datagrams: FragmentDatagram and the DatagramReassembler   *)
(* (internal/transport/datagram.go) with the network between them, and the *)
(* relay of one association on the server (handleQuicDatagrams,            *)
(* internal/app/server.go).                                                *)
(*                                                                         *)
(* A packet is a sequence of units, as many as fit into a fragment each;   *)
(* unit i of packet p is <<p, i>>.  The network loses, repeats and         *)
(* reorders fragments: what was sent may arrive at any later time, any     *)
(* number of times.  Packet identifiers are used again after PktIDs        *)
(* packets (uint16 in the code).                                           *)
(***************************************************************************)
EXTENDS Integers, Sequences, FiniteSets, Picking

CONSTANTS Length,     \* units of each packet, a sequence
          PktIDs,     \* number of packet identifiers: 2^16
          MaxFrags,   \* fragments of a packet: 255
          FragTTL,    \* ttl of an entry, in ticks
          MaxQueued   \* maxQueued: 1024

ASSUME DatagramAssumption ==
    /\ Length \in Seq(Nat \ {0}) /\ PktIDs \in Nat \ {0} /\ MaxFrags \in Nat \ {0}
    /\ FragTTL \in Nat /\ MaxQueued \in Nat \ {0}

Packet == 1 .. Len(Length)
PktID(p) == p % PktIDs

\* FragmentDatagram: more than MaxFrags fragments are not made, and the rest of the
\* packet is left out.
FragTotal(p) == IF Length[p] > MaxFrags THEN MaxFrags ELSE Length[p]

Fragment(p) ==
    {[id |-> PktID(p), frag |-> i, total |-> FragTotal(p), payload |-> <<p, i + 1>>] :
        i \in 0 .. FragTotal(p) - 1}

VARIABLES
    sentPkts,   \* packets sent so far
    network,    \* fragments that may arrive
    entries,    \* the reassembler: from identifiers to entries
    delivered,  \* the units of the packet that was last handed to the relay
    session,    \* the QUIC session is alive
    receiver,   \* handleQuicDatagrams: "loop" or "returned"
    relay,      \* "none", "open" or "closed"
    replies     \* the goroutine that reads the relay's replies

datagramVars == <<sentPkts, network, entries, delivered, session, receiver, relay, replies>>

NoEntry == [total |-> 0, age |-> 0, fragments |-> <<>>]

DatagramInit ==
    /\ sentPkts = 0 /\ network = {} /\ delivered = <<>>
    /\ entries = [k \in 0 .. PktIDs - 1 |-> NoEntry]
    /\ session = TRUE /\ receiver = "loop" /\ relay = "none" /\ replies = FALSE

SendPacket ==
    /\ sentPkts < Len(Length)
    /\ sentPkts' = sentPkts + 1
    /\ network' = network \cup Fragment(sentPkts')
    /\ UNCHANGED <<entries, delivered, session, receiver, relay, replies>>

(***************************************************************************)
(* Add.                                                                    *)
(***************************************************************************)
Cleaned == [k \in DOMAIN entries |-> IF entries[k].age > FragTTL THEN NoEntry ELSE entries[k]]
Live(es) == {k \in DOMAIN es : es[k].total # 0}

\* The entry of f's packet with f in it; its total is that of the first fragment.
WithFragment(e, f) ==
    [total |-> IF e.total = 0 THEN f.total ELSE e.total,
     age |-> e.age,
     fragments |-> [i \in DOMAIN e.fragments \cup {f.frag} |->
                       IF i = f.frag THEN f.payload ELSE e.fragments[i]]]

\* Mutant: complete when the last fragment is there.
CompleteAtLast(e) == e.total - 1 \in DOMAIN e.fragments

Complete(e) == Cardinality(DOMAIN e.fragments) = e.total

\* The units of fragments 0 to total - 1, where they are there.
Combined(e) ==
    LET there == {i \in 1 .. e.total : i - 1 \in DOMAIN e.fragments}
    IN  Picked([i \in 1 .. e.total |-> IF i \in there THEN e.fragments[i - 1] ELSE <<>>], there)

\* The relay is opened by the first packet and stays; it may fail to be opened, and
\* then the packet is dropped.
HandOver(units) ==
    \/ /\ delivered' = units
       /\ relay' = "open"
       /\ replies' = (replies \/ relay = "none")
    \/ relay = "none" /\ UNCHANGED <<delivered, relay, replies>>

\* A fragment arrives: it is refused by a full queue, stored, or completes a packet.
ReceiveFragment(f) ==
    /\ receiver = "loop" /\ session /\ f \in network
    /\ IF f.total <= 1 THEN HandOver(<<f.payload>>) /\ UNCHANGED entries
       ELSE LET es == Cleaned
                e == WithFragment(es[f.id], f) IN
            IF es[f.id].total = 0 /\ Cardinality(Live(es)) >= MaxQueued
            THEN entries' = es /\ UNCHANGED <<delivered, relay, replies>>
            ELSE IF Complete(e)
            THEN entries' = [es EXCEPT ![f.id] = NoEntry] /\ HandOver(Combined(e))
            ELSE entries' = [es EXCEPT ![f.id] = e] /\ UNCHANGED <<delivered, relay, replies>>
    /\ UNCHANGED <<sentPkts, network, session, receiver>>

DatagramTick ==
    /\ \E k \in Live(entries) : entries[k].age <= FragTTL
    /\ entries' = [k \in DOMAIN entries |->
                      IF k \in Live(entries) /\ entries[k].age <= FragTTL
                      THEN [entries[k] EXCEPT !.age = @ + 1] ELSE entries[k]]
    /\ UNCHANGED <<sentPkts, network, delivered, session, receiver, relay, replies>>

(***************************************************************************)
(* The end of the session, and of the goroutines.                          *)
(***************************************************************************)
SessionDies ==
    /\ session
    /\ session' = FALSE
    /\ UNCHANGED <<sentPkts, network, entries, delivered, receiver, relay, replies>>

ReceiverReturns ==
    /\ receiver = "loop" /\ ~session
    /\ receiver' = "returned"
    /\ relay' = IF relay = "open" THEN "closed" ELSE relay
    /\ UNCHANGED <<sentPkts, network, entries, delivered, session, replies>>

\* No reply within UDPReadTimeout: the reader ends, and the relay stays.
RepliesTimeOut ==
    /\ replies /\ relay = "open"
    /\ replies' = FALSE
    /\ UNCHANGED <<sentPkts, network, entries, delivered, session, receiver, relay>>

RepliesEnd ==
    /\ replies /\ relay = "closed"
    /\ replies' = FALSE
    /\ UNCHANGED <<sentPkts, network, entries, delivered, session, receiver, relay>>

DatagramNext ==
    \/ SendPacket \/ DatagramTick \/ SessionDies
    \/ \E f \in network : ReceiveFragment(f)
    \/ ReceiverReturns \/ RepliesTimeOut \/ RepliesEnd

DatagramSpec == DatagramInit /\ [][DatagramNext]_datagramVars

DatagramTypeOK ==
    /\ sentPkts \in 0 .. Len(Length) /\ network = UNION {Fragment(p) : p \in 1 .. sentPkts}
    /\ Cardinality(Live(entries)) <= MaxQueued
    /\ receiver \in {"loop", "returned"} /\ relay \in {"none", "open", "closed"}
    /\ session \in BOOLEAN /\ replies \in BOOLEAN

Units(p) == [i \in 1 .. FragTotal(p) |-> <<p, i>>]

(***************************************************************************)
(* Whatever the network does, a packet that is handed over was sent like   *)
(* that, in full, unless it was too long for MaxFrags fragments, when its  *)
(* end is missing, or another packet with the same identifier was sent:    *)
(* then late fragments of the one may be completed with fragments of the   *)
(* other, but not with those of a packet with another identifier.          *)
(***************************************************************************)
DeliveredIntact ==
    delivered # <<>> =>
        \/ \E p \in 1 .. sentPkts : delivered = Units(p)
        \/ \E p, q \in 1 .. sentPkts :
               /\ p # q /\ PktID(p) = PktID(q)
               /\ \A i \in DOMAIN delivered :
                      delivered[i][1] \in 1 .. sentPkts /\ PktID(delivered[i][1]) = PktID(p)
=============================================================================
