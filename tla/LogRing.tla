------------------------------- MODULE LogRing ------------------------------
(***************************************************************************)
(* The log ring (internal/app/logring.go) and the requests of the control  *)
(* API that follow it (handleLogsStream, internal/app/control.go): every   *)
(* second a follower is sent what is newer than its cursor, while the log  *)
(* goes on and the ring wraps over entries that nobody has read.           *)
(*                                                                         *)
(* An entry is its ID.                                                     *)
(***************************************************************************)
EXTENDS Integers, Sequences, Functions, Picking

CONSTANTS RingSize,   \* entries of the ring
          MaxSeq      \* bound: entries that are logged

ASSUME RingAssumption == RingSize \in Nat \ {0} /\ MaxSeq \in Nat

VARIABLES
    ring,      \* LogRing.entries, from index 0; 0 is an entry never written
    nextIdx,   \* LogRing.next
    ringFull,  \* LogRing.full
    seq,       \* LogRing.seq
    limit,     \* of a follower: how many entries it wants at once
    cursor,    \* the last ID it has been sent
    since,     \* its cursor before the last call of EntriesSince
    batch,     \* what that call returned
    upTo       \* seq at that call

ringVars == <<ring, nextIdx, ringFull, seq>>
followVars == <<limit, cursor, since, batch, upTo>>
logVars == <<ringVars, followVars>>

\* A follower may ask for what comes after any ID it has once been given, also by
\* a process that has since been started again.
LogInit ==
    /\ ring = [i \in 0 .. RingSize - 1 |-> 0] /\ nextIdx = 0 /\ ringFull = FALSE /\ seq = 0
    /\ limit \in 1 .. RingSize + 1
    /\ cursor \in 0 .. MaxSeq /\ since = cursor /\ batch = <<>> /\ upTo = 0

\* Mutant: the index does not wrap.
AddNoWrap ==
    /\ seq < MaxSeq
    /\ seq' = seq + 1
    /\ ring' = [ring EXCEPT ![nextIdx] = seq']
    /\ nextIdx' = nextIdx + 1
    /\ ringFull' = (ringFull \/ nextIdx' = RingSize)
    /\ UNCHANGED followVars

\* Add, for every line that is not blank.
Add ==
    /\ seq < MaxSeq
    /\ seq' = seq + 1
    /\ ring' = [ring EXCEPT ![nextIdx] = seq']
    /\ nextIdx' = (nextIdx + 1) % RingSize
    /\ ringFull' = (ringFull \/ nextIdx' = 0)
    /\ UNCHANGED followVars

\* Mutant: a full ring is read from its first index.
EntriesUnrotated ==
    LET count == IF ringFull THEN RingSize ELSE nextIdx
    IN [i \in 1 .. count |-> ring[(i - 1) % RingSize]]

\* The entries from the oldest to the newest.
Entries ==
    LET count == IF ringFull THEN RingSize ELSE nextIdx
        start == IF ringFull THEN nextIdx ELSE 0
    IN [i \in 1 .. count |-> ring[(start + i - 1) % RingSize]]

LastOf(s, n) == IF Len(s) > n THEN SubSeq(s, Len(s) - n + 1, Len(s)) ELSE s

\* EntriesSince: the newest of those after the cursor.
EntriesSince(after) == LastOf(Picked(Entries, {i \in DOMAIN Entries : Entries[i] > after}), limit)

\* sendEntries, at once and at every tick.  The entries are copied under the lock
\* and written afterwards, which moves the cursor entry by entry.
SendEntries ==
    /\ batch' = EntriesSince(cursor)
    /\ since' = cursor /\ upTo' = seq
    /\ cursor' = IF batch' = <<>> THEN cursor ELSE batch'[Len(batch')]
    /\ UNCHANGED <<ringVars, limit>>

LogNext == Add \/ SendEntries

LogSpec == LogInit /\ [][LogNext]_logVars

LogTypeOK ==
    /\ ring \in [0 .. RingSize - 1 -> 0 .. MaxSeq] /\ nextIdx \in 0 .. RingSize - 1
    /\ ringFull \in BOOLEAN /\ limit \in 1 .. RingSize + 1
    /\ {seq, cursor, since, upTo} \subseteq 0 .. MaxSeq
    /\ Range(batch) \subseteq 1 .. seq

(***************************************************************************)
(* However far the ring has moved on between two ticks, a follower is sent *)
(* an unbroken run of IDs that ends with the newest entry, and it begins   *)
(* right after the follower's cursor unless ring or limit cut the oldest   *)
(* off: nothing is repeated, reordered or left out in the middle.  With a  *)
(* cursor beyond the newest ID there is nothing to send.                   *)
(***************************************************************************)
TailUnbroken ==
    LET first == CHOOSE f \in {since, upTo - RingSize, upTo - limit} :
                     \A g \in {since, upTo - RingSize, upTo - limit} : g <= f
    IN batch = [i \in 1 .. (IF upTo > first THEN upTo - first ELSE 0) |-> first + i]
=============================================================================
