------------------------------ MODULE DNSCache ------------------------------
(***************************************************************************)
(* The resolver cache of one host (dnsCache, internal/app/dnscache.go).    *)
(* The first caller that misses becomes the leader of a new entry and      *)
(* looks the host up without the lock; callers that come meanwhile wait    *)
(* for it.  MarkGood and NextCandidate may put another entry in its place  *)
(* while the leader is still busy.                                         *)
(*                                                                         *)
(* Entries are numbered as they are made and never freed: 0 is no entry.   *)
(* Addresses are left out, except whether there is a known good one.       *)
(***************************************************************************)
EXTENDS Integers, FiniteSets

CONSTANTS Caller,     \* goroutines that call Resolve
          TTL,        \* cfg.DNSCacheTTL, in ticks; positive
          MaxEntries  \* bound: entries that are made

ASSUME DNSAssumption == TTL \in Nat \ {0} /\ MaxEntries \in Nat

Entry == 1 .. MaxEntries

VARIABLES
    entry,    \* the entry in the map
    objects,  \* number of entries made
    ttl,      \* time until each entry expires
    good,     \* entries with a goodIP
    pending,  \* entries whose leader is still looking up
    resolver  \* each caller: at, and the entry it leads or waits for

dnsVars == <<entry, objects, ttl, good, pending, resolver>>

DNSInit ==
    /\ entry = 0 /\ objects = 0
    /\ ttl = [e \in Entry |-> 0] /\ good = {} /\ pending = {}
    /\ resolver = [c \in Caller |-> [at |-> "idle", of |-> 0]]

Valid == entry # 0 /\ ttl[entry] > 0
Resolver(c, at, e) == resolver' = [resolver EXCEPT ![c] = [at |-> at, of |-> e]]

\* A new entry takes the place of the old one.
NewEntry ==
    /\ objects < MaxEntries
    /\ objects' = objects + 1
    /\ entry' = objects'

\* Mutant: an entry that is not pending is replaced though it has not expired.
ResolveAlways(c) ==
    /\ resolver[c].at \in {"idle", "retry"}
    /\ \/ entry # 0 /\ entry \in pending /\ Resolver(c, "wait", entry)
          /\ UNCHANGED <<entry, objects, ttl, good, pending>>
       \/ ~(entry # 0 /\ entry \in pending) /\ NewEntry
          /\ pending' = pending \cup {entry'}
          /\ Resolver(c, "lead", entry')
          /\ UNCHANGED <<ttl, good>>

\* Resolve up to the unlock: a hit, a wait, or the lead.  An entry that is
\* pending has no expiry yet, which counts as expired.
Resolve(c) ==
    /\ resolver[c].at \in {"idle", "retry"}
    /\ \/ Valid /\ Resolver(c, "idle", 0) /\ UNCHANGED <<entry, objects, ttl, good, pending>>
       \/ ~Valid /\ entry \in pending /\ Resolver(c, "wait", entry)
          /\ UNCHANGED <<entry, objects, ttl, good, pending>>
       \/ ~Valid /\ entry \notin pending /\ NewEntry
          /\ pending' = pending \cup {entry'}
          /\ Resolver(c, "lead", entry')
          /\ UNCHANGED <<ttl, good>>

\* The leader answers the callers in w: with addresses, or with nil, upon which
\* they call Resolve again.
Answer(c, w, at) ==
    resolver' = [d \in Caller |-> IF d = c THEN [at |-> "idle", of |-> 0]
                                  ELSE IF d \in w THEN [at |-> at, of |-> 0] ELSE resolver[d]]

Waiters(e) == {d \in Caller : resolver[d] = [at |-> "wait", of |-> e]}

LookupOK(c) ==
    /\ resolver[c].at = "lead"
    /\ pending' = pending \ {resolver[c].of}
    /\ ttl' = [ttl EXCEPT ![resolver[c].of] = TTL]
    /\ Answer(c, Waiters(resolver[c].of), "idle")
    /\ UNCHANGED <<entry, objects, good>>

\* Mutant: the waiters are taken from the entry in the map.
LookupFailsOfMap(c) ==
    /\ resolver[c].at = "lead"
    /\ pending' = pending \ {resolver[c].of}
    /\ entry' = 0
    /\ Answer(c, Waiters(entry), "retry")
    /\ UNCHANGED <<objects, ttl, good>>

\* The host is deleted from the map, whichever entry it has by now.
LookupFails(c) ==
    /\ resolver[c].at = "lead"
    /\ pending' = pending \ {resolver[c].of}
    /\ entry' = 0
    /\ Answer(c, Waiters(resolver[c].of), "retry")
    /\ UNCHANGED <<objects, ttl, good>>

\* waitForResolve: the context of the caller is done.
GiveUp(c) ==
    /\ resolver[c].at = "wait"
    /\ Resolver(c, "idle", 0)
    /\ UNCHANGED <<entry, objects, ttl, good, pending>>

\* A dialler has negotiated with an address.
MarkGood ==
    /\ IF Valid THEN UNCHANGED <<entry, objects, ttl>>
       ELSE NewEntry /\ ttl' = [ttl EXCEPT ![entry'] = TTL]
    /\ good' = good \cup {entry'}
    /\ UNCHANGED <<pending, resolver>>

ClearGood ==
    /\ good' = good \ {entry}
    /\ UNCHANGED <<entry, objects, ttl, pending, resolver>>

\* The candidate itself is left out; a valid entry always has addresses.
NextCandidate ==
    /\ ~Valid
    /\ NewEntry
    /\ ttl' = [ttl EXCEPT ![entry'] = TTL]
    /\ UNCHANGED <<good, pending, resolver>>

DNSTick ==
    /\ \E e \in Entry : ttl[e] > 0
    /\ ttl' = [e \in Entry |-> IF ttl[e] > 0 THEN ttl[e] - 1 ELSE 0]
    /\ UNCHANGED <<entry, objects, good, pending, resolver>>

DNSNext ==
    \/ \E c \in Caller : Resolve(c) \/ LookupOK(c) \/ LookupFails(c) \/ GiveUp(c)
    \/ MarkGood \/ ClearGood \/ NextCandidate \/ DNSTick

DNSSpec == DNSInit /\ [][DNSNext]_dnsVars

DNSTypeOK ==
    /\ objects \in 0 .. MaxEntries /\ entry \in 0 .. objects
    /\ ttl \in [Entry -> 0 .. TTL] /\ good \subseteq 1 .. objects /\ pending \subseteq 1 .. objects
    /\ resolver \in [Caller -> [at : {"idle", "retry", "lead", "wait"}, of : Entry \cup {0}]]

\* GoodIP finds an address.
GoodVisible == Valid /\ entry \in good

(***************************************************************************)
(* An address that MarkGood has recorded stays visible until it expires or *)
(* ClearGood takes it back, with one exception: a leader that was          *)
(* overtaken, whose own lookup fails, deletes whatever the map holds.  No  *)
(* successful lookup, no new leader and no NextCandidate hides it.         *)
(***************************************************************************)
GoodStays ==
    [][GoodVisible /\ ~GoodVisible' =>
          \/ entry' = entry /\ (ttl'[entry] = 0 \/ entry \notin good')
          \/ entry' = 0 /\ \E c \in Caller : /\ resolver[c].at = "lead" /\ resolver[c].of # entry
                                             /\ resolver'[c].at = "idle"]_dnsVars

(***************************************************************************)
(* Nobody waits for ever: the leader answers the callers of its own entry, *)
(* also when that entry is no longer in the map, and also when it fails.   *)
(***************************************************************************)
WaitersAnswered == \A c \in Caller : resolver[c].at = "wait" ~> resolver[c].at # "wait"
=============================================================================
