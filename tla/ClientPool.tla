----------------------------- MODULE ClientPool -----------------------------
(***************************************************************************)
(* The client's channel pool (ECHPool, internal/app/client.go): one        *)
(* goroutine per slot runs dialAndServe, a prober measures the round trip  *)
(* of the slot's session, cover traffic probes a session until it sees it  *)
(* closed, and listeners open streams on the best slot.  The slots are     *)
(* shared under wsConnsMu; what is read there is used after the unlock.    *)
(*                                                                         *)
(* Sessions are numbered as they are made; the keys of session n are       *)
(* called n, and 0 stands for no session and for zeroed keys.  Which       *)
(* address is dialled is the business of EndpointPool.                     *)
(***************************************************************************)
EXTENDS Integers, FiniteSets

CONSTANTS Slot,      \* indices of the pool
          Opener,    \* goroutines that open streams
          MaxSess,   \* bound: sessions that are established
          Retries,   \* attempts of dialWebSocketWithECH: 3
          NoSlot     \* nobody holds refreshMu

ASSUME PoolAssumption == MaxSess \in Nat /\ Retries \in Nat \ {0} /\ NoSlot \notin Slot

Sess == 1 .. MaxSess

VARIABLES
    ctxDone,    \* the context of Start is done
    pc,         \* where dialAndServe is
    try,        \* its attempt within dialWebSocketWithECH
    mine,       \* its session
    slot,       \* transportSessions, channelKeys and channelRTT at its index; `of' is
                \* the session the RTT was measured on
    prober,     \* its probeChannelRTT
    cover,      \* for each session, its runCoverTraffic
    made,       \* number of sessions established
    live,       \* sessions that are not closed
    refreshMu,  \* the slot whose goroutine holds refreshMu
    opener,     \* openBestStream of each caller
    mixed       \* streams opened on one session with the keys of another

dialVars == <<ctxDone, try, refreshMu>>
probeVars == <<prober, cover>>
poolVars == <<dialVars, probeVars, pc, mine, slot, made, live, opener, mixed>>

Empty == [sess |-> 0, keys |-> 0, rtt |-> "none", of |-> 0]
Off == [at |-> "off", sess |-> 0, keys |-> 0]
Idle(n) == [at |-> "idle", sess |-> n, keys |-> 0]
NoCover == [at |-> "off", home |-> NoSlot, keys |-> 0]

\* NewECHPool and Start.
PoolInit ==
    /\ ctxDone = FALSE
    /\ pc = [s \in Slot |-> "top"] /\ try = [s \in Slot |-> 0] /\ mine = [s \in Slot |-> 0]
    /\ slot = [s \in Slot |-> Empty]
    /\ prober = [s \in Slot |-> Off] /\ cover = [n \in Sess |-> NoCover]
    /\ made = 0 /\ live = {} /\ refreshMu = NoSlot
    /\ opener = [o \in Opener |-> Off] /\ mixed = {}

Goto(s, at) == pc' = [pc EXCEPT ![s] = at]

(***************************************************************************)
(* Dialling.                                                               *)
(***************************************************************************)
\* The top of the loop, and the sleep before a reconnect.
DialTop(s) ==
    /\ pc[s] \in {"top", "sleep"}
    /\ Goto(s, IF ctxDone THEN "returned" ELSE IF pc[s] = "sleep" THEN "top" ELSE "dial")
    /\ try' = [try EXCEPT ![s] = IF pc'[s] = "dial" THEN 1 ELSE 0]
    /\ UNCHANGED <<ctxDone, refreshMu, probeVars, mine, slot, made, live, opener, mixed>>

DialOK(s) ==
    /\ pc[s] = "dial" /\ made < MaxSess
    /\ made' = made + 1
    /\ live' = live \cup {made'}
    /\ mine' = [mine EXCEPT ![s] = made']
    /\ Goto(s, "negotiate")
    /\ try' = [try EXCEPT ![s] = 0]
    /\ UNCHANGED <<ctxDone, refreshMu, probeVars, slot, opener, mixed>>

\* The dial fails for good, or, in dialWebSocketWithECH, with an error of ECH that is
\* not the last attempt's: then refreshECH is called and the dial repeated.
DialFail(s) ==
    /\ pc[s] = "dial"
    /\ Goto(s, "sleep") \/ (try[s] < Retries /\ Goto(s, "lock"))
    /\ try' = [try EXCEPT ![s] = IF pc'[s] = "sleep" THEN 0 ELSE @]
    /\ UNCHANGED <<ctxDone, refreshMu, probeVars, mine, slot, made, live, opener, mixed>>

\* refreshECH keeps refreshMu until the DNS lookup succeeds, cancelled or not:
\* a lookup that fails is repeated, which is a stutter here.
LockRefresh(s) ==
    /\ pc[s] = "lock" /\ refreshMu = NoSlot
    /\ refreshMu' = s
    /\ Goto(s, "refresh")
    /\ UNCHANGED <<ctxDone, try, probeVars, mine, slot, made, live, opener, mixed>>

RefreshECH(s) ==
    /\ pc[s] = "refresh"
    /\ refreshMu' = NoSlot
    /\ try' = [try EXCEPT ![s] = @ + 1]
    /\ Goto(s, "dial")
    /\ UNCHANGED <<ctxDone, probeVars, mine, slot, made, live, opener, mixed>>

\* negotiateClientProtocol.  A success is published in one critical section; the
\* session may have been lost meanwhile.
NegotiateOK(s) ==
    /\ pc[s] = "negotiate"
    /\ slot' = [slot EXCEPT ![s] = [Empty EXCEPT !.sess = mine[s], !.keys = mine[s]]]
    /\ Goto(s, "first")
    /\ UNCHANGED <<dialVars, probeVars, mine, made, live, opener, mixed>>

NegotiateFail(s) ==
    /\ pc[s] = "negotiate"
    /\ live' = live \ {mine[s]}
    /\ mine' = [mine EXCEPT ![s] = 0]
    /\ Goto(s, "sleep")
    /\ UNCHANGED <<dialVars, probeVars, slot, made, opener, mixed>>

(***************************************************************************)
(* Probes.  probeChannelRTTOnce reads the keys of the slot and then opens  *)
(* a stream on the session it was given.                                   *)
(***************************************************************************)
Opened(n, keys) == mixed' = IF keys = n THEN mixed ELSE mixed \cup {<<n, keys>>}

\* The first probe, by dialAndServe itself, ends well or not.  Then the prober
\* and, if it is configured, the cover traffic start.
FirstProbe(s) ==
    /\ pc[s] = "first"
    /\ \/ /\ mine[s] \in live
          /\ Opened(mine[s], slot[s].keys)
          /\ slot' = [slot EXCEPT ![s].rtt = "fast", ![s].of = mine[s]]
       \/ UNCHANGED <<slot, mixed>>
    /\ prober' = [prober EXCEPT ![s] = Idle(mine[s])]
    /\ cover' = [cover EXCEPT ![mine[s]] = [at |-> "idle", home |-> s, keys |-> 0]]
    /\ Goto(s, "serve")
    /\ UNCHANGED <<dialVars, mine, made, live, opener>>

ProbeKeys(s) ==
    /\ prober[s].at = "idle"
    /\ prober' = [prober EXCEPT ![s].at = "keyed", ![s].keys = slot[s].keys]
    /\ UNCHANGED <<dialVars, pc, mine, slot, cover, made, live, opener, mixed>>

\* A failed probe stores the timeout as RTT and, when the session is closed, is
\* the last.
ProbeResult(s) ==
    LET n == prober[s].sess IN
    /\ prober[s].at = "keyed"
    /\ \/ /\ n \in live
          /\ Opened(n, prober[s].keys)
          /\ slot' = [slot EXCEPT ![s].rtt = "fast", ![s].of = n]
          /\ prober' = [prober EXCEPT ![s] = Idle(n)]
       \/ /\ slot' = [slot EXCEPT ![s].rtt = "slow", ![s].of = n]
          /\ prober' = [prober EXCEPT ![s] = IF n \in live THEN Idle(n)
                                             ELSE [Off EXCEPT !.at = "done"]]
          /\ UNCHANGED mixed
    /\ UNCHANGED <<dialVars, pc, mine, cover, made, live, opener>>

\* runCoverTraffic of session n, at a tick: leave when the session is closed,
\* else probe.  It reads the keys of the slot, whatever session is there by then.
CoverTick(n) ==
    /\ cover[n].at = "idle"
    /\ cover' = [cover EXCEPT ![n] = IF ctxDone \/ n \notin live THEN NoCover
                                     ELSE [@ EXCEPT !.at = "checked"]]
    /\ UNCHANGED <<dialVars, pc, mine, slot, prober, made, live, opener, mixed>>

CoverKeys(n) ==
    /\ cover[n].at = "checked"
    /\ cover' = [cover EXCEPT ![n].at = "keyed", ![n].keys = slot[cover[n].home].keys]
    /\ UNCHANGED <<dialVars, pc, mine, slot, prober, made, live, opener, mixed>>

CoverProbe(n) ==
    /\ cover[n].at = "keyed"
    /\ cover' = [cover EXCEPT ![n].at = "idle", ![n].keys = 0]
    /\ IF n \in live THEN Opened(n, cover[n].keys) ELSE UNCHANGED mixed
    /\ UNCHANGED <<dialVars, pc, mine, slot, prober, made, live, opener>>

(***************************************************************************)
(* Serving, and the end of a session.                                      *)
(***************************************************************************)
\* Mutant: the loop goes on as soon as the session is closed.
ServeEndsEarly(s) ==
    /\ pc[s] = "serve"
    /\ \/ mine[s] \notin live /\ Goto(s, "close") /\ UNCHANGED live
       \/ ctxDone /\ Goto(s, "drain") /\ live' = live \ {mine[s]}
    /\ UNCHANGED <<dialVars, probeVars, mine, slot, made, opener, mixed>>

\* Mutant: after the context is done the session is left open.
ServeKeepsOpen(s) ==
    /\ pc[s] = "serve"
    /\ \/ prober[s].at = "done" /\ Goto(s, "close")
       \/ ctxDone /\ Goto(s, "drain")
    /\ UNCHANGED <<dialVars, probeVars, mine, slot, made, live, opener, mixed>>

\* Wait for the prober to report, or for the context; in the second case close
\* the session, so that the prober ends.
Serve(s) ==
    /\ pc[s] = "serve"
    /\ \/ prober[s].at = "done" /\ Goto(s, "close") /\ UNCHANGED live
       \/ ctxDone /\ Goto(s, "drain") /\ live' = live \ {mine[s]}
    /\ UNCHANGED <<dialVars, probeVars, mine, slot, made, opener, mixed>>

Drain(s) ==
    /\ pc[s] = "drain" /\ prober[s].at = "done"
    /\ Goto(s, "close")
    /\ UNCHANGED <<dialVars, probeVars, mine, slot, made, live, opener, mixed>>

CloseSession(s) ==
    /\ pc[s] = "close"
    /\ live' = live \ {mine[s]}
    /\ Goto(s, "clear")
    /\ UNCHANGED <<dialVars, probeVars, mine, slot, made, opener, mixed>>

ClearSlot(s) ==
    /\ pc[s] = "clear"
    /\ slot' = [slot EXCEPT ![s] = Empty]
    /\ mine' = [mine EXCEPT ![s] = 0]
    /\ Goto(s, IF ctxDone THEN "returned" ELSE "sleep")
    /\ UNCHANGED <<dialVars, probeVars, made, live, opener, mixed>>

(***************************************************************************)
(* openBestStream.                                                         *)
(***************************************************************************)
Candidates == {s \in Slot : slot[s].sess \in live}

\* The candidates within the tie window of the best; which one is taken is
\* selectCounter's choice.  No measurement counts as the timeout.
Near ==
    LET fast == {s \in Candidates : slot[s].rtt = "fast"} IN
    IF fast # {} THEN fast ELSE Candidates

\* Mutant: the keys are those of the best candidate, not of the one that is picked.
PickChannelBestKeys(o) ==
    /\ opener[o].at = "off"
    /\ \E s, best \in Near :
           opener' = [opener EXCEPT ![o] = [at |-> "picked", sess |-> slot[s].sess,
                                            keys |-> slot[best].keys]]
    /\ UNCHANGED <<dialVars, probeVars, pc, mine, slot, made, live, mixed>>

\* Session, keys and cipher are read under one lock.
PickChannel(o) ==
    /\ opener[o].at = "off"
    /\ \E s \in Near :
           opener' = [opener EXCEPT ![o] = [at |-> "picked", sess |-> slot[s].sess,
                                            keys |-> slot[s].keys]]
    /\ UNCHANGED <<dialVars, probeVars, pc, mine, slot, made, live, mixed>>

\* After the unlock: the stream opens if the session is still alive.
OpenOnChannel(o) ==
    /\ opener[o].at = "picked"
    /\ opener' = [opener EXCEPT ![o] = Off]
    /\ IF opener[o].sess \in live
       THEN Opened(opener[o].sess, opener[o].keys)
       ELSE UNCHANGED mixed
    /\ UNCHANGED <<dialVars, probeVars, pc, mine, slot, made, live>>

(***************************************************************************)
(* The world: sessions are lost, the engine is closed.                     *)
(***************************************************************************)
SessionLost(n) ==
    /\ n \in live
    /\ live' = live \ {n}
    /\ UNCHANGED <<dialVars, probeVars, pc, mine, slot, made, opener, mixed>>

CancelPool ==
    /\ ~ctxDone
    /\ ctxDone' = TRUE
    /\ UNCHANGED <<try, refreshMu, probeVars, pc, mine, slot, made, live, opener, mixed>>

SlotStep(s) ==
    \/ DialTop(s) \/ DialOK(s) \/ DialFail(s) \/ LockRefresh(s)
    \/ NegotiateOK(s) \/ NegotiateFail(s) \/ FirstProbe(s)
    \/ Serve(s) \/ Drain(s) \/ CloseSession(s) \/ ClearSlot(s)

ProberStep(s) == ProbeKeys(s) \/ ProbeResult(s)

PoolNext ==
    \/ \E s \in Slot : SlotStep(s) \/ RefreshECH(s) \/ ProberStep(s)
    \/ \E n \in Sess : CoverTick(n) \/ CoverKeys(n) \/ CoverProbe(n) \/ SessionLost(n)
    \/ \E o \in Opener : PickChannel(o) \/ OpenOnChannel(o)
    \/ CancelPool

PoolSpec == PoolInit /\ [][PoolNext]_poolVars

(***************************************************************************)
(* Properties.                                                             *)
(***************************************************************************)
Phase == {"top", "dial", "lock", "refresh", "negotiate", "first", "serve", "drain", "close", "clear",
          "sleep", "returned"}
SlotState == [sess : 0 .. MaxSess, keys : 0 .. MaxSess, rtt : {"none", "fast", "slow"}, of : 0 .. MaxSess]
ProberState == [at : {"off", "idle", "keyed", "done"}, sess : 0 .. MaxSess, keys : 0 .. MaxSess]
CoverState == [at : {"off", "idle", "checked", "keyed"}, home : Slot \cup {NoSlot}, keys : 0 .. MaxSess]
OpenerState == [at : {"off", "picked"}, sess : 0 .. MaxSess, keys : 0 .. MaxSess]

PoolTypeOK ==
    /\ ctxDone \in BOOLEAN
    /\ pc \in [Slot -> Phase]
    /\ try \in [Slot -> 0 .. Retries] /\ mine \in [Slot -> 0 .. MaxSess]
    /\ slot \in [Slot -> SlotState]
    /\ prober \in [Slot -> ProberState]
    /\ cover \in [Sess -> CoverState]
    /\ made \in 0 .. MaxSess /\ live \subseteq Sess
    /\ refreshMu \in Slot \cup {NoSlot}
    /\ opener \in [Opener -> OpenerState]
    /\ mixed \subseteq Sess \X (0 .. MaxSess)

(***************************************************************************)
(* No stream is ever opened on a session with the keys of another, though  *)
(* openBestStream uses its choice after the unlock, and the probes read    *)
(* the keys by index, apart from their session, while the slot is cleared  *)
(* and filled again: keys change only after the session that had them is   *)
(* closed, when no stream can be opened on it.                             *)
(***************************************************************************)
StreamKeysMatch == mixed = {}

(***************************************************************************)
(* The RTT that openBestStream compares was measured on the session that   *)
(* is in the slot, never on the one that was there before: dialAndServe    *)
(* waits for the prober of a session before it gives the slot away.        *)
(***************************************************************************)
RttOfCurrentSession == \A s \in Slot : slot[s].rtt # "none" => slot[s].of = slot[s].sess

(***************************************************************************)
(* Once the context is done every dial goroutine returns, which is what    *)
(* WaitDone waits for, or is held up in refreshECH by a DNS server that    *)
(* does not answer.                                                        *)
(***************************************************************************)
DialersReturn == ctxDone ~> \A s \in Slot : pc[s] \in {"returned", "lock", "refresh"}
=============================================================================
