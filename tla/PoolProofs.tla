----------------------------- MODULE PoolProofs -----------------------------
(***************************************************************************)
(* Proofs about the connections of the client: its slots with their        *)
(* sessions, the endpoints it rotates through, and the streams and sockets *)
(* of a UDP association.  They hold for any set of slots, openers and      *)
(* targets, and any number of sessions, attempts, endpoints, thresholds,   *)
(* cooldowns, dial goroutines, streams and sockets.                        *)
(***************************************************************************)
EXTENDS ClientPool, EndpointPool, UDPAssociation, FiniteSetTheorems, TLAPS

(***************************************************************************)
(* ClientPool: a slot, the session in it and the keys of its streams.      *)
(***************************************************************************)
Published == {"first", "serve", "drain", "close", "clear"}

\* From NegotiateOK to ClearSlot a slot holds its goroutine's session with its own keys;
\* otherwise it is empty.
SlotShape ==
    \A s \in Slot :
        /\ IF pc[s] \in Published \cup {"negotiate"} THEN mine[s] \in 1 .. made ELSE mine[s] = 0
        /\ IF pc[s] \in Published
           THEN slot[s].sess = mine[s] /\ slot[s].keys = mine[s]
           ELSE slot[s] = Empty
        /\ pc[s] = "clear" => mine[s] \notin live

\* refreshECH is never called after the last attempt.
TryShape == \A s \in Slot : pc[s] \in {"lock", "refresh"} => try[s] < Retries

\* No two slots have the same session.
OwnSession == \A s, t \in Slot : mine[s] = mine[t] /\ mine[s] # 0 => s = t

\* A prober runs only while dialAndServe waits for it, and on its session.
ProberShape ==
    \A s \in Slot :
        prober[s].at \in {"idle", "keyed"} =>
            /\ pc[s] \in {"serve", "drain"} /\ prober[s].sess = mine[s]
            /\ prober[s].at = "keyed" => prober[s].keys = mine[s]

\* Cover traffic of a session that is alive finds the session in its slot.
CoverShape ==
    \A n \in Sess :
        cover[n].at # "off" =>
            /\ n <= made /\ cover[n].home \in Slot
            /\ n \in live => /\ mine[cover[n].home] = n
                             /\ pc[cover[n].home] \in {"serve", "drain", "close"}
                             /\ cover[n].at = "keyed" => cover[n].keys = n

OpenerShape == \A o \in Opener : opener[o].at = "picked" => opener[o].keys = opener[o].sess

PoolInv ==
    /\ PoolTypeOK
    /\ live \subseteq 1 .. made
    /\ SlotShape /\ TryShape /\ OwnSession /\ ProberShape /\ CoverShape /\ OpenerShape
    /\ StreamKeysMatch /\ RttOfCurrentSession

\* The values the constants and the fixed records may have.
LEMMA Constants ==
    /\ MaxSess \in Nat /\ 0 \in 0 .. MaxSess /\ 0 \notin Sess /\ Sess \subseteq 0 .. MaxSess
    /\ Empty \in SlotState /\ Off \in ProberState /\ Off \in OpenerState /\ NoCover \in CoverState
    /\ \A n \in 0 .. MaxSess : Idle(n) \in ProberState
    /\ [Off EXCEPT !.at = "done"] = [at |-> "done", sess |-> 0, keys |-> 0]
BY PoolAssumption
   DEF Sess, Empty, SlotState, Off, ProberState, OpenerState, NoCover, CoverState, Idle

(***************************************************************************)
(* The inductive invariant.                                                *)
(***************************************************************************)
LEMMA PoolInvInit == PoolInit => PoolInv
<1> SUFFICES ASSUME PoolInit PROVE PoolInv
  OBVIOUS
<1>1. PoolTypeOK
  <2>1. pc \in [Slot -> Phase] /\ try \in [Slot -> 0 .. Retries] /\ mine \in [Slot -> 0 .. MaxSess]
    BY PoolAssumption DEF PoolInit, Phase
  <2>2. slot \in [Slot -> SlotState] /\ prober \in [Slot -> ProberState]
    BY Constants DEF PoolInit
  <2>3. cover \in [Sess -> CoverState] /\ opener \in [Opener -> OpenerState]
    BY Constants DEF PoolInit
  <2> QED BY PoolAssumption, Constants, <2>1, <2>2, <2>3, Zenon DEF PoolInit, PoolTypeOK
<1>2. SlotShape /\ TryShape /\ OwnSession /\ ProberShape /\ CoverShape /\ OpenerShape
  BY DEF PoolInit, SlotShape, TryShape, OwnSession, ProberShape, CoverShape, OpenerShape,
     Published, Off, NoCover
<1>3. StreamKeysMatch /\ RttOfCurrentSession /\ live \subseteq 1 .. made
  BY DEF PoolInit, StreamKeysMatch, RttOfCurrentSession, Empty
<1> QED BY <1>1, <1>2, <1>3 DEF PoolInv

\* Every step of a dialer, prober, cover sender or opener keeps the invariant.
LEMMA PoolInvStep == PoolInv /\ [PoolNext]_poolVars => PoolInv'
<1> SUFFICES ASSUME PoolInv, [PoolNext]_poolVars PROVE PoolInv'
  OBVIOUS
<1> USE PoolAssumption, Constants
<1>t. PoolTypeOK /\ live \subseteq 1 .. made
  BY DEF PoolInv
<1>i. /\ SlotShape /\ TryShape /\ OwnSession /\ ProberShape /\ CoverShape /\ OpenerShape
      /\ StreamKeysMatch /\ RttOfCurrentSession
  BY DEF PoolInv
<1>1. ASSUME NEW s \in Slot, DialTop(s) PROVE PoolInv'
  <2>1. UNCHANGED <<ctxDone, refreshMu, prober, cover, mine, slot, made, live, opener, mixed>>
    BY <1>1 DEF DialTop, dialVars, probeVars
  <2>2. /\ pc[s] \in {"top", "sleep"}
        /\ pc'[s] \in {"returned", "top", "dial"}
        /\ \A t \in Slot : t # s => pc'[t] = pc[t]
        /\ \A t \in Slot : t # s => try'[t] = try[t]
    BY <1>t, <1>1 DEF DialTop, Goto, PoolTypeOK, SlotState, ProberState, CoverState, OpenerState
  <2>3. (live \subseteq 1 .. made /\ OwnSession /\ OpenerShape /\ StreamKeysMatch
         /\ RttOfCurrentSession)'
    BY <1>t, <1>i, <2>1 DEF OwnSession, OpenerShape, StreamKeysMatch, RttOfCurrentSession
  <2>4. SlotShape'
    BY <1>t, <1>i, <2>1, <2>2 DEF SlotShape, Published, Empty, PoolTypeOK
  <2>5. TryShape'
    BY <1>t, <1>i, <2>1, <2>2 DEF TryShape, PoolTypeOK
  <2>6. ProberShape'
    BY <1>t, <1>i, <2>1, <2>2 DEF ProberShape, SlotShape, Published, Idle, PoolTypeOK
  <2>7. CoverShape'
    BY <1>t, <1>i, <2>1, <2>2 DEF CoverShape, SlotShape, Published, NoCover, PoolTypeOK
  <2>8. PoolTypeOK'
    <3>1. pc' \in [Slot -> Phase]
      BY <1>t, <1>i, <1>1, <2>1 DEF DialTop, Goto, PoolTypeOK, Phase
    <3>2. try' \in [Slot -> 0 .. Retries]
      BY <1>t, <1>i, <1>1, <2>1 DEF DialTop, Goto, PoolTypeOK, TryShape
    <3> QED BY <1>t, <2>1, <3>1, <3>2 DEF PoolTypeOK
  <2> QED BY <2>3, <2>4, <2>5, <2>6, <2>7, <2>8 DEF PoolInv
<1>2. ASSUME NEW s \in Slot, DialOK(s) PROVE PoolInv'
  <2>1. UNCHANGED <<ctxDone, refreshMu, prober, cover, slot, opener, mixed>>
    BY <1>2 DEF DialOK, dialVars, probeVars
  <2>2. /\ pc[s] = "dial" /\ pc'[s] = "negotiate"
        /\ \A t \in Slot : t # s => pc'[t] = pc[t]
        /\ \A t \in Slot : t # s => try'[t] = try[t]
        /\ made' = made + 1 /\ live' = live \cup {made'}
        /\ mine'[s] = made'
        /\ \A t \in Slot : t # s => mine'[t] = mine[t]
    BY <1>t, <1>2 DEF DialOK, Goto, PoolTypeOK, SlotState, ProberState, CoverState, OpenerState
  <2>3. (OpenerShape /\ StreamKeysMatch /\ RttOfCurrentSession)'
    BY <1>t, <1>i, <2>1 DEF OpenerShape, StreamKeysMatch, RttOfCurrentSession
  <2>4. live' \subseteq 1 .. made'
    BY <1>t, <1>i, <2>1, <2>2 DEF PoolTypeOK
  <2>5. SlotShape'
    BY <1>t, <1>i, <2>1, <2>2 DEF SlotShape, Published, Empty, PoolTypeOK
  <2>6. TryShape'
    BY <1>t, <1>i, <2>1, <2>2 DEF TryShape, PoolTypeOK
  <2>7. OwnSession'
    BY <1>t, <1>i, <2>1, <2>2 DEF OwnSession, SlotShape, Published, PoolTypeOK
  <2>8. ProberShape'
    BY <1>t, <1>i, <2>1, <2>2 DEF ProberShape, SlotShape, Published, Idle, PoolTypeOK
  <2>9. CoverShape'
    BY <1>t, <1>i, <2>1, <2>2 DEF CoverShape, SlotShape, Published, NoCover, PoolTypeOK
  <2>10. PoolTypeOK'
    <3>1. pc' \in [Slot -> Phase]
      BY <1>t, <1>i, <1>2, <2>1 DEF DialOK, Goto, PoolTypeOK, Phase
    <3>2. made' \in 0 .. MaxSess
      BY <1>t, <1>i, <1>2, <2>1 DEF DialOK, Goto, PoolTypeOK, Sess
    <3>3. live' \subseteq Sess
      BY <1>t, <1>i, <1>2, <2>1 DEF DialOK, Goto, PoolTypeOK, Sess
    <3>4. mine' \in [Slot -> 0 .. MaxSess]
      BY <1>t, <1>i, <1>2, <2>1 DEF DialOK, Goto, PoolTypeOK
    <3>5. try' \in [Slot -> 0 .. Retries]
      BY <1>t, <1>i, <1>2, <2>1 DEF DialOK, Goto, PoolTypeOK, TryShape
    <3> QED BY <1>t, <2>1, <3>1, <3>2, <3>3, <3>4, <3>5 DEF PoolTypeOK
  <2> QED BY <2>3, <2>4, <2>5, <2>6, <2>7, <2>8, <2>9, <2>10 DEF PoolInv
<1>3. ASSUME NEW s \in Slot, DialFail(s) PROVE PoolInv'
  <2>1. UNCHANGED <<ctxDone, refreshMu, prober, cover, mine, slot, made, live, opener, mixed>>
    BY <1>3 DEF DialFail, dialVars, probeVars
  <2>2. /\ pc[s] = "dial"
        /\ pc'[s] = "sleep" \/ (pc'[s] = "lock" /\ try[s] < Retries /\ try'[s] = try[s])
        /\ \A t \in Slot : t # s => pc'[t] = pc[t]
        /\ \A t \in Slot : t # s => try'[t] = try[t]
    BY <1>t, <1>3
       DEF DialFail, Goto, PoolTypeOK, SlotState, ProberState, CoverState, OpenerState
  <2>3. (live \subseteq 1 .. made /\ OwnSession /\ OpenerShape /\ StreamKeysMatch
         /\ RttOfCurrentSession)'
    BY <1>t, <1>i, <2>1 DEF OwnSession, OpenerShape, StreamKeysMatch, RttOfCurrentSession
  <2>4. SlotShape'
    BY <1>t, <1>i, <2>1, <2>2 DEF SlotShape, Published, Empty, PoolTypeOK
  <2>5. TryShape'
    BY <1>t, <1>i, <2>1, <2>2 DEF TryShape, PoolTypeOK
  <2>6. ProberShape'
    BY <1>t, <1>i, <2>1, <2>2 DEF ProberShape, SlotShape, Published, Idle, PoolTypeOK
  <2>7. CoverShape'
    BY <1>t, <1>i, <2>1, <2>2 DEF CoverShape, SlotShape, Published, NoCover, PoolTypeOK
  <2>8. PoolTypeOK'
    <3>1. pc' \in [Slot -> Phase]
      BY <1>t, <1>i, <1>3, <2>1 DEF DialFail, Goto, PoolTypeOK, Phase
    <3>2. try' \in [Slot -> 0 .. Retries]
      BY <1>t, <1>i, <1>3, <2>1 DEF DialFail, Goto, PoolTypeOK, TryShape
    <3> QED BY <1>t, <2>1, <3>1, <3>2 DEF PoolTypeOK
  <2> QED BY <2>3, <2>4, <2>5, <2>6, <2>7, <2>8 DEF PoolInv
<1>4. ASSUME NEW s \in Slot, LockRefresh(s) PROVE PoolInv'
  <2>1. UNCHANGED <<ctxDone, try, prober, cover, mine, slot, made, live, opener, mixed>>
    BY <1>4 DEF LockRefresh, dialVars, probeVars
  <2>2. /\ pc[s] = "lock" /\ pc'[s] = "refresh"
        /\ \A t \in Slot : t # s => pc'[t] = pc[t]
    BY <1>t, <1>4
       DEF LockRefresh, Goto, PoolTypeOK, SlotState, ProberState, CoverState, OpenerState
  <2>3. (live \subseteq 1 .. made /\ OwnSession /\ OpenerShape /\ StreamKeysMatch
         /\ RttOfCurrentSession)'
    BY <1>t, <1>i, <2>1 DEF OwnSession, OpenerShape, StreamKeysMatch, RttOfCurrentSession
  <2>4. SlotShape'
    BY <1>t, <1>i, <2>1, <2>2 DEF SlotShape, Published, Empty, PoolTypeOK
  <2>5. TryShape'
    BY <1>t, <1>i, <2>1, <2>2 DEF TryShape, PoolTypeOK
  <2>6. ProberShape'
    BY <1>t, <1>i, <2>1, <2>2 DEF ProberShape, SlotShape, Published, Idle, PoolTypeOK
  <2>7. CoverShape'
    BY <1>t, <1>i, <2>1, <2>2 DEF CoverShape, SlotShape, Published, NoCover, PoolTypeOK
  <2>8. PoolTypeOK'
    <3>1. pc' \in [Slot -> Phase]
      BY <1>t, <1>i, <1>4, <2>1 DEF LockRefresh, Goto, PoolTypeOK, Phase
    <3>2. refreshMu' \in Slot \cup {NoSlot}
      BY <1>t, <1>i, <1>4, <2>1 DEF LockRefresh, Goto, PoolTypeOK
    <3> QED BY <1>t, <2>1, <3>1, <3>2 DEF PoolTypeOK
  <2> QED BY <2>3, <2>4, <2>5, <2>6, <2>7, <2>8 DEF PoolInv
<1>5. ASSUME NEW s \in Slot, RefreshECH(s) PROVE PoolInv'
  <2>1. UNCHANGED <<ctxDone, prober, cover, mine, slot, made, live, opener, mixed>>
    BY <1>5 DEF RefreshECH, dialVars, probeVars
  <2>2. /\ pc[s] = "refresh" /\ pc'[s] = "dial"
        /\ \A t \in Slot : t # s => pc'[t] = pc[t]
        /\ \A t \in Slot : t # s => try'[t] = try[t]
    BY <1>t, <1>5
       DEF RefreshECH, Goto, PoolTypeOK, SlotState, ProberState, CoverState, OpenerState
  <2>3. (live \subseteq 1 .. made /\ OwnSession /\ OpenerShape /\ StreamKeysMatch
         /\ RttOfCurrentSession)'
    BY <1>t, <1>i, <2>1 DEF OwnSession, OpenerShape, StreamKeysMatch, RttOfCurrentSession
  <2>4. SlotShape'
    BY <1>t, <1>i, <2>1, <2>2 DEF SlotShape, Published, Empty, PoolTypeOK
  <2>5. TryShape'
    BY <1>t, <1>i, <2>1, <2>2 DEF TryShape, PoolTypeOK
  <2>6. ProberShape'
    BY <1>t, <1>i, <2>1, <2>2 DEF ProberShape, SlotShape, Published, Idle, PoolTypeOK
  <2>7. CoverShape'
    BY <1>t, <1>i, <2>1, <2>2 DEF CoverShape, SlotShape, Published, NoCover, PoolTypeOK
  <2>8. PoolTypeOK'
    <3>1. pc' \in [Slot -> Phase]
      BY <1>t, <1>i, <1>5, <2>1 DEF RefreshECH, Goto, PoolTypeOK, Phase
    <3>2. refreshMu' \in Slot \cup {NoSlot}
      BY <1>t, <1>i, <1>5, <2>1 DEF RefreshECH, Goto, PoolTypeOK
    <3>3. try' \in [Slot -> 0 .. Retries]
      BY <1>t, <1>i, <1>5, <2>1 DEF RefreshECH, Goto, PoolTypeOK, TryShape
    <3> QED BY <1>t, <2>1, <3>1, <3>2, <3>3 DEF PoolTypeOK
  <2> QED BY <2>3, <2>4, <2>5, <2>6, <2>7, <2>8 DEF PoolInv
<1>6. ASSUME NEW s \in Slot, NegotiateOK(s) PROVE PoolInv'
  <2>1. UNCHANGED <<ctxDone, try, refreshMu, prober, cover, mine, made, live, opener, mixed>>
    BY <1>6 DEF NegotiateOK, dialVars, probeVars
  <2>2. /\ pc[s] = "negotiate" /\ pc'[s] = "first"
        /\ \A t \in Slot : t # s => pc'[t] = pc[t]
        /\ slot'[s].sess = mine[s] /\ slot'[s].keys = mine[s] /\ slot'[s].rtt = "none"
        /\ \A t \in Slot : t # s => slot'[t] = slot[t]
    <3>1. /\ pc[s] = "negotiate" /\ pc' = [pc EXCEPT ![s] = "first"]
          /\ slot' = [slot EXCEPT ![s] = [Empty EXCEPT !.sess = mine[s], !.keys = mine[s]]]
      BY <1>6 DEF NegotiateOK, Goto
    <3>2. pc \in [Slot -> Phase] /\ slot \in [Slot -> SlotState]
      BY <1>t DEF PoolTypeOK
    <3> QED BY <3>1, <3>2 DEF Empty
  <2>3. (live \subseteq 1 .. made /\ OwnSession /\ OpenerShape /\ StreamKeysMatch)'
    BY <1>t, <1>i, <2>1 DEF OwnSession, OpenerShape, StreamKeysMatch
  <2>4. SlotShape'
    BY <1>t, <1>i, <2>1, <2>2 DEF SlotShape, Published, Empty, PoolTypeOK
  <2>5. TryShape'
    BY <1>t, <1>i, <2>1, <2>2 DEF TryShape, PoolTypeOK
  <2>6. ProberShape'
    BY <1>t, <1>i, <2>1, <2>2 DEF ProberShape, SlotShape, Published, Idle, PoolTypeOK
  <2>7. CoverShape'
    BY <1>t, <1>i, <2>1, <2>2 DEF CoverShape, SlotShape, Published, NoCover, PoolTypeOK
  <2>8. RttOfCurrentSession'
    BY <1>t, <1>i, <2>1, <2>2
       DEF RttOfCurrentSession, SlotShape, ProberShape, Published, Empty, PoolTypeOK
  <2>9. PoolTypeOK'
    <3>1. pc' \in [Slot -> Phase]
      BY <1>t, <1>i, <1>6, <2>1 DEF NegotiateOK, Goto, Empty, PoolTypeOK, Phase
    <3>2. slot' \in [Slot -> SlotState]
      BY <1>t, <1>i, <1>6, <2>1, ZenonT(60) DEF NegotiateOK, Goto, Empty, PoolTypeOK, SlotState, Empty
    <3> QED BY <1>t, <2>1, <3>1, <3>2 DEF PoolTypeOK
  <2> QED BY <2>3, <2>4, <2>5, <2>6, <2>7, <2>8, <2>9 DEF PoolInv
<1>7. ASSUME NEW s \in Slot, NegotiateFail(s) PROVE PoolInv'
  <2>1. UNCHANGED <<ctxDone, try, refreshMu, prober, cover, slot, made, opener, mixed>>
    BY <1>7 DEF NegotiateFail, dialVars, probeVars
  <2>2. /\ pc[s] = "negotiate" /\ pc'[s] = "sleep"
        /\ \A t \in Slot : t # s => pc'[t] = pc[t]
        /\ live' = live \ {mine[s]}
        /\ mine'[s] = 0
        /\ \A t \in Slot : t # s => mine'[t] = mine[t]
    BY <1>t, <1>7
       DEF NegotiateFail, Goto, PoolTypeOK, SlotState, ProberState, CoverState, OpenerState
  <2>3. (OpenerShape /\ StreamKeysMatch /\ RttOfCurrentSession)'
    BY <1>t, <1>i, <2>1 DEF OpenerShape, StreamKeysMatch, RttOfCurrentSession
  <2>4. live' \subseteq 1 .. made'
    BY <1>t, <1>i, <2>1, <2>2 DEF PoolTypeOK
  <2>5. SlotShape'
    BY <1>t, <1>i, <2>1, <2>2 DEF SlotShape, Published, Empty, PoolTypeOK
  <2>6. TryShape'
    BY <1>t, <1>i, <2>1, <2>2 DEF TryShape, PoolTypeOK
  <2>7. OwnSession'
    BY <1>t, <1>i, <2>1, <2>2 DEF OwnSession, SlotShape, Published, PoolTypeOK
  <2>8. ProberShape'
    BY <1>t, <1>i, <2>1, <2>2 DEF ProberShape, SlotShape, Published, Idle, PoolTypeOK
  <2>9. CoverShape'
    BY <1>t, <1>i, <2>1, <2>2 DEF CoverShape, SlotShape, Published, NoCover, PoolTypeOK
  <2>10. PoolTypeOK'
    <3>1. pc' \in [Slot -> Phase]
      BY <1>t, <1>i, <1>7, <2>1 DEF NegotiateFail, Goto, PoolTypeOK, Phase
    <3>2. live' \subseteq Sess
      BY <1>t, <1>i, <1>7, <2>1 DEF NegotiateFail, Goto, PoolTypeOK, Sess
    <3>3. mine' \in [Slot -> 0 .. MaxSess]
      BY <1>t, <1>i, <1>7, <2>1 DEF NegotiateFail, Goto, PoolTypeOK
    <3> QED BY <1>t, <2>1, <3>1, <3>2, <3>3 DEF PoolTypeOK
  <2> QED BY <2>3, <2>4, <2>5, <2>6, <2>7, <2>8, <2>9, <2>10 DEF PoolInv
<1>8. ASSUME NEW s \in Slot, FirstProbe(s) PROVE PoolInv'
  <2>1. UNCHANGED <<ctxDone, try, refreshMu, mine, made, live, opener>>
    BY <1>8 DEF FirstProbe, dialVars, probeVars
  <2>2. /\ pc[s] = "first" /\ pc'[s] = "serve"
        /\ \A t \in Slot : t # s => pc'[t] = pc[t]
        /\ slot'[s].sess = slot[s].sess /\ slot'[s].keys = slot[s].keys
        /\ slot'[s] = slot[s] \/ slot'[s].of = mine[s]
        /\ \A t \in Slot : t # s => slot'[t] = slot[t]
        /\ prober'[s] = Idle(mine[s])
        /\ \A t \in Slot : t # s => prober'[t] = prober[t]
    BY <1>t, <1>8
       DEF FirstProbe, Goto, PoolTypeOK, SlotState, ProberState, CoverState, OpenerState
  <2>3. mine[s] \in Sess
    BY <1>t, <1>i, <2>2 DEF SlotShape, Published, Sess, PoolTypeOK
  <2>4. /\ cover'[mine[s]] = [at |-> "idle", home |-> s, keys |-> 0]
        /\ \A t \in Sess : t # mine[s] => cover'[t] = cover[t]
    BY <1>t, <1>8, <2>3 DEF FirstProbe, PoolTypeOK
  <2>5. mixed' = mixed \/ Opened(mine[s], slot[s].keys)
    BY <1>8 DEF FirstProbe
  <2>6. (live \subseteq 1 .. made /\ OwnSession /\ OpenerShape)'
    BY <1>t, <1>i, <2>1 DEF OwnSession, OpenerShape
  <2>7. SlotShape'
    BY <1>t, <1>i, <2>1, <2>2, <2>3, <2>4, <2>5 DEF SlotShape, Published, Empty, PoolTypeOK
  <2>8. TryShape'
    BY <1>t, <1>i, <2>1, <2>2, <2>3, <2>4, <2>5 DEF TryShape, PoolTypeOK
  <2>9. ProberShape'
    BY <1>t, <1>i, <2>1, <2>2, <2>3, <2>4, <2>5
       DEF ProberShape, SlotShape, Published, Idle, PoolTypeOK
  <2>10. CoverShape'
    BY <1>t, <1>i, <2>1, <2>2, <2>3, <2>4, <2>5
       DEF CoverShape, SlotShape, Published, NoCover, PoolTypeOK
  <2>11. StreamKeysMatch'
    BY <1>t, <1>i, <2>1, <2>2, <2>3, <2>4, <2>5
       DEF StreamKeysMatch, SlotShape, ProberShape, CoverShape, OpenerShape, Published, Opened,
           PoolTypeOK
  <2>12. RttOfCurrentSession'
    BY <1>t, <1>i, <2>1, <2>2, <2>3, <2>4, <2>5
       DEF RttOfCurrentSession, SlotShape, ProberShape, Published, Empty, PoolTypeOK
  <2>13. PoolTypeOK'
    <3>1. pc' \in [Slot -> Phase]
      BY <1>t, <1>i, <1>8, <2>1 DEF FirstProbe, Goto, PoolTypeOK, Phase
    <3>2. slot' \in [Slot -> SlotState]
      BY <1>t, <1>i, <1>8, <2>1 DEF FirstProbe, Goto, PoolTypeOK, SlotState, Empty
    <3>3. mixed' \subseteq Sess \X (0 .. MaxSess)
      BY <2>11 DEF StreamKeysMatch
    <3>4. prober' \in [Slot -> ProberState]
      BY <1>t, <1>i, <1>8, <2>1 DEF FirstProbe, Goto, PoolTypeOK, ProberState
    <3>5. cover' \in [Sess -> CoverState]
      BY <1>t, <1>i, <1>8, <2>1, Zenon DEF FirstProbe, Goto, PoolTypeOK, CoverState
    <3> QED BY <1>t, <2>1, <3>1, <3>2, <3>3, <3>4, <3>5 DEF PoolTypeOK
  <2> QED BY <2>6, <2>7, <2>8, <2>9, <2>10, <2>11, <2>12, <2>13 DEF PoolInv
<1>9. ASSUME NEW s \in Slot, ProbeKeys(s) PROVE PoolInv'
  <2>1. UNCHANGED <<ctxDone, try, refreshMu, cover, pc, mine, slot, made, live, opener, mixed>>
    BY <1>9 DEF ProbeKeys, dialVars, probeVars
  <2>2. /\ prober[s].at = "idle" /\ prober'[s].at = "keyed"
        /\ prober'[s].sess = prober[s].sess /\ prober'[s].keys = slot[s].keys
        /\ \A t \in Slot : t # s => prober'[t] = prober[t]
    BY <1>t, <1>9 DEF ProbeKeys, PoolTypeOK, SlotState, ProberState, CoverState, OpenerState
  <2>3. (live \subseteq 1 .. made /\ SlotShape /\ TryShape /\ OwnSession /\ CoverShape
         /\ OpenerShape /\ StreamKeysMatch /\ RttOfCurrentSession)'
    BY <1>t, <1>i, <2>1
       DEF SlotShape, TryShape, OwnSession, CoverShape, OpenerShape, StreamKeysMatch,
           RttOfCurrentSession
  <2>4. ProberShape'
    BY <1>t, <1>i, <2>1, <2>2 DEF ProberShape, SlotShape, Published, Idle, PoolTypeOK
  <2>5. PoolTypeOK'
    <3>1. slot[s].keys \in 0 .. MaxSess /\ prober[s] \in ProberState
      BY <1>t, <1>i, <1>9
         DEF ProbeKeys, PoolTypeOK, SlotState, ProberState, CoverState, OpenerState, Sess
    <3>2. prober' \in [Slot -> ProberState]
      <4>1. prober \in [Slot -> ProberState]
        BY <1>t DEF PoolTypeOK
      <4>2. prober' = [prober EXCEPT ![s].at = "keyed", ![s].keys = slot[s].keys]
        BY <1>9 DEF ProbeKeys
      <4> QED BY <3>1, <4>1, <4>2, Zenon DEF ProberState
    <3> QED BY <1>t, <2>1, <3>2 DEF PoolTypeOK
  <2> QED BY <2>3, <2>4, <2>5 DEF PoolInv
<1>10. ASSUME NEW s \in Slot, ProbeResult(s) PROVE PoolInv'
  <2>1. UNCHANGED <<ctxDone, try, refreshMu, cover, pc, mine, made, live, opener>>
    BY <1>10 DEF ProbeResult, dialVars, probeVars
  <2>2. /\ prober[s].at = "keyed"
        /\ prober'[s] = Idle(prober[s].sess) \/ prober'[s].at = "done"
        /\ \A t \in Slot : t # s => prober'[t] = prober[t]
        /\ slot'[s].sess = slot[s].sess /\ slot'[s].keys = slot[s].keys /\ slot'[s].of = prober[s].sess
        /\ \A t \in Slot : t # s => slot'[t] = slot[t]
    BY <1>t, <1>10
       DEF ProbeResult, Idle, Off, PoolTypeOK, SlotState, ProberState, CoverState, OpenerState
  <2>3. mixed' = mixed \/ Opened(prober[s].sess, prober[s].keys)
    BY <1>10 DEF ProbeResult
  <2>4. (live \subseteq 1 .. made /\ TryShape /\ OwnSession /\ CoverShape /\ OpenerShape)'
    BY <1>t, <1>i, <2>1 DEF TryShape, OwnSession, CoverShape, OpenerShape
  <2>5. SlotShape'
    BY <1>t, <1>i, <2>1, <2>2, <2>3 DEF SlotShape, ProberShape, Published, Empty, PoolTypeOK
  <2>6. ProberShape'
    BY <1>t, <1>i, <2>1, <2>2, <2>3 DEF ProberShape, SlotShape, Published, Idle, PoolTypeOK
  <2>7. StreamKeysMatch'
    BY <1>t, <1>i, <2>1, <2>2, <2>3
       DEF StreamKeysMatch, SlotShape, ProberShape, CoverShape, OpenerShape, Published, Opened,
           PoolTypeOK
  <2>8. RttOfCurrentSession'
    BY <1>t, <1>i, <2>1, <2>2, <2>3
       DEF RttOfCurrentSession, SlotShape, ProberShape, Published, Empty, PoolTypeOK
  <2>9. PoolTypeOK'
    <3>1. prober[s].sess \in 0 .. MaxSess
      BY <1>t, <1>i, <1>10
         DEF ProbeResult, PoolTypeOK, SlotState, ProberState, CoverState, OpenerState, Sess
    <3>2. prober' \in [Slot -> ProberState]
      BY <1>t, <1>i, <1>10, <3>1, <2>1 DEF ProbeResult, Idle, Off, PoolTypeOK, ProberState
    <3>3. slot' \in [Slot -> SlotState]
      <4>1. slot \in [Slot -> SlotState]
        BY <1>t DEF PoolTypeOK
      <4>2. PICK rtt \in {"fast", "slow"} :
               slot' = [slot EXCEPT ![s].rtt = rtt, ![s].of = prober[s].sess]
        BY <1>10 DEF ProbeResult
      <4> QED BY ZenonT(60), <3>1, <4>1, <4>2 DEF SlotState
    <3>4. mixed' \subseteq Sess \X (0 .. MaxSess)
      BY <2>7 DEF StreamKeysMatch
    <3> QED BY <1>t, <2>1, <3>2, <3>3, <3>4 DEF PoolTypeOK
  <2> QED BY <2>4, <2>5, <2>6, <2>7, <2>8, <2>9 DEF PoolInv
<1>11. ASSUME NEW s \in Slot, Serve(s) PROVE PoolInv'
  <2>1. UNCHANGED <<ctxDone, try, refreshMu, prober, cover, mine, slot, made, opener, mixed>>
    BY <1>11 DEF Serve, dialVars, probeVars
  <2>2. /\ pc[s] = "serve"
        /\ \/ prober[s].at = "done" /\ pc'[s] = "close" /\ live' = live
           \/ pc'[s] = "drain" /\ live' = live \ {mine[s]}
        /\ \A t \in Slot : t # s => pc'[t] = pc[t]
    BY <1>t, <1>11 DEF Serve, Goto, PoolTypeOK, SlotState, ProberState, CoverState, OpenerState
  <2>3. (OwnSession /\ OpenerShape /\ StreamKeysMatch /\ RttOfCurrentSession)'
    BY <1>t, <1>i, <2>1 DEF OwnSession, OpenerShape, StreamKeysMatch, RttOfCurrentSession
  <2>4. live' \subseteq 1 .. made'
    BY <1>t, <1>i, <2>1, <2>2 DEF PoolTypeOK
  <2>5. SlotShape'
    BY <1>t, <1>i, <2>1, <2>2 DEF SlotShape, Published, Empty, PoolTypeOK
  <2>6. TryShape'
    BY <1>t, <1>i, <2>1, <2>2 DEF TryShape, PoolTypeOK
  <2>7. ProberShape'
    BY <1>t, <1>i, <2>1, <2>2 DEF ProberShape, SlotShape, Published, Idle, PoolTypeOK
  <2>8. CoverShape'
    BY <1>t, <1>i, <2>1, <2>2 DEF CoverShape, SlotShape, Published, NoCover, PoolTypeOK
  <2>9. PoolTypeOK'
    <3>1. pc' \in [Slot -> Phase]
      BY <1>t, <1>i, <1>11, <2>1 DEF Serve, Goto, PoolTypeOK, Phase
    <3>2. live' \subseteq Sess
      BY <1>t, <1>i, <1>11, <2>1 DEF Serve, Goto, PoolTypeOK, Sess
    <3> QED BY <1>t, <2>1, <3>1, <3>2 DEF PoolTypeOK
  <2> QED BY <2>3, <2>4, <2>5, <2>6, <2>7, <2>8, <2>9 DEF PoolInv
<1>12. ASSUME NEW s \in Slot, Drain(s) PROVE PoolInv'
  <2>1. UNCHANGED <<ctxDone, try, refreshMu, prober, cover, mine, slot, made, live, opener, mixed>>
    BY <1>12 DEF Drain, dialVars, probeVars
  <2>2. /\ pc[s] = "drain" /\ prober[s].at = "done" /\ pc'[s] = "close"
        /\ \A t \in Slot : t # s => pc'[t] = pc[t]
    BY <1>t, <1>12 DEF Drain, Goto, PoolTypeOK, SlotState, ProberState, CoverState, OpenerState
  <2>3. (live \subseteq 1 .. made /\ OwnSession /\ OpenerShape /\ StreamKeysMatch
         /\ RttOfCurrentSession)'
    BY <1>t, <1>i, <2>1 DEF OwnSession, OpenerShape, StreamKeysMatch, RttOfCurrentSession
  <2>4. SlotShape'
    BY <1>t, <1>i, <2>1, <2>2 DEF SlotShape, Published, Empty, PoolTypeOK
  <2>5. TryShape'
    BY <1>t, <1>i, <2>1, <2>2 DEF TryShape, PoolTypeOK
  <2>6. ProberShape'
    BY <1>t, <1>i, <2>1, <2>2 DEF ProberShape, SlotShape, Published, Idle, PoolTypeOK
  <2>7. CoverShape'
    BY <1>t, <1>i, <2>1, <2>2 DEF CoverShape, SlotShape, Published, NoCover, PoolTypeOK
  <2>8. PoolTypeOK'
    <3>1. pc' \in [Slot -> Phase]
      BY <1>t, <1>i, <1>12, <2>1 DEF Drain, Goto, PoolTypeOK, Phase
    <3> QED BY <1>t, <2>1, <3>1 DEF PoolTypeOK
  <2> QED BY <2>3, <2>4, <2>5, <2>6, <2>7, <2>8 DEF PoolInv
<1>13. ASSUME NEW s \in Slot, CloseSession(s) PROVE PoolInv'
  <2>1. UNCHANGED <<ctxDone, try, refreshMu, prober, cover, mine, slot, made, opener, mixed>>
    BY <1>13 DEF CloseSession, dialVars, probeVars
  <2>2. /\ pc[s] = "close" /\ pc'[s] = "clear" /\ live' = live \ {mine[s]}
        /\ \A t \in Slot : t # s => pc'[t] = pc[t]
    BY <1>t, <1>13
       DEF CloseSession, Goto, PoolTypeOK, SlotState, ProberState, CoverState, OpenerState
  <2>3. (OwnSession /\ OpenerShape /\ StreamKeysMatch /\ RttOfCurrentSession)'
    BY <1>t, <1>i, <2>1 DEF OwnSession, OpenerShape, StreamKeysMatch, RttOfCurrentSession
  <2>4. live' \subseteq 1 .. made'
    BY <1>t, <1>i, <2>1, <2>2 DEF PoolTypeOK
  <2>5. SlotShape'
    BY <1>t, <1>i, <2>1, <2>2 DEF SlotShape, Published, Empty, PoolTypeOK
  <2>6. TryShape'
    BY <1>t, <1>i, <2>1, <2>2 DEF TryShape, PoolTypeOK
  <2>7. ProberShape'
    BY <1>t, <1>i, <2>1, <2>2 DEF ProberShape, SlotShape, Published, Idle, PoolTypeOK
  <2>8. CoverShape'
    BY <1>t, <1>i, <2>1, <2>2 DEF CoverShape, SlotShape, Published, NoCover, PoolTypeOK
  <2>9. PoolTypeOK'
    <3>1. pc' \in [Slot -> Phase]
      BY <1>t, <1>i, <1>13, <2>1 DEF CloseSession, Goto, PoolTypeOK, Phase
    <3>2. live' \subseteq Sess
      BY <1>t, <1>i, <1>13, <2>1 DEF CloseSession, Goto, PoolTypeOK, Sess
    <3> QED BY <1>t, <2>1, <3>1, <3>2 DEF PoolTypeOK
  <2> QED BY <2>3, <2>4, <2>5, <2>6, <2>7, <2>8, <2>9 DEF PoolInv
<1>14. ASSUME NEW s \in Slot, ClearSlot(s) PROVE PoolInv'
  <2>1. UNCHANGED <<ctxDone, try, refreshMu, prober, cover, made, live, opener, mixed>>
    BY <1>14 DEF ClearSlot, dialVars, probeVars
  <2>2. /\ pc[s] = "clear" /\ pc'[s] \in {"returned", "sleep"}
        /\ \A t \in Slot : t # s => pc'[t] = pc[t]
        /\ slot'[s] = Empty /\ mine'[s] = 0
        /\ \A t \in Slot : t # s => slot'[t] = slot[t]
        /\ \A t \in Slot : t # s => mine'[t] = mine[t]
    BY <1>t, <1>14
       DEF ClearSlot, Goto, PoolTypeOK, SlotState, ProberState, CoverState, OpenerState
  <2>3. (live \subseteq 1 .. made /\ OpenerShape /\ StreamKeysMatch)'
    BY <1>t, <1>i, <2>1 DEF OpenerShape, StreamKeysMatch
  <2>4. SlotShape'
    BY <1>t, <1>i, <2>1, <2>2 DEF SlotShape, Published, Empty, PoolTypeOK
  <2>5. TryShape'
    BY <1>t, <1>i, <2>1, <2>2 DEF TryShape, PoolTypeOK
  <2>6. OwnSession'
    BY <1>t, <1>i, <2>1, <2>2 DEF OwnSession, SlotShape, Published, PoolTypeOK
  <2>7. ProberShape'
    BY <1>t, <1>i, <2>1, <2>2 DEF ProberShape, SlotShape, Published, Idle, PoolTypeOK
  <2>8. CoverShape'
    BY <1>t, <1>i, <2>1, <2>2 DEF CoverShape, SlotShape, Published, NoCover, PoolTypeOK
  <2>9. RttOfCurrentSession'
    BY <1>t, <1>i, <2>1, <2>2
       DEF RttOfCurrentSession, SlotShape, ProberShape, Published, Empty, PoolTypeOK
  <2>10. PoolTypeOK'
    <3>1. pc' \in [Slot -> Phase]
      BY <1>t, <1>i, <1>14, <2>1 DEF ClearSlot, Goto, PoolTypeOK, Phase
    <3>2. slot' \in [Slot -> SlotState]
      BY <1>t, <1>i, <1>14, <2>1 DEF ClearSlot, Goto, PoolTypeOK, SlotState, Empty
    <3>3. mine' \in [Slot -> 0 .. MaxSess]
      BY <1>t, <1>i, <1>14, <2>1 DEF ClearSlot, Goto, PoolTypeOK
    <3> QED BY <1>t, <2>1, <3>1, <3>2, <3>3 DEF PoolTypeOK
  <2> QED BY <2>3, <2>4, <2>5, <2>6, <2>7, <2>8, <2>9, <2>10 DEF PoolInv
<1>15. ASSUME NEW n \in Sess, CoverTick(n) PROVE PoolInv'
  <2>1. UNCHANGED <<ctxDone, try, refreshMu, prober, pc, mine, slot, made, live, opener, mixed>>
    BY <1>15 DEF CoverTick, dialVars, probeVars
  <2>2. /\ cover[n].at = "idle"
        /\ cover'[n] = NoCover \/ (cover'[n].at = "checked" /\ cover'[n].home = cover[n].home)
        /\ \A t \in Sess : t # n => cover'[t] = cover[t]
    BY <1>t, <1>15 DEF CoverTick, PoolTypeOK, SlotState, ProberState, CoverState, OpenerState
  <2>3. (live \subseteq 1 .. made /\ SlotShape /\ TryShape /\ OwnSession /\ ProberShape
         /\ OpenerShape /\ StreamKeysMatch /\ RttOfCurrentSession)'
    BY <1>t, <1>i, <2>1
       DEF SlotShape, TryShape, OwnSession, ProberShape, OpenerShape, StreamKeysMatch,
           RttOfCurrentSession
  <2>4. CoverShape'
    BY <1>t, <1>i, <2>1, <2>2 DEF CoverShape, SlotShape, Published, NoCover, PoolTypeOK
  <2>5. PoolTypeOK'
    <3>1. cover' \in [Sess -> CoverState]
      BY <1>t, <1>i, <1>15, <2>1 DEF CoverTick, PoolTypeOK, CoverState
    <3> QED BY <1>t, <2>1, <3>1 DEF PoolTypeOK
  <2> QED BY <2>3, <2>4, <2>5 DEF PoolInv
<1>16. ASSUME NEW n \in Sess, CoverKeys(n) PROVE PoolInv'
  <2>1. UNCHANGED <<ctxDone, try, refreshMu, prober, pc, mine, slot, made, live, opener, mixed>>
    BY <1>16 DEF CoverKeys, dialVars, probeVars
  <2>2. /\ cover[n].at = "checked"
        /\ cover'[n].at = "keyed" /\ cover'[n].home = cover[n].home /\ cover'[n].keys = slot[cover[n].home].keys
        /\ \A t \in Sess : t # n => cover'[t] = cover[t]
    BY <1>t, <1>16 DEF CoverKeys, PoolTypeOK, SlotState, ProberState, CoverState, OpenerState
  <2>3. (live \subseteq 1 .. made /\ SlotShape /\ TryShape /\ OwnSession /\ ProberShape
         /\ OpenerShape /\ StreamKeysMatch /\ RttOfCurrentSession)'
    BY <1>t, <1>i, <2>1
       DEF SlotShape, TryShape, OwnSession, ProberShape, OpenerShape, StreamKeysMatch,
           RttOfCurrentSession
  <2>4. CoverShape'
    BY <1>t, <1>i, <2>1, <2>2 DEF CoverShape, SlotShape, Published, NoCover, PoolTypeOK
  <2>5. PoolTypeOK'
    <3>1. slot[cover[n].home].keys \in 0 .. MaxSess /\ cover[n] \in CoverState
      BY <1>t, <1>i, <1>16
         DEF CoverKeys, PoolTypeOK, SlotState, ProberState, CoverState, OpenerState, CoverShape
    <3>2. cover' \in [Sess -> CoverState]
      BY <1>t, <1>i, <1>16, <3>1, <2>1, Zenon DEF CoverKeys, PoolTypeOK, CoverState
    <3> QED BY <1>t, <2>1, <3>2 DEF PoolTypeOK
  <2> QED BY <2>3, <2>4, <2>5 DEF PoolInv
<1>17. ASSUME NEW n \in Sess, CoverProbe(n) PROVE PoolInv'
  <2>1. UNCHANGED <<ctxDone, try, refreshMu, prober, pc, mine, slot, made, live, opener>>
    BY <1>17 DEF CoverProbe, dialVars, probeVars
  <2>2. /\ cover[n].at = "keyed"
        /\ cover'[n].at = "idle" /\ cover'[n].home = cover[n].home
        /\ \A t \in Sess : t # n => cover'[t] = cover[t]
    BY <1>t, <1>17 DEF CoverProbe, PoolTypeOK, SlotState, ProberState, CoverState, OpenerState
  <2>3. mixed' = mixed \/ (n \in live /\ Opened(n, cover[n].keys))
    BY <1>17 DEF CoverProbe
  <2>4. (live \subseteq 1 .. made /\ SlotShape /\ TryShape /\ OwnSession /\ ProberShape
         /\ OpenerShape /\ RttOfCurrentSession)'
    BY <1>t, <1>i, <2>1
       DEF SlotShape, TryShape, OwnSession, ProberShape, OpenerShape, RttOfCurrentSession
  <2>5. CoverShape'
    BY <1>t, <1>i, <2>1, <2>2, <2>3 DEF CoverShape, SlotShape, Published, NoCover, PoolTypeOK
  <2>6. StreamKeysMatch'
    BY <1>t, <1>i, <2>1, <2>2, <2>3
       DEF StreamKeysMatch, SlotShape, ProberShape, CoverShape, OpenerShape, Published, Opened,
           PoolTypeOK
  <2>7. PoolTypeOK'
    <3>1. cover' \in [Sess -> CoverState]
      <4>1. cover \in [Sess -> CoverState] /\ 0 \in 0 .. MaxSess
        BY <1>t DEF PoolTypeOK
      <4>2. cover' = [cover EXCEPT ![n].at = "idle", ![n].keys = 0]
        BY <1>17 DEF CoverProbe
      <4> QED BY ZenonT(60), <4>1, <4>2 DEF CoverState
    <3>2. mixed' \subseteq Sess \X (0 .. MaxSess)
      BY <2>6 DEF StreamKeysMatch
    <3> QED BY <1>t, <2>1, <3>1, <3>2 DEF PoolTypeOK
  <2> QED BY <2>4, <2>5, <2>6, <2>7 DEF PoolInv
<1>18. ASSUME NEW n \in Sess, SessionLost(n) PROVE PoolInv'
  <2>1. UNCHANGED <<ctxDone, try, refreshMu, prober, cover, pc, mine, slot, made, opener, mixed>>
    BY <1>18 DEF SessionLost, dialVars, probeVars
  <2>2. /\ live' = live \ {n}
    BY <1>t, <1>18 DEF SessionLost, PoolTypeOK, SlotState, ProberState, CoverState, OpenerState
  <2>3. (TryShape /\ OwnSession /\ ProberShape /\ OpenerShape /\ StreamKeysMatch
         /\ RttOfCurrentSession)'
    BY <1>t, <1>i, <2>1
       DEF TryShape, OwnSession, ProberShape, OpenerShape, StreamKeysMatch, RttOfCurrentSession
  <2>4. live' \subseteq 1 .. made'
    BY <1>t, <1>i, <2>1, <2>2 DEF PoolTypeOK
  <2>5. SlotShape'
    BY <1>t, <1>i, <2>1, <2>2 DEF SlotShape, Published, Empty, PoolTypeOK
  <2>6. CoverShape'
    BY <1>t, <1>i, <2>1, <2>2 DEF CoverShape, SlotShape, Published, NoCover, PoolTypeOK
  <2>7. PoolTypeOK'
    <3>1. live' \subseteq Sess
      BY <1>t, <1>i, <1>18, <2>1 DEF SessionLost, PoolTypeOK, Sess
    <3> QED BY <1>t, <2>1, <3>1 DEF PoolTypeOK
  <2> QED BY <2>3, <2>4, <2>5, <2>6, <2>7 DEF PoolInv
<1>19. ASSUME NEW o \in Opener, PickChannel(o) PROVE PoolInv'
  <2>1. UNCHANGED <<ctxDone, try, refreshMu, prober, cover, pc, mine, slot, made, live, mixed>>
    BY <1>19 DEF PickChannel, dialVars, probeVars
  <2>2. /\ \E s \in Slot : slot[s].sess \in live /\ opener'[o].sess = slot[s].sess /\ opener'[o].keys = slot[s].keys
        /\ \A t \in Opener : t # o => opener'[t] = opener[t]
    BY <1>t, <1>19
       DEF PickChannel, Near, Candidates, PoolTypeOK, SlotState, ProberState, CoverState,
           OpenerState
  <2>3. (live \subseteq 1 .. made /\ SlotShape /\ TryShape /\ OwnSession /\ ProberShape
         /\ CoverShape /\ StreamKeysMatch /\ RttOfCurrentSession)'
    BY <1>t, <1>i, <2>1
       DEF SlotShape, TryShape, OwnSession, ProberShape, CoverShape, StreamKeysMatch,
           RttOfCurrentSession
  <2>4. OpenerShape'
    BY <1>t, <1>i, <2>1, <2>2 DEF OpenerShape, SlotShape, Published, Empty, PoolTypeOK
  <2>5. PoolTypeOK'
    <3>1. PICK s \in Slot :
             opener' = [opener EXCEPT ![o] = [at |-> "picked", sess |-> slot[s].sess,
                                              keys |-> slot[s].keys]]
      BY <1>19, Zenon DEF PickChannel, Near, Candidates
    <3>2. slot[s].sess \in 0 .. MaxSess /\ slot[s].keys \in 0 .. MaxSess
      BY <1>t DEF PoolTypeOK, SlotState
    <3>3. opener' \in [Opener -> OpenerState]
      BY <1>t, <3>1, <3>2 DEF PoolTypeOK, OpenerState
    <3> QED BY <1>t, <2>1, <3>3 DEF PoolTypeOK
  <2> QED BY <2>3, <2>4, <2>5 DEF PoolInv
<1>20. ASSUME NEW o \in Opener, OpenOnChannel(o) PROVE PoolInv'
  <2>1. UNCHANGED <<ctxDone, try, refreshMu, prober, cover, pc, mine, slot, made, live>>
    BY <1>20 DEF OpenOnChannel, dialVars, probeVars
  <2>2. /\ opener[o].at = "picked"
        /\ opener'[o].at = "off"
        /\ \A t \in Opener : t # o => opener'[t] = opener[t]
    BY <1>t, <1>20
       DEF OpenOnChannel, Off, PoolTypeOK, SlotState, ProberState, CoverState, OpenerState
  <2>3. mixed' = mixed \/ Opened(opener[o].sess, opener[o].keys)
    BY <1>20 DEF OpenOnChannel
  <2>4. (live \subseteq 1 .. made /\ SlotShape /\ TryShape /\ OwnSession /\ ProberShape
         /\ CoverShape /\ RttOfCurrentSession)'
    BY <1>t, <1>i, <2>1
       DEF SlotShape, TryShape, OwnSession, ProberShape, CoverShape, RttOfCurrentSession
  <2>5. OpenerShape'
    BY <1>t, <1>i, <2>1, <2>2, <2>3 DEF OpenerShape, SlotShape, Published, Empty, PoolTypeOK
  <2>6. StreamKeysMatch'
    BY <1>t, <1>i, <2>1, <2>2, <2>3
       DEF StreamKeysMatch, SlotShape, ProberShape, CoverShape, OpenerShape, Published, Opened,
           PoolTypeOK
  <2>7. PoolTypeOK'
    <3>1. opener' \in [Opener -> OpenerState]
      BY <1>t, <1>i, <1>20, <2>1 DEF OpenOnChannel, Off, PoolTypeOK, OpenerState
    <3>2. mixed' \subseteq Sess \X (0 .. MaxSess)
      BY <2>6 DEF StreamKeysMatch
    <3> QED BY <1>t, <2>1, <3>1, <3>2 DEF PoolTypeOK
  <2> QED BY <2>4, <2>5, <2>6, <2>7 DEF PoolInv
<1>21. ASSUME CancelPool PROVE PoolInv'
  <2>1. UNCHANGED <<try, refreshMu, prober, cover, pc, mine, slot, made, live, opener, mixed>>
    BY <1>21 DEF CancelPool, dialVars, probeVars
  <2>2. (live \subseteq 1 .. made /\ SlotShape /\ TryShape /\ OwnSession /\ ProberShape
         /\ CoverShape /\ OpenerShape /\ StreamKeysMatch /\ RttOfCurrentSession)'
    BY <1>t, <1>i, <2>1
       DEF SlotShape, TryShape, OwnSession, ProberShape, CoverShape, OpenerShape,
           StreamKeysMatch, RttOfCurrentSession
  <2>3. PoolTypeOK'
    <3>1. ctxDone' \in BOOLEAN
      BY <1>t, <1>i, <1>21, <2>1 DEF CancelPool, PoolTypeOK
    <3> QED BY <1>t, <2>1, <3>1 DEF PoolTypeOK
  <2> QED BY <2>2, <2>3 DEF PoolInv
<1>22. ASSUME UNCHANGED poolVars PROVE PoolInv'
  <2>1. /\ UNCHANGED <<try, refreshMu, prober, cover, pc, mine, slot, made, live, opener, mixed>>
        /\ ctxDone' = ctxDone
    BY <1>22 DEF poolVars, dialVars, probeVars
  <2>2. (live \subseteq 1 .. made /\ SlotShape /\ TryShape /\ OwnSession /\ ProberShape
         /\ CoverShape /\ OpenerShape /\ StreamKeysMatch /\ RttOfCurrentSession)'
    BY <1>t, <1>i, <2>1
       DEF SlotShape, TryShape, OwnSession, ProberShape, CoverShape, OpenerShape,
           StreamKeysMatch, RttOfCurrentSession
  <2>3. PoolTypeOK'
    BY <1>t, <2>1 DEF PoolTypeOK
  <2> QED BY <2>2, <2>3 DEF PoolInv
<1> QED BY <1>1, <1>2, <1>3, <1>4, <1>5, <1>6, <1>7, <1>8, <1>9, <1>10, <1>11, <1>12, <1>13,
           <1>14, <1>15, <1>16, <1>17, <1>18, <1>19, <1>20, <1>21, <1>22
        DEF PoolNext, SlotStep, ProberStep

(***************************************************************************)
(* No stream is opened on a session with the keys of another, for any      *)
(* number of slots, openers and reconnects.                                *)
(***************************************************************************)
THEOREM KeysBelongToSession == PoolSpec => []StreamKeysMatch
<1>1. PoolInv => StreamKeysMatch
  BY DEF PoolInv
<1> QED BY <1>1, PoolInvInit, PoolInvStep, PTL DEF PoolSpec

(***************************************************************************)
(* The RTT of a slot was measured on its session: dialAndServe outlives    *)
(* the prober it has started.                                              *)
(***************************************************************************)
THEOREM RttBelongsToSession == PoolSpec => []RttOfCurrentSession
<1>1. PoolInv => RttOfCurrentSession
  BY DEF PoolInv
<1> QED BY <1>1, PoolInvInit, PoolInvStep, PTL DEF PoolSpec

(***************************************************************************)
(* EndpointPool: rotation and cooldown.                                    *)
(***************************************************************************)
(***************************************************************************)
(* Rotation.                                                               *)
(***************************************************************************)
\* How many endpoints come before e, from currentIndex on.
Dist(e) == IF e >= currentIndex THEN e - currentIndex ELSE e + N - currentIndex

\* What an endpoint has been passed over and what is still before it: together
\* less than a round.
Turn ==
    \A e \in Endpoint : IF Available(e) THEN skipped[e] + Dist(e) <= N - 1 ELSE skipped[e] = 0

\* An endpoint is taken out only for FailThreshold failures in a row.
Benched == \A e \in Endpoint : ~healthy[e] => fails[e] = FailThreshold

RotationInv == EndpointTypeOK /\ Turn /\ Benched

(***************************************************************************)
(* Host memory.                                                            *)
(***************************************************************************)
QuicDialers == {d \in Dialer : dialer[d].at = "quic"}

\* Until the threshold every failure is counted; during a cooldown only those who
\* were dialling when it began can add one.
HostInv ==
    /\ mode # "auto" => hostFails = 0
    /\ hostFails < MaxConsecutiveFails => burst <= hostFails
    /\ hostFails = MaxConsecutiveFails /\ hostAge = HostCooldown => burst = 0
    /\ hostFails = MaxConsecutiveFails /\ hostAge < HostCooldown =>
           burst + Cardinality(QuicDialers) <= Cardinality(Dialer) + 1

EndpointInv == RotationInv /\ HostInv

\* The index moves round the ring: (currentIndex + i) % len(p.endpoints) in SelectNext.
LEMMA WrapAround ==
    ASSUME NEW k \in Int, 0 <= k, k < N + N
    PROVE  k % N = IF k < N THEN k ELSE k - N
BY EndpointAssumption

\* There are finitely many dial goroutines, and removing one from those that try QUIC
\* makes them one less.
LEMMA DialersFinite ==
    /\ Cardinality(Dialer) \in Nat
    /\ IsFiniteSet(QuicDialers) /\ Cardinality(QuicDialers) \in Nat
    /\ Cardinality(QuicDialers) <= Cardinality(Dialer)
    /\ \A d \in QuicDialers :
           /\ Cardinality(QuicDialers \ {d}) = Cardinality(QuicDialers) - 1
           /\ Cardinality(QuicDialers) >= 1
<1>1. IsFiniteSet(Dialer) /\ QuicDialers \subseteq Dialer
  BY EndpointAssumption DEF QuicDialers
<1>2. IsFiniteSet(QuicDialers) /\ Cardinality(QuicDialers) <= Cardinality(Dialer)
  BY <1>1, FS_Subset
<1>3. Cardinality(Dialer) \in Nat /\ Cardinality(QuicDialers) \in Nat
  BY <1>1, <1>2, FS_CardinalityType
<1>4. ASSUME NEW d \in QuicDialers
      PROVE  /\ Cardinality(QuicDialers \ {d}) = Cardinality(QuicDialers) - 1
             /\ Cardinality(QuicDialers) >= 1
  <2>1. Cardinality(QuicDialers \ {d}) = Cardinality(QuicDialers) - 1
    BY <1>2, <1>4, FS_RemoveElement
  <2>2. IsFiniteSet(QuicDialers \ {d})
    BY <1>2, FS_Subset
  <2>3. Cardinality(QuicDialers \ {d}) \in Nat
    BY <2>2, FS_CardinalityType
  <2> QED BY <1>3, <2>1, <2>3
<1> QED BY <1>2, <1>3, <1>4

(***************************************************************************)
(* SelectNext moves the index past the endpoint it returns: one that is    *)
(* passed over comes at least one place nearer.                            *)
(***************************************************************************)
LEMMA SelectNextKeepsTurn ==
    ASSUME RotationInv, NEW e \in Endpoint, SelectNext(e)
    PROVE  /\ healthy' \in [Endpoint -> BOOLEAN] /\ fails' = fails /\ age' = age
           /\ currentIndex' \in Endpoint /\ skipped' \in [Endpoint -> Nat]
           /\ Turn' /\ Benched'
<1> USE EndpointAssumption DEF Endpoint
<1>0. /\ healthy \in [Endpoint -> BOOLEAN] /\ age \in [Endpoint -> 0 .. Cooldown + 1]
      /\ currentIndex \in Endpoint /\ skipped \in [Endpoint -> Nat]
  BY DEF RotationInv, EndpointTypeOK
<1>1. CASE Oldest(e)
  <2>1. fails' = fails /\ age' = age /\ healthy' = healthy /\ currentIndex' = currentIndex
    BY <1>1 DEF SelectNext, Oldest, RoundRobin
  <2>2. skipped' = [f \in Endpoint |-> 0]
    BY <1>1 DEF SelectNext, Oldest, RoundRobin, CountSkips
  <2>3. Turn' /\ Benched'
    BY <1>0, <1>1, <2>1, <2>2 DEF Turn, Benched, Available, Oldest, RotationInv
  <2> QED BY <1>0, <2>1, <2>2, <2>3
<1>2. CASE RoundRobin(e)
  <2>1. PICK i \in 0 .. N - 1 : /\ e = (currentIndex + i) % N
                                /\ Available(e)
                                /\ \A j \in 0 .. i - 1 : ~Available((currentIndex + j) % N)
    BY <1>2 DEF RoundRobin
  <2>2. /\ healthy' = [healthy EXCEPT ![e] = TRUE] /\ fails' = fails /\ age' = age
        /\ currentIndex' = (e + 1) % N
        /\ skipped' = [f \in Endpoint |-> IF f # e /\ Available(f) THEN skipped[f] + 1 ELSE 0]
    BY <1>2, <2>1 DEF SelectNext, CountSkips, Oldest
  <2>3. e = IF currentIndex + i < N THEN currentIndex + i ELSE currentIndex + i - N
    <3>1. currentIndex + i \in Int /\ 0 <= currentIndex + i /\ currentIndex + i < N + N
      BY <1>0
    <3>2. PICK k \in Int : k = currentIndex + i
      BY <3>1
    <3>3. k % N = IF k < N THEN k ELSE k - N
      BY <3>1, <3>2, WrapAround
    <3>4. e = k % N
      BY <2>1, <3>2
    <3> QED BY <1>0, <3>2, <3>3, <3>4
  <2>4. currentIndex' = IF e + 1 < N THEN e + 1 ELSE 0
    <3>1. (e + 1) % N = IF e + 1 < N THEN e + 1 ELSE e + 1 - N
      <4>1. e + 1 \in Int /\ 0 <= e + 1 /\ e + 1 < N + N
        OBVIOUS
      <4> QED BY <4>1, WrapAround
    <3> QED BY <2>2, <3>1
  <2>5. ASSUME NEW f \in Endpoint, Available(f), f # e
        PROVE  Dist(f)' <= Dist(f) - 1
    <3>1. Dist(f) \in 0 .. N - 1 /\ (currentIndex + Dist(f)) % N = f
      <4>1. Dist(f) \in 0 .. N - 1 /\ currentIndex + Dist(f) \in 0 .. N + N - 1
              /\ currentIndex + Dist(f) \in Int
        BY <1>0 DEF Dist
      <4>2. PICK k \in Int : k = currentIndex + Dist(f)
        BY <4>1
      <4>3. k % N = IF k < N THEN k ELSE k - N
        BY <4>1, <4>2, WrapAround
      <4> QED BY <1>0, <4>1, <4>2, <4>3 DEF Dist
    <3>2. ~(Dist(f) < i)
      BY <2>1, <2>5, <3>1
    <3>3. Dist(f) # i
      BY <2>1, <2>5, <3>1
    <3> QED BY <1>0, <2>3, <2>4, <3>1, <3>2, <3>3 DEF Dist
  <2>6. currentIndex' \in Endpoint /\ Dist(e)' \in 0 .. N - 1
    BY <1>0, <2>4 DEF Dist
  <2>7. \A f \in Endpoint : Available(f)' <=> Available(f)
    BY <1>0, <2>1, <2>2, Zenon DEF Available
  <2>8. Turn'
    <3> SUFFICES ASSUME NEW f \in Endpoint
                 PROVE  IF Available(f)' THEN skipped'[f] + Dist(f)' <= N - 1 ELSE skipped'[f] = 0
      BY DEF Turn
    <3>1. CASE ~Available(f)
      BY <2>2, <2>7, <3>1
    <3>2. CASE f = e
      BY <1>0, <2>1, <2>2, <2>6, <2>7, <3>2
    <3>3. CASE f # e /\ Available(f)
      <4>1. skipped'[f] = skipped[f] + 1 /\ skipped[f] + Dist(f) <= N - 1
        BY <2>2, <3>3 DEF Turn, RotationInv
      <4>2. Dist(f)' <= Dist(f) - 1
        BY <2>5, <3>3
      <4>3. Dist(f) \in Int /\ Dist(f)' \in Int
        BY <1>0, <2>6 DEF Dist
      <4>4. skipped[f] \in Nat
        BY <1>0
      <4>5. skipped'[f] + Dist(f)' <= N - 1
        BY <4>1, <4>2, <4>3, <4>4
      <4> QED BY <2>7, <3>3, <4>5
    <3> QED BY <3>1, <3>2, <3>3
  <2>9. Benched' /\ healthy' \in [Endpoint -> BOOLEAN] /\ skipped' \in [Endpoint -> Nat]
    BY <1>0, <2>2 DEF Benched, RotationInv
  <2> QED BY <2>2, <2>6, <2>8, <2>9
<1> QED BY <1>1, <1>2 DEF SelectNext

(***************************************************************************)
(* RecordResult takes an endpoint out only at the threshold, and then      *)
(* forgets what it was passed over.                                        *)
(***************************************************************************)
LEMMA RecordResultKeepsTurn ==
    ASSUME RotationInv, NEW e \in Endpoint, NEW success \in BOOLEAN, RecordResult(e, success)
    PROVE  /\ healthy' \in [Endpoint -> BOOLEAN] /\ fails' \in [Endpoint -> 0 .. FailThreshold]
           /\ age' \in [Endpoint -> 0 .. Cooldown + 1]
           /\ currentIndex' \in Endpoint /\ skipped' \in [Endpoint -> Nat]
           /\ Turn' /\ Benched'
<1> USE EndpointAssumption
<1>0. /\ healthy \in [Endpoint -> BOOLEAN] /\ fails \in [Endpoint -> 0 .. FailThreshold]
      /\ age \in [Endpoint -> 0 .. Cooldown + 1]
      /\ currentIndex \in Endpoint /\ skipped \in [Endpoint -> Nat] /\ currentIndex' = currentIndex
  BY DEF RotationInv, EndpointTypeOK, RecordResult
<1>d. \A f \in Endpoint : Dist(f) \in 0 .. N - 1 /\ Dist(f)' = Dist(f)
  BY <1>0 DEF Dist, Endpoint
<1>1. CASE success
  <2>1. /\ fails' = [fails EXCEPT ![e] = 0] /\ healthy' = [healthy EXCEPT ![e] = TRUE]
        /\ age' = [age EXCEPT ![e] = Cooldown + 1] /\ skipped' = skipped
    BY <1>1 DEF RecordResult
  <2>2. Benched'
    BY <1>0, <2>1 DEF Benched, RotationInv
  <2>3. ASSUME NEW f \in Endpoint
        PROVE  IF Available(f)' THEN skipped'[f] + Dist(f)' <= N - 1 ELSE skipped'[f] = 0
    <3>1. CASE f = e
      <4>1. Available(f)' /\ skipped'[f] = skipped[f]
        BY <1>0, <2>1, <3>1 DEF Available
      <4>2. skipped[f] + Dist(f) <= N - 1
        BY <1>0, <1>d DEF Turn, RotationInv, Endpoint
      <4> QED BY <1>d, <4>1, <4>2
    <3>2. CASE f # e
      <4>1. (Available(f)' <=> Available(f)) /\ skipped'[f] = skipped[f]
        BY <1>0, <2>1, <3>2 DEF Available
      <4> QED BY <1>d, <4>1 DEF Turn, RotationInv
    <3> QED BY <3>1, <3>2
  <2> QED BY <1>0, <2>1, <2>2, <2>3 DEF Turn
<1>2. CASE ~success
  <2> DEFINE n == IF fails[e] < FailThreshold THEN fails[e] + 1 ELSE fails[e]
  <2>1. /\ fails' = [fails EXCEPT ![e] = n]
        /\ healthy' = [healthy EXCEPT ![e] = healthy[e] /\ n < FailThreshold]
        /\ age' = [age EXCEPT ![e] = IF healthy'[e] THEN age[e] ELSE 0]
        /\ skipped' = [skipped EXCEPT ![e] = IF n < FailThreshold THEN skipped[e] ELSE 0]
    BY <1>2 DEF RecordResult
  <2>2. n \in 0 .. FailThreshold /\ (fails[e] = FailThreshold => n = FailThreshold)
    BY <1>0
  <2>3. healthy'[e] = (healthy[e] /\ n < FailThreshold)
    BY <1>0, <2>1
  <2>4. healthy[e] \/ fails[e] = FailThreshold
    BY DEF Benched, RotationInv
  <2> HIDE DEF n
  <2>5. Benched'
    BY <1>0, <2>1, <2>2, <2>3, <2>4 DEF Benched, RotationInv
  <2>6. ASSUME NEW f \in Endpoint
        PROVE  IF Available(f)' THEN skipped'[f] + Dist(f)' <= N - 1 ELSE skipped'[f] = 0
    <3>1. CASE f # e
      <4>1. (Available(f)' <=> Available(f)) /\ skipped'[f] = skipped[f]
        BY <1>0, <2>1, <3>1 DEF Available
      <4> QED BY <1>d, <4>1 DEF Turn, RotationInv
    <3>2. CASE f = e /\ n < FailThreshold
      <4>1. healthy[e] /\ healthy'[e] /\ skipped'[e] = skipped[e]
        BY <1>0, <2>1, <2>2, <2>3, <2>4, <3>2
      <4>2. Available(f) /\ Available(f)'
        BY <3>2, <4>1 DEF Available
      <4> QED BY <1>d, <3>2, <4>1, <4>2 DEF Turn, RotationInv
    <3>3. CASE f = e /\ ~(n < FailThreshold)
      <4>1. skipped'[f] = 0
        BY <1>0, <2>1, <3>3
      <4> QED BY <1>d, <4>1 DEF Endpoint
    <3> QED BY <3>1, <3>2, <3>3
  <2>7. /\ healthy' \in [Endpoint -> BOOLEAN] /\ fails' \in [Endpoint -> 0 .. FailThreshold]
        /\ age' \in [Endpoint -> 0 .. Cooldown + 1] /\ skipped' \in [Endpoint -> Nat]
    BY <1>0, <2>1, <2>2
  <2> QED BY <1>0, <2>5, <2>6, <2>7 DEF Turn
<1> QED BY <1>1, <1>2

(***************************************************************************)
(* The inductive invariant.                                                *)
(***************************************************************************)
LEMMA EndpointInvInit == EndpointInit => EndpointInv
<1> SUFFICES ASSUME EndpointInit PROVE EndpointInv
  OBVIOUS
<1> USE EndpointAssumption, DialersFinite DEF Endpoint
<1>1. EndpointTypeOK
  BY DEF EndpointInit, EndpointTypeOK, BurstCap, MaxConsecutiveFails
<1>2. Turn
  BY DEF EndpointInit, Turn, Available, Dist
<1>3. Benched
  BY DEF EndpointInit, Benched
<1>4. HostInv
  BY DEF EndpointInit, HostInv, MaxConsecutiveFails
<1> QED BY <1>1, <1>2, <1>3, <1>4 DEF EndpointInv, RotationInv

\* Every dial, result and tick keeps the invariant.
LEMMA EndpointInvStep == EndpointInv /\ [EndpointNext]_endpointVars => EndpointInv'
<1> SUFFICES ASSUME EndpointInv, [EndpointNext]_endpointVars PROVE EndpointInv'
  OBVIOUS
<1> USE EndpointAssumption DEF EndpointInv
<1>t. EndpointTypeOK /\ Turn /\ Benched
  BY DEF RotationInv
<1>f. /\ Cardinality(Dialer) \in Nat /\ Cardinality(QuicDialers) \in Nat
      /\ Cardinality(QuicDialers) <= Cardinality(Dialer)
  BY DialersFinite
<1>1. ASSUME NEW d \in Dialer, BeginDial(d)
      PROVE  EndpointInv'
  <2>1. PICK e \in Endpoint :
            /\ SelectNext(e)
            /\ dialer' = [dialer EXCEPT ![d] =
                   [at |-> IF mode = "quic" \/ (mode = "auto" /\ ShouldTryQUIC) THEN "quic" ELSE "dialed",
                    endpoint |-> e]]
    BY <1>1, Zenon DEF BeginDial
  <2>2. UNCHANGED <<hostVars, mode>>
    BY <1>1 DEF BeginDial
  <2>3. RotationInv'
    <3>1. dialer' \in [Dialer -> [at : {"idle", "quic", "dialed"}, endpoint : Endpoint]]
      BY <1>t, <2>1 DEF EndpointTypeOK
    <3>2. EndpointTypeOK'
      BY <1>t, <2>1, <2>2, <3>1, SelectNextKeepsTurn DEF EndpointTypeOK, hostVars, BurstCap
    <3> QED BY <2>1, <3>2, SelectNextKeepsTurn DEF RotationInv
  <2>4. HostInv'
    <3>1. CASE hostFails = MaxConsecutiveFails /\ hostAge < HostCooldown
      <4>1. mode = "auto" /\ ~ShouldTryQUIC
        BY <1>t, <3>1 DEF HostInv, ShouldTryQUIC, MaxConsecutiveFails, EndpointTypeOK
      <4>2. dialer' = [dialer EXCEPT ![d] = [at |-> "dialed", endpoint |-> dialer'[d].endpoint]]
        BY <1>t, <2>1, <4>1 DEF EndpointTypeOK
      <4>3. d \notin QuicDialers
        BY <1>1 DEF BeginDial, QuicDialers
      <4>4. QuicDialers' = QuicDialers
        BY <1>t, <4>2, <4>3 DEF QuicDialers, EndpointTypeOK
      <4> QED BY <2>2, <3>1, <4>4 DEF HostInv, hostVars
    <3>2. CASE ~(hostFails = MaxConsecutiveFails /\ hostAge < HostCooldown)
      BY <2>2, <3>2 DEF HostInv, hostVars
    <3> QED BY <3>1, <3>2
  <2> QED BY <2>3, <2>4
<1>2. ASSUME NEW d \in Dialer, QuicDialed(d)
      PROVE  EndpointInv'
  <2>1. hostFails' = 0 /\ burst' = 0 /\ UNCHANGED <<hostAge, rotationVars, mode>>
        /\ dialer' = [dialer EXCEPT ![d].at = "dialed"]
    BY <1>2 DEF QuicDialed, HostRecordSuccess, DialerAt
  <2>2. EndpointTypeOK'
    BY <1>t, <1>f, <2>1 DEF EndpointTypeOK, rotationVars, BurstCap, MaxConsecutiveFails
  <2>3. Turn' /\ Benched'
    BY <1>t, <2>1 DEF Turn, Benched, Available, Dist, rotationVars
  <2>4. HostInv'
    BY <2>1 DEF HostInv, MaxConsecutiveFails
  <2> QED BY <2>2, <2>3, <2>4 DEF RotationInv
<1>3. ASSUME NEW d \in Dialer, QuicFailed(d)
      PROVE  EndpointInv'
  <2>1. /\ hostFails' = IF hostFails < MaxConsecutiveFails THEN hostFails + 1 ELSE hostFails
        /\ burst' = IF burst < BurstCap THEN burst + 1 ELSE burst
        /\ hostAge' = 0 /\ UNCHANGED <<rotationVars, mode>>
        /\ dialer' = [dialer EXCEPT ![d].at = "dialed"]
        /\ dialer[d].at = "quic" /\ mode = "auto"
    BY <1>3 DEF QuicFailed, HostRecordFailure, CountFailure, DialerAt
  <2>2. EndpointTypeOK'
    BY <1>t, <1>f, <2>1 DEF EndpointTypeOK, rotationVars, BurstCap, MaxConsecutiveFails
  <2>3. Turn' /\ Benched'
    BY <1>t, <2>1 DEF Turn, Benched, Available, Dist, rotationVars
  <2>4. Cardinality(QuicDialers') = Cardinality(QuicDialers) - 1
    <3>1. d \in QuicDialers
      BY <2>1 DEF QuicDialers
    <3>2. QuicDialers' = QuicDialers \ {d}
      BY <1>t, <2>1 DEF QuicDialers, EndpointTypeOK
    <3> QED BY <3>1, <3>2, DialersFinite
  <2>5. HostInv'
    <3>1. burst \in Nat /\ hostFails \in 0 .. 2 /\ hostAge \in 0 .. HostCooldown
      BY <1>t DEF EndpointTypeOK, MaxConsecutiveFails
    <3>2. burst' \in Nat /\ burst' <= burst + 1
      BY <2>1, <3>1, <1>f DEF BurstCap, MaxConsecutiveFails
    <3> QED BY <1>f, <2>1, <2>4, <3>1, <3>2 DEF HostInv, MaxConsecutiveFails
  <2> QED BY <2>2, <2>3, <2>5 DEF RotationInv
<1>4. ASSUME NEW d \in Dialer, EndDial(d)
      PROVE  EndpointInv'
  <2>1. PICK ok \in BOOLEAN : RecordResult(dialer[d].endpoint, ok)
    BY <1>4 DEF EndDial
  <2>2. /\ dialer' = [dialer EXCEPT ![d] = [at |-> "idle", endpoint |-> 0]]
        /\ UNCHANGED <<hostVars, mode>>
    BY <1>4 DEF EndDial
  <2>3. dialer[d].endpoint \in Endpoint
    BY <1>t DEF EndpointTypeOK
  <2>4. RotationInv'
    <3>1. dialer' \in [Dialer -> [at : {"idle", "quic", "dialed"}, endpoint : Endpoint]]
      BY <1>t, <2>2 DEF EndpointTypeOK, Endpoint
    <3>2. /\ healthy' \in [Endpoint -> BOOLEAN] /\ fails' \in [Endpoint -> 0 .. FailThreshold]
          /\ age' \in [Endpoint -> 0 .. Cooldown + 1]
          /\ currentIndex' \in Endpoint /\ skipped' \in [Endpoint -> Nat]
          /\ Turn' /\ Benched'
      BY <2>1, <2>3, RecordResultKeepsTurn, ZenonT(30) DEF EndpointInv
    <3>3. hostFails' = hostFails /\ hostAge' = hostAge /\ burst' = burst /\ mode' = mode
      BY <2>2 DEF hostVars
    <3>4. EndpointTypeOK'
      BY <1>t, <3>1, <3>2, <3>3 DEF EndpointTypeOK, BurstCap
    <3> QED BY <3>2, <3>4 DEF RotationInv
  <2>5. HostInv'
    <3>1. CASE mode = "auto"
      <4>1. QuicDialers' = QuicDialers
        <5>1. dialer[d].at # "quic"
          BY <1>4, <3>1 DEF EndDial
        <5>2. dialer'[d].at # "quic" /\ \A b \in Dialer \ {d} : dialer'[b] = dialer[b]
          BY <1>t, <2>2 DEF EndpointTypeOK
        <5>3. \A b \in Dialer : dialer'[b].at = "quic" <=> dialer[b].at = "quic"
          BY <5>1, <5>2, Zenon
        <5> QED BY <5>3, Zenon DEF QuicDialers
      <4> QED BY <2>2, <4>1 DEF HostInv, hostVars
    <3>2. CASE mode # "auto"
      BY <2>2, <3>2 DEF HostInv, hostVars, MaxConsecutiveFails
    <3> QED BY <3>1, <3>2
  <2> QED BY <2>4, <2>5
<1>5. ASSUME EndpointTick
      PROVE  EndpointInv'
  <2>1. /\ age' = [e \in Endpoint |-> IF age[e] <= Cooldown THEN age[e] + 1 ELSE age[e]]
        /\ hostAge' = IF hostAge < HostCooldown THEN hostAge + 1 ELSE hostAge
        /\ burst' = IF hostAge' = HostCooldown /\ hostAge # HostCooldown THEN 0 ELSE burst
        /\ UNCHANGED <<healthy, fails, currentIndex, skipped, hostFails, mode, dialer>>
    BY <1>5 DEF EndpointTick
  <2>2. EndpointTypeOK'
    BY <1>t, <1>f, <2>1 DEF EndpointTypeOK, BurstCap, MaxConsecutiveFails
  <2>3. Turn'
    <3> SUFFICES ASSUME NEW e \in Endpoint
                 PROVE  IF Available(e)' THEN skipped'[e] + Dist(e)' <= N - 1 ELSE skipped'[e] = 0
      BY DEF Turn
    <3>1. skipped'[e] = skipped[e] /\ Dist(e)' = Dist(e) /\ Dist(e) \in 0 .. N - 1
      BY <1>t, <2>1 DEF EndpointTypeOK, Dist, Endpoint
    <3>2. Available(e) => Available(e)'
      BY <1>t, <2>1 DEF EndpointTypeOK, Available
    <3> QED BY <1>t, <3>1, <3>2 DEF Turn
  <2>4. Benched'
    BY <1>t, <2>1 DEF Benched
  <2>5. HostInv'
    <3>1. QuicDialers' = QuicDialers
      BY <2>1 DEF QuicDialers
    <3>2. hostAge \in 0 .. HostCooldown /\ burst \in Nat /\ hostFails \in Nat
      BY <1>t DEF EndpointTypeOK, MaxConsecutiveFails
    <3> QED BY <2>1, <3>1, <3>2 DEF HostInv, MaxConsecutiveFails
  <2> QED BY <2>2, <2>3, <2>4, <2>5 DEF RotationInv
<1>6. ASSUME UNCHANGED endpointVars
      PROVE  EndpointInv'
  BY <1>t, <1>6
     DEF endpointVars, rotationVars, hostVars, RotationInv, EndpointTypeOK, Turn, Benched,
                    Available, Dist, HostInv, QuicDialers, BurstCap
<1> QED BY <1>1, <1>2, <1>3, <1>4, <1>5, <1>6 DEF EndpointNext

(***************************************************************************)
(* SelectNext passes an endpoint that stays available over less than once  *)
(* for every endpoint, and QUIC fails in a row at most as often as the     *)
(* threshold and the goroutines already dialling explain, however dials,   *)
(* results and cooldowns of any number of endpoints and goroutines mix.    *)
(***************************************************************************)
THEOREM RotationIsFair == EndpointSpec => []NoEndpointStarves
<1>1. EndpointInv => NoEndpointStarves
  <2> SUFFICES ASSUME EndpointInv, NEW e \in Endpoint PROVE skipped[e] < N
    BY DEF NoEndpointStarves
  <2>1. Dist(e) \in 0 .. N - 1 /\ skipped[e] \in Nat
    BY EndpointAssumption DEF EndpointInv, RotationInv, EndpointTypeOK, Dist, Endpoint
  <2> QED BY <2>1, EndpointAssumption DEF EndpointInv, RotationInv, Turn
<1> QED BY <1>1, EndpointInvInit, EndpointInvStep, PTL DEF EndpointSpec

(***************************************************************************)
(* The host memory lets QUIC fail at most MaxConsecutiveFails times and    *)
(* once more for every other dial goroutine before the cooldown is over.   *)
(***************************************************************************)
THEOREM CooldownHolds == EndpointSpec => []FailuresPerCooldown
<1>1. EndpointInv => FailuresPerCooldown
  <2> SUFFICES ASSUME EndpointInv PROVE FailuresPerCooldown
    OBVIOUS
  <2>1. hostFails \in 0 .. 2 /\ hostAge \in 0 .. HostCooldown /\ burst \in Int
    BY DEF EndpointInv, RotationInv, EndpointTypeOK, MaxConsecutiveFails
  <2> QED BY <2>1, DialersFinite, EndpointAssumption
          DEF EndpointInv, HostInv, FailuresPerCooldown, MaxConsecutiveFails
<1> QED BY <1>1, EndpointInvInit, EndpointInvStep, PTL DEF EndpointSpec

(***************************************************************************)
(* UDPAssociation: streams and sockets, open or accounted for.             *)
(***************************************************************************)
\* Streams and sockets are numbered from 1; the fields hold 0 or one of them.
Numbered ==
    /\ opened \in Nat /\ stream \in 0 .. opened /\ directConn \in 0 .. opened
    /\ open \subseteq 1 .. opened /\ closing \subseteq 1 .. opened

\* The stream is opened at most once: whoever opens it finds the field empty.
StreamOnce ==
    /\ ~receiving => stream = 0
    /\ sender.at = "opening" => stream = 0 /\ receiving

\* Before Close nothing is late or being closed; afterwards the fields hold only what
\* came late, which is nothing as long as the sender is still opening it.
ClosedFields ==
    /\ ~closed => listener /\ late = {} /\ closing = {}
    /\ closed => {stream, directConn} \subseteq late \cup {0}
    /\ ~listener => closing = {}
    /\ late = {} \/ \E r \in Res : late = {r}
    /\ sender.at \in {"opening", "bind"} => late = {}

Accounted == open \subseteq {stream, directConn} \cup closing

UDPInv == closed \in BOOLEAN /\ Numbered /\ StreamOnce /\ ClosedFields /\ Accounted

\* A new association has nothing open.
LEMMA UDPInvInit == UDPInit => UDPInv
<1> SUFFICES ASSUME UDPInit PROVE UDPInv
  OBVIOUS
<1>1. Numbered /\ StreamOnce /\ Accounted
  BY DEF UDPInit, Numbered, StreamOnce, Accounted, Waiting
<1>2. ClosedFields
  BY DEF UDPInit, ClosedFields, Waiting
<1> QED BY <1>1, <1>2, Zenon DEF UDPInit, UDPInv

\* Close by whoever calls it first: what was in the fields is about to be closed.
LEMMA CloseKeeps ==
    ASSUME UDPInv, Close, UNCHANGED <<opened, open, late, listener>>,
           sender' = sender \/ sender'.at \notin {"opening", "bind"}
    PROVE  UDPInv'
<1>1. CASE closed
  <2>1. UNCHANGED udpFields
    BY <1>1 DEF Close
  <2> QED BY <1>1, <2>1 DEF UDPInv, Numbered, StreamOnce, ClosedFields, Accounted, udpFields
<1>2. CASE ~closed
  <2>1. /\ closed' = TRUE /\ closing' = {stream, directConn} \ {0}
        /\ stream' = 0 /\ directConn' = 0 /\ UNCHANGED <<receiving, target>>
    BY <1>2 DEF Close
  <2> QED BY <1>2, <2>1 DEF UDPInv, Numbered, StreamOnce, ClosedFields, Accounted
<1> QED BY <1>1, <1>2

\* Every step of the sender, the readers and Close keeps the invariant.
LEMMA UDPInvStep == UDPInv /\ [UDPNext]_udpVars => UDPInv'
<1> SUFFICES ASSUME UDPInv, [UDPNext]_udpVars PROVE UDPInv'
  OBVIOUS
<1> USE UDPAssumption
<1>1. ASSUME FinishClose PROVE UDPInv'
  BY <1>1 DEF FinishClose, UDPInv, Numbered, StreamOnce, ClosedFields, Accounted
<1>2. ASSUME ControlEnds PROVE UDPInv'
  BY <1>2, CloseKeeps DEF ControlEnds, udpThings
<1>3. ASSUME ReadDatagram PROVE UDPInv'
  <2>1. UNCHANGED <<closed, receiving, stream, directConn, closing, opened, open, late, listener>>
    BY <1>3 DEF ReadDatagram, udpFields, udpThings
  <2>2. sender'.at # "opening" /\ sender'.at # "bind"
    BY <1>3 DEF ReadDatagram
  <2> QED BY <2>1, <2>2 DEF UDPInv, Numbered, StreamOnce, ClosedFields, Accounted
<1>4. ASSUME LoopEnds PROVE UDPInv'
  <2>1. UNCHANGED <<closed, receiving, stream, directConn, closing, opened, open, late, listener>>
    BY <1>4 DEF LoopEnds, udpFields, udpThings
  <2>2. sender'.at # "opening" /\ sender'.at # "bind"
    BY <1>4 DEF LoopEnds, At
  <2> QED BY <2>1, <2>2 DEF UDPInv, Numbered, StreamOnce, ClosedFields, Accounted
<1>5. ASSUME Send PROVE UDPInv'
  <2>1. UNCHANGED <<closed, stream, directConn, closing, opened, open, late, listener>>
    BY <1>5 DEF Send, udpThings
  <2>2. receiving' = (receiving \/ ~closed)
    BY <1>5 DEF Send
  <2>3. sender'.at # "bind" /\ (sender'.at = "opening" => ~closed /\ ~receiving)
    BY <1>5, Zenon DEF Send, Waiting, Via, At
  <2>4. StreamOnce'
    BY <2>1, <2>2, <2>3, ZenonT(60) DEF UDPInv, StreamOnce
  <2>5. ClosedFields'
    BY <2>1, <2>3 DEF UDPInv, ClosedFields
  <2> QED BY <2>1, <2>4, <2>5 DEF UDPInv, Numbered, Accounted
<1>6. ASSUME SendDirect PROVE UDPInv'
  BY <1>6
     DEF SendDirect, Waiting, At, udpFields, udpThings, UDPInv, Numbered, StreamOnce,
         ClosedFields, Accounted
<1>7. ASSUME SocketNotOpened PROVE UDPInv'
  BY <1>7
     DEF SocketNotOpened, Waiting, udpFields, udpThings, UDPInv, Numbered, StreamOnce,
         ClosedFields, Accounted
<1>8. ASSUME StreamOpened PROVE UDPInv'
  <2>1. PICK r \in Res : /\ Store(r) /\ stream' = r /\ open' = open \cup {r} /\ sender' = Via(r)
    BY <1>8 DEF StreamOpened
  <2>2. sender.at = "opening" /\ UNCHANGED <<closed, receiving, target, directConn, closing, listener>>
    BY <1>8 DEF StreamOpened
  <2>3. opened' = opened + 1 /\ r = opened + 1 /\ late' = IF closed THEN late \cup {r} ELSE late
    BY <2>1 DEF Store
  <2>4. sender'.at = "write"
    BY <2>1 DEF Via
  <2>5. late = {} /\ stream = 0 /\ receiving
    BY <2>2 DEF UDPInv, ClosedFields, StreamOnce
  <2>6. Numbered'
    BY <2>1, <2>2, <2>3 DEF UDPInv, Numbered
  <2>7. StreamOnce'
    BY <2>2, <2>4, <2>5 DEF StreamOnce
  <2>8. ClosedFields'
    BY <2>1, <2>2, <2>3, <2>4, <2>5 DEF UDPInv, ClosedFields
  <2>9. Accounted'
    <3>1. 0 \notin open
      BY DEF UDPInv, Numbered
    <3>2. open \subseteq {0, directConn} \cup closing
      BY <2>5 DEF UDPInv, Accounted
    <3> QED BY <2>1, <2>2, <3>1, <3>2, Zenon DEF Accounted
  <2> QED BY <2>2, <2>6, <2>7, <2>8, <2>9 DEF UDPInv
<1>9. ASSUME StreamNotOpened PROVE UDPInv'
  <2>1. Close /\ sender' = Waiting /\ UNCHANGED <<opened, open, late, listener>>
    BY <1>9 DEF StreamNotOpened, udpThings
  <2> QED BY <2>1, CloseKeeps DEF Waiting
<1>10. ASSUME BeginWrite \/ WriteStream PROVE UDPInv'
  <2>1. sender'.at \notin {"opening", "bind"} /\ UNCHANGED <<opened, open, late, listener>>
    <3>1. UNCHANGED <<opened, open, late, listener>>
      BY <1>10, Zenon DEF BeginWrite, WriteStream, udpThings
    <3>2. sender' = Waiting \/ sender' = At("writing")
      BY <1>10, Zenon DEF BeginWrite, WriteStream
    <3>3. sender'.at = "read" \/ sender'.at = "writing"
      <4>1. Waiting.at = "read" /\ At("writing").at = "writing"
        BY Zenon DEF Waiting, At
      <4> QED BY <3>2, <4>1, Zenon
    <3> QED BY <3>1, <3>3
  <2>2. CASE Close
    BY <2>1, <2>2, CloseKeeps
  <2>3. CASE UNCHANGED udpFields
    BY <2>1, <2>3 DEF udpFields, UDPInv, Numbered, StreamOnce, ClosedFields, Accounted
  <2> QED BY <1>10, <2>2, <2>3 DEF BeginWrite, WriteStream
<1>11. ASSUME SocketOpened PROVE UDPInv'
  <2>1. PICK r \in Res : /\ Store(r) /\ directConn' = r /\ open' = (open \ {directConn}) \cup {r}
    BY <1>11 DEF SocketOpened
  <2>2. /\ sender.at = "bind" /\ sender' = Waiting
        /\ UNCHANGED <<closed, receiving, target, stream, closing, listener>>
    BY <1>11 DEF SocketOpened
  <2>3. opened' = opened + 1 /\ r = opened + 1 /\ late' = IF closed THEN late \cup {r} ELSE late
    BY <2>1 DEF Store
  <2>4. sender'.at = "read"
    BY <2>2 DEF Waiting
  <2>5. late = {}
    BY <2>2 DEF UDPInv, ClosedFields
  <2>6. Numbered'
    BY <2>1, <2>2, <2>3 DEF UDPInv, Numbered
  <2>7. StreamOnce'
    BY <2>2, <2>4 DEF UDPInv, StreamOnce
  <2>8. ClosedFields'
    BY <2>1, <2>2, <2>3, <2>4, <2>5 DEF UDPInv, ClosedFields
  <2>9. Accounted'
    BY <2>1, <2>2 DEF UDPInv, Accounted
  <2> QED BY <2>2, <2>6, <2>7, <2>8, <2>9 DEF UDPInv
<1>12. ASSUME NEW r \in Res, StreamReadFails(r) PROVE UDPInv'
  <2>1. Close /\ UNCHANGED <<opened, open, late, listener, sender>>
    BY <1>12 DEF StreamReadFails, udpThings
  <2> QED BY <2>1, CloseKeeps
<1>13. ASSUME NEW r \in Res, SocketReadEnds(r) PROVE UDPInv'
  BY <1>13
     DEF SocketReadEnds, udpFields, udpThings, UDPInv, Numbered, StreamOnce, ClosedFields,
         Accounted
<1>14. ASSUME UNCHANGED udpVars PROVE UDPInv'
  BY <1>14
     DEF udpVars, udpFields, udpThings, UDPInv, Numbered, StreamOnce, ClosedFields, Accounted
<1> QED BY <1>1, <1>2, <1>3, <1>4, <1>5, <1>6, <1>7, <1>8, <1>9, <1>10, <1>11, <1>12, <1>13,
           <1>14
        DEF UDPNext, SenderStep

(***************************************************************************)
(* For any sequence of datagrams, replies, errors and calls of Close,      *)
(* everything that is open is in a field or about to be closed, and at     *)
(* most one stream or socket outlives Close (send, sendDirect, Close).     *)
(***************************************************************************)
THEOREM NothingLostSightOf == UDPSpec => []OpenIsAccounted
<1>1. UDPInv => OpenIsAccounted
  <2> SUFFICES ASSUME UDPInv PROVE OpenIsAccounted
    OBVIOUS
  <2>1. open \subseteq {stream, directConn} \cup closing
    BY DEF UDPInv, Accounted
  <2>2. closed /\ ~listener => open \subseteq late
    BY <2>1 DEF UDPInv, ClosedFields, Numbered
  <2>3. Cardinality(late) <= 1
    <3>1. CASE late = {}
      BY <3>1, FS_EmptySet
    <3>2. CASE \E r \in Res : late = {r}
      <4>1. PICK r \in Res : late = {r}
        BY <3>2
      <4>2. Cardinality({r}) = 1
        BY FS_Singleton
      <4> QED BY <4>1, <4>2
    <3> QED BY <3>1, <3>2 DEF UDPInv, ClosedFields
  <2> QED BY <2>1, <2>2, <2>3 DEF OpenIsAccounted
<1> QED BY <1>1, UDPInvInit, UDPInvStep, PTL DEF UDPSpec
=============================================================================
