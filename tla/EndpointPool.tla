---------------------------- MODULE EndpointPool ----------------------------
(***************************************************************************)
(* Where a client channel is dialled: the EndpointPool that rotates the    *)
(* addresses of -ip (internal/transport/rotation.go) and the host memory   *)
(* by which the transport selector skips QUIC after repeated failures      *)
(* (internal/transport/selector.go).  Both are shared by all dial          *)
(* goroutines; every call is one critical section.                         *)
(*                                                                         *)
(* Clocks are kept as ages: the time since the last failure, capped just   *)
(* above the cooldown, which is all that either component asks.            *)
(***************************************************************************)
EXTENDS Integers, FiniteSets

CONSTANTS N,              \* number of endpoints
          FailThreshold,  \* failThreshold: 3
          Cooldown,       \* cooldownPeriod, in ticks
          HostCooldown,   \* DefaultHostCooldown, in ticks
          Dialer          \* dial goroutines, one per slot of the pool

ASSUME EndpointAssumption ==
    /\ N \in Nat \ {0}
    /\ FailThreshold \in Nat \ {0} /\ Cooldown \in Nat /\ HostCooldown \in Nat \ {0}
    /\ IsFiniteSet(Dialer)

Endpoint == 0 .. N - 1
MaxConsecutiveFails == 2

VARIABLES
    healthy,       \* Endpoint.Healthy
    fails,         \* Endpoint.ConsecutiveFails, counted up to FailThreshold
    age,           \* time since Endpoint.LastFailTime, up to Cooldown + 1; nobody asks for
                   \* that of a healthy endpoint, which has Cooldown + 1
    currentIndex,  \* EndpointPool.currentIndex
    skipped,       \* selections of others since this endpoint was last selected or became available
    hostFails,     \* HostStatus.ConsecutiveFails, counted up to MaxConsecutiveFails
    hostAge,       \* time since HostStatus.LastFailTime, up to HostCooldown
    burst,         \* failures of QUIC since a success or the end of a cooldown, up to BurstCap
    mode,          \* -transport: auto, quic or tcp
    dialer         \* what each dial goroutine is doing, and its endpoint

rotationVars == <<healthy, fails, age, currentIndex, skipped>>
hostVars == <<hostFails, hostAge, burst>>
endpointVars == <<rotationVars, hostVars, mode, dialer>>

BurstCap == MaxConsecutiveFails + Cardinality(Dialer)

\* NewEndpointPool and NewHostMemoryCache.
EndpointInit ==
    /\ healthy = [e \in Endpoint |-> TRUE]
    /\ fails = [e \in Endpoint |-> 0]
    /\ age = [e \in Endpoint |-> Cooldown + 1]
    /\ currentIndex = 0
    /\ skipped = [e \in Endpoint |-> 0]
    /\ hostFails = 0 /\ hostAge = HostCooldown /\ burst = 0
    /\ mode \in {"auto", "quic", "tcp"}
    /\ dialer = [d \in Dialer |-> [at |-> "idle", endpoint |-> 0]]

Available(e) == healthy[e] \/ age[e] > Cooldown

\* The first available endpoint from currentIndex on.
RoundRobin(e) ==
    \E i \in 0 .. N - 1 :
        /\ e = (currentIndex + i) % N
        /\ Available(e)
        /\ \A j \in 0 .. i - 1 : ~Available((currentIndex + j) % N)

\* None is available: the one that failed first.  Failures within one tick are
\* in either order.
Oldest(e) ==
    /\ \A f \in Endpoint : ~Available(f)
    /\ \A f \in Endpoint : age[f] <= age[e]

CountSkips(e) ==
    skipped' = [f \in Endpoint |-> IF f # e /\ Available(f) THEN skipped[f] + 1 ELSE 0]

\* Mutant: the index stays on the endpoint that was selected.
SelectNextSticky(e) ==
    \/ RoundRobin(e) /\ CountSkips(e)
       /\ healthy' = [healthy EXCEPT ![e] = TRUE]
       /\ currentIndex' = e
       /\ UNCHANGED <<fails, age>>
    \/ Oldest(e) /\ CountSkips(e) /\ UNCHANGED <<healthy, fails, age, currentIndex>>

SelectNext(e) ==
    \/ RoundRobin(e) /\ CountSkips(e)
       /\ healthy' = [healthy EXCEPT ![e] = TRUE]   \* a cooled-down one is on probation
       /\ currentIndex' = (e + 1) % N
       /\ UNCHANGED <<fails, age>>
    \/ Oldest(e) /\ CountSkips(e) /\ UNCHANGED <<healthy, fails, age, currentIndex>>

RecordResult(e, success) ==
    /\ IF success
       THEN /\ fails' = [fails EXCEPT ![e] = 0]
            /\ healthy' = [healthy EXCEPT ![e] = TRUE]
            /\ age' = [age EXCEPT ![e] = Cooldown + 1]
            /\ UNCHANGED skipped
       ELSE LET n == IF fails[e] < FailThreshold THEN fails[e] + 1 ELSE fails[e] IN
            /\ fails' = [fails EXCEPT ![e] = n]
            /\ healthy' = [healthy EXCEPT ![e] = @ /\ n < FailThreshold]
            /\ age' = [age EXCEPT ![e] = IF healthy'[e] THEN @ ELSE 0]
            /\ skipped' = [skipped EXCEPT ![e] = IF n < FailThreshold THEN @ ELSE 0]
    /\ UNCHANGED currentIndex

ShouldTryQUIC == hostFails < MaxConsecutiveFails \/ hostAge >= HostCooldown

HostRecordSuccess == hostFails' = 0 /\ burst' = 0 /\ UNCHANGED hostAge

CountFailure ==
    /\ hostFails' = IF hostFails < MaxConsecutiveFails THEN hostFails + 1 ELSE hostFails
    /\ burst' = IF burst < BurstCap THEN burst + 1 ELSE burst

\* Mutant: the time of the first failure is kept.
HostRecordFailureKeepsTime == CountFailure /\ hostAge' = IF hostFails = 0 THEN 0 ELSE hostAge

HostRecordFailure == CountFailure /\ hostAge' = 0

(***************************************************************************)
(* A dial goroutine: select an endpoint, dial it as the mode and the host  *)
(* memory say, negotiate, and record the result.                           *)
(***************************************************************************)
DialerAt(d, at) == dialer' = [dialer EXCEPT ![d].at = at]

\* The endpoint is chosen, and then dialAuto asks the host memory; nothing that
\* touches the one touches the other.
BeginDial(d) ==
    /\ dialer[d].at = "idle"
    /\ \E e \in Endpoint :
           /\ SelectNext(e)
           /\ dialer' = [dialer EXCEPT ![d] =
                  [at |-> IF mode = "quic" \/ (mode = "auto" /\ ShouldTryQUIC) THEN "quic" ELSE "dialed",
                   endpoint |-> e]]
    /\ UNCHANGED <<hostVars, mode>>

\* Only dialAuto keeps the host memory.  After a failure it falls back to TCP, whose
\* dial, like one without QUIC, ends in EndDial.
QuicDialed(d) ==
    /\ dialer[d].at = "quic" /\ mode = "auto"
    /\ HostRecordSuccess
    /\ DialerAt(d, "dialed")
    /\ UNCHANGED <<rotationVars, mode>>

QuicFailed(d) ==
    /\ dialer[d].at = "quic" /\ mode = "auto"
    /\ HostRecordFailure
    /\ DialerAt(d, "dialed")
    /\ UNCHANGED <<rotationVars, mode>>

\* The dial or the negotiation has failed, or the channel is ready.
EndDial(d) ==
    /\ dialer[d].at = "dialed" \/ (dialer[d].at = "quic" /\ mode = "quic")
    /\ \E ok \in BOOLEAN : RecordResult(dialer[d].endpoint, ok)
    /\ dialer' = [dialer EXCEPT ![d] = [at |-> "idle", endpoint |-> 0]]
    /\ UNCHANGED <<hostVars, mode>>

\* The clocks move on.
EndpointTick ==
    /\ age' = [e \in Endpoint |-> IF age[e] <= Cooldown THEN age[e] + 1 ELSE age[e]]
    /\ hostAge' = IF hostAge < HostCooldown THEN hostAge + 1 ELSE hostAge
    /\ <<age', hostAge'>> # <<age, hostAge>>
    /\ burst' = IF hostAge' = HostCooldown /\ hostAge # HostCooldown THEN 0 ELSE burst
    /\ UNCHANGED <<healthy, fails, currentIndex, skipped, hostFails, mode, dialer>>

EndpointNext ==
    \/ \E d \in Dialer : \/ BeginDial(d) \/ QuicDialed(d) \/ QuicFailed(d) \/ EndDial(d)
    \/ EndpointTick

EndpointSpec == EndpointInit /\ [][EndpointNext]_endpointVars

EndpointTypeOK ==
    /\ healthy \in [Endpoint -> BOOLEAN]
    /\ fails \in [Endpoint -> 0 .. FailThreshold]
    /\ age \in [Endpoint -> 0 .. Cooldown + 1]
    /\ currentIndex \in Endpoint
    /\ skipped \in [Endpoint -> Nat]
    /\ hostFails \in 0 .. MaxConsecutiveFails /\ hostAge \in 0 .. HostCooldown
    /\ burst \in 0 .. BurstCap
    /\ mode \in {"auto", "quic", "tcp"}
    /\ dialer \in [Dialer -> [at : {"idle", "quic", "dialed"}, endpoint : Endpoint]]

(***************************************************************************)
(* However the calls of several dial goroutines mix with failures, and     *)
(* with cooldowns that end, an endpoint that stays available is passed     *)
(* over at most once for each other endpoint before SelectNext returns it. *)
(***************************************************************************)
NoEndpointStarves == \A e \in Endpoint : skipped[e] < N

(***************************************************************************)
(* Between two successes or cooldowns QUIC fails at most as often as it    *)
(* takes to start the cooldown and once more for every other goroutine     *)
(* that was already dialling: nothing that is recorded late reopens QUIC   *)
(* before its time (ShouldTryQUIC and RecordFailure are separate critical  *)
(* sections with a whole dial in between).                                 *)
(***************************************************************************)
FailuresPerCooldown == burst <= MaxConsecutiveFails + Cardinality(Dialer) - 1
=============================================================================
