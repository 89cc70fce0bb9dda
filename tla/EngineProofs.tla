---------------------------- MODULE EngineProofs ----------------------------
(***************************************************************************)
(* Proofs about the engine and what it holds beside the tunnel: the GEO    *)
(* databases and the DNS cache.  They hold for all sets of listeners, dial *)
(* goroutines, calls of Close and callers, and any number of updates and   *)
(* entries.                                                                *)
(***************************************************************************)
EXTENDS Engine, GeoUpdate, DNSCache, TLAPS

(***************************************************************************)
(* Engine: e.done is closed at most once, nothing is left bound when it    *)
(* is, and a Close that shut down a running engine leaves neither a dial   *)
(* goroutine nor an open route engine.                                     *)
(***************************************************************************)
Starting == {"early", "route", "pool", "poolStart", "listen"}

\* Who may still close e.done.  Before Start it is the first Close; afterwards
\* abortStart or finishWhenDone, and never both.
DoneOwned ==
    /\ started <=> starter \notin {"new", "refused"}
    /\ starter = "refused" => closed
    /\ starter = "new" /\ ~closed => done = 0
    /\ starter \in Starting \cup {"aborting", "abortPool", "abortUndo", "abandoned"} => done = 0
    /\ starter \in {"abortPool", "abortUndo"} => closed
    /\ finisher = "none" <=> starter # "ok"
    /\ finisher = "waiting" => done = 0

\* A port that is bound is tracked or about to be, and the log output that is
\* redirected has someone to restore it.
Tracked ==
    /\ \A l \in Listener : lis[l] = "up" => l \in listeners \/ binding = l
    /\ binding # None => starter \in {"early", "listen"}
    /\ starter \in {"new", "refused"} => ~logSink /\ \A l \in Listener : lis[l] # "up"
    /\ starter = "abortUndo" => abortLate \/ \A l \in Listener : lis[l] # "up"
    /\ logSink => logUndo \/ starter \in {"abortPool", "abortUndo"}

\* What the Close that shut down a running engine has taken and waited for.
Taken ==
    /\ \A w \in Worker : worker[w] # "none" => echPool
    /\ starter = "poolStart" => echPool
    /\ ~closed /\ route = "open" => routeEngine
    /\ \A c \in Closer :
          /\ closer[c] = "new" => first[c] = "no"
          /\ first[c] = "ok" =>
                /\ starter = "ok"
                /\ route = "open" => hasRoute[c] /\ closer[c] \in {"cancel", "pool", "route"}
                /\ closer[c] \in {"route", "waiting", "ok"} /\ ~late[c] => PoolEnded

EngineInv == TypeOK /\ DoneOwned /\ Tracked /\ DoneMeansStopped /\ Taken
-----------------------------------------------------------------------------
\* A new engine satisfies the invariant (engine.go, NewEngine).
LEMMA EngineInitially == Init => EngineInv
<1> SUFFICES ASSUME Init PROVE EngineInv
  OBVIOUS
<1>1. TypeOK
  BY DEF Init, TypeOK, StartPhase
<1>2. DoneOwned /\ Tracked /\ DoneMeansStopped
  BY EngineAssumption DEF Init, DoneOwned, Starting, Tracked, DoneMeansStopped
<1>3. Taken
  BY DEF Init, Taken, PoolEnded
<1>4. QED
  BY <1>1, <1>2, <1>3 DEF EngineInv

\* The steps of Start and abortStart preserve the invariant.
LEMMA StartKeeps ==
    ASSUME EngineInv, BeginStart \/ StartStep \/ StartFails \/ AbortWaited(TRUE)
    PROVE  EngineInv'
<1> USE EngineAssumption
<1>1. CASE BeginStart
  <2>1. TypeOK'
    <3>1. started' \in BOOLEAN
      BY <1>1 DEF EngineInv, TypeOK, BeginStart, calls
    <3>2. logUndo' \in BOOLEAN
      BY <1>1 DEF EngineInv, TypeOK, BeginStart, calls
    <3>3. logSink' \in BOOLEAN
      BY <1>1 DEF EngineInv, TypeOK, BeginStart, calls
    <3> QED
      BY <1>1, <3>1, <3>2, <3>3 DEF EngineInv, TypeOK, StartPhase, BeginStart, calls
  <2>2. DoneOwned'
    BY <1>1 DEF EngineInv, TypeOK, StartPhase, DoneOwned, Starting, BeginStart, calls
  <2>3. Tracked'
    BY <1>1 DEF EngineInv, TypeOK, DoneOwned, Starting, Tracked, BeginStart, calls
  <2>4. DoneMeansStopped'
    BY <1>1 DEF EngineInv, TypeOK, DoneOwned, Starting, Tracked, DoneMeansStopped, BeginStart,
                calls
  <2>5. Taken'
    BY <1>1 DEF EngineInv, TypeOK, DoneOwned, Starting, Taken, PoolEnded, BeginStart, calls
  <2> QED
    BY <2>1, <2>2, <2>3, <2>4, <2>5 DEF EngineInv
<1>2. CASE \E l \in Listener : Bind(l)
  BY <1>2 DEF EngineInv, TypeOK, StartPhase, DoneOwned, Starting, Tracked, DoneMeansStopped, Taken,
              PoolEnded, Bind, ToBind, fields, calls
<1>3. CASE TrackListener
  BY <1>3 DEF EngineInv, TypeOK, StartPhase, DoneOwned, Starting, Tracked, DoneMeansStopped, Taken,
              PoolEnded, TrackListener, world, calls
<1>4. CASE EarlyDone
  BY <1>4 DEF EngineInv, TypeOK, StartPhase, DoneOwned, Starting, Tracked, DoneMeansStopped, Taken,
              PoolEnded, EarlyDone, fields, world, calls
<1>5. CASE \E enabled \in BOOLEAN : InitRoute(enabled)
  BY <1>5 DEF EngineInv, TypeOK, StartPhase, DoneOwned, Starting, Tracked, DoneMeansStopped, Taken,
              PoolEnded, InitRoute, calls
<1>6. CASE SetPool
  BY <1>6 DEF EngineInv, TypeOK, StartPhase, DoneOwned, Starting, Tracked, DoneMeansStopped, Taken,
              PoolEnded, SetPool, world, calls
<1>7. CASE StartPool
  <2>1. TypeOK'
    BY <1>7 DEF EngineInv, TypeOK, StartPhase, StartPool, fields, calls
  <2>2. DoneOwned'
    BY <1>7 DEF EngineInv, TypeOK, StartPhase, DoneOwned, Starting, StartPool, fields, calls
  <2>3. Tracked'
    BY <1>7 DEF EngineInv, TypeOK, DoneOwned, Starting, Tracked, StartPool, fields, calls
  <2>4. DoneMeansStopped'
    BY <1>7 DEF EngineInv, TypeOK, DoneOwned, Starting, Tracked, DoneMeansStopped, StartPool,
                fields, calls
  <2>5. Taken'
    BY <1>7 DEF EngineInv, TypeOK, DoneOwned, Starting, Taken, PoolEnded, StartPool, fields, calls
  <2> QED
    BY <2>1, <2>2, <2>3, <2>4, <2>5 DEF EngineInv
<1>8. CASE StartReturns
  BY <1>8 DEF EngineInv, TypeOK, StartPhase, DoneOwned, Starting, Tracked, DoneMeansStopped, Taken,
              PoolEnded, StartReturns, fields, world, calls
<1>9. CASE StartFails
  BY <1>9 DEF EngineInv, TypeOK, StartPhase, DoneOwned, Starting, Tracked, DoneMeansStopped, Taken,
              PoolEnded, StartFails, fields, world, calls
<1>10. CASE Abort
  <2>1. TypeOK'
    <3>1. closed' \in BOOLEAN
      BY <1>10 DEF EngineInv, TypeOK, Abort, world, calls
    <3>2. cancelled' \in BOOLEAN
      BY <1>10 DEF EngineInv, TypeOK, Abort, world, calls
    <3>3. logUndo' \in BOOLEAN
      BY <1>10 DEF EngineInv, TypeOK, Abort, world, calls
    <3> QED
      BY <1>10, <3>1, <3>2, <3>3 DEF EngineInv, TypeOK, StartPhase, Abort, world, calls
  <2>2. DoneOwned'
    BY <1>10 DEF EngineInv, TypeOK, StartPhase, DoneOwned, Starting, Abort, world, calls
  <2>3. Tracked'
    BY <1>10 DEF EngineInv, TypeOK, DoneOwned, Starting, Tracked, Abort, world, calls
  <2>4. DoneMeansStopped'
    BY <1>10 DEF EngineInv, TypeOK, DoneOwned, Starting, Tracked, DoneMeansStopped, Abort,
                 world, calls
  <2>5. Taken'
    BY <1>10 DEF EngineInv, TypeOK, DoneOwned, Starting, Taken, PoolEnded, Abort, world, calls
  <2> QED
    BY <2>1, <2>2, <2>3, <2>4, <2>5 DEF EngineInv
<1>11. CASE \E expired \in BOOLEAN : AbortWaited(expired)
  BY <1>11 DEF EngineInv, TypeOK, StartPhase, DoneOwned, Starting, Tracked, DoneMeansStopped,
               Taken,
               PoolEnded, WgZero, AbortWaited, fields, world, calls
<1>12. CASE AbortDone
  <2>1. TypeOK'
    <3>1. logSink' \in BOOLEAN
      BY <1>12 DEF EngineInv, TypeOK, AbortDone, calls
    <3> QED
      BY <1>12, <3>1 DEF EngineInv, TypeOK, StartPhase, DoneOwned, Starting, AbortDone, calls
  <2>2. DoneOwned'
    BY <1>12 DEF EngineInv, TypeOK, StartPhase, DoneOwned, Starting, AbortDone, calls
  <2>3. Tracked'
    BY <1>12 DEF EngineInv, TypeOK, DoneOwned, Starting, Tracked, AbortDone, calls
  <2>4. DoneMeansStopped'
    BY <1>12 DEF EngineInv, TypeOK, DoneOwned, Starting, Tracked, DoneMeansStopped, AbortDone,
                 calls
  <2>5. Taken'
    BY <1>12 DEF EngineInv, TypeOK, DoneOwned, Starting, Taken, PoolEnded, AbortDone, calls
  <2> QED
    BY <2>1, <2>2, <2>3, <2>4, <2>5 DEF EngineInv
<1>13. QED
  BY <1>1, <1>2, <1>3, <1>4, <1>5, <1>6, <1>7, <1>8, <1>9, <1>10, <1>11, <1>12 DEF StartStep

\* The steps of Close preserve the invariant.
LEMMA CloseKeeps ==
    ASSUME EngineInv, NEW c \in Closer, BeginClose(c) \/ CloseStep(c) \/ CloserExpires(c)
    PROVE  EngineInv'
<1>1. CASE BeginClose(c)
  <2>1. TypeOK'
    <3>1. closed' \in BOOLEAN
      BY <1>1 DEF EngineInv, TypeOK, BeginClose, world, start
    <3>2. routeEngine' \in BOOLEAN
      BY <1>1 DEF EngineInv, TypeOK, BeginClose, world, start
    <3> QED
      BY <1>1, <3>1, <3>2 DEF EngineInv, TypeOK, StartPhase, DoneOwned, Starting, BeginClose,
                              world, start
  <2>2. DoneOwned'
    BY <1>1 DEF EngineInv, TypeOK, StartPhase, DoneOwned, Starting, BeginClose, world, start
  <2>3. Tracked'
    BY <1>1 DEF EngineInv, TypeOK, DoneOwned, Starting, Tracked, BeginClose, world, start
  <2>4. DoneMeansStopped'
    BY <1>1 DEF EngineInv, TypeOK, DoneOwned, Starting, Tracked, DoneMeansStopped, BeginClose,
                world, start
  <2>5. Taken'
    BY <1>1 DEF EngineInv, TypeOK, DoneOwned, Starting, Taken, PoolEnded, BeginClose, world, start
  <2> QED
    BY <2>1, <2>2, <2>3, <2>4, <2>5 DEF EngineInv
<1>2. CASE CancelAndReadPool(c)
  <2>1. TypeOK'
    BY <1>2 DEF EngineInv, TypeOK, CancelAndReadPool, world, start
  <2>2. DoneOwned' /\ Tracked' /\ DoneMeansStopped'
    BY <1>2 DEF EngineInv, DoneOwned, Starting, Tracked, DoneMeansStopped,
                CancelAndReadPool, world, start
  <2>3. Taken'
    BY <1>2 DEF EngineInv, TypeOK, Taken, PoolEnded, CancelAndReadPool, world, start
  <2> QED
    BY <2>1, <2>2, <2>3, Zenon DEF EngineInv
<1>3. CASE PoolWaited(c)
  <2>1. TypeOK'
    BY <1>3 DEF EngineInv, TypeOK, PoolWaited, fields, world, start
  <2>2. DoneOwned' /\ Tracked' /\ DoneMeansStopped'
    BY <1>3 DEF EngineInv, DoneOwned, Starting, Tracked, DoneMeansStopped,
                PoolWaited, fields, world, start
  <2>3. Taken'
    BY <1>3 DEF EngineInv, TypeOK, Taken, PoolEnded, PoolWaited, fields, world, start
  <2> QED
    BY <2>1, <2>2, <2>3, Zenon DEF EngineInv
<1>4. CASE CloseRouteAndListeners(c)
  <2>1. TypeOK'
    BY <1>4 DEF EngineInv, TypeOK, CloseRouteAndListeners, fields, start
  <2>2. DoneOwned' /\ Tracked' /\ DoneMeansStopped'
    BY <1>4 DEF EngineInv, DoneOwned, Starting, Tracked, DoneMeansStopped,
                CloseRouteAndListeners, fields, start
  <2>3. Taken'
    BY <1>4 DEF EngineInv, TypeOK, Taken, PoolEnded, CloseRouteAndListeners, fields, start
  <2> QED
    BY <2>1, <2>2, <2>3, Zenon DEF EngineInv
<1>5. CASE CloseReturns(c)
  <2>1. TypeOK'
    BY <1>5 DEF EngineInv, TypeOK, CloseReturns, fields, world, start
  <2>2. DoneOwned' /\ Tracked' /\ DoneMeansStopped'
    BY <1>5 DEF EngineInv, DoneOwned, Starting, Tracked, DoneMeansStopped,
                CloseReturns, fields, world, start
  <2>3. Taken'
    BY <1>5 DEF EngineInv, TypeOK, Taken, PoolEnded, CloseReturns, fields, world, start
  <2> QED
    BY <2>1, <2>2, <2>3, Zenon DEF EngineInv
<1>6. CASE CloserExpires(c)
  <2>1. TypeOK'
    BY <1>6 DEF EngineInv, TypeOK, CloserExpires, fields, world, start
  <2>2. DoneOwned' /\ Tracked' /\ DoneMeansStopped'
    BY <1>6 DEF EngineInv, DoneOwned, Starting, Tracked, DoneMeansStopped,
                CloserExpires, fields, world, start
  <2>3. Taken'
    BY <1>6 DEF EngineInv, TypeOK, Taken, PoolEnded, CloserExpires, fields, world, start
  <2> QED
    BY <2>1, <2>2, <2>3, Zenon DEF EngineInv
<1>7. QED
  BY <1>1, <1>2, <1>3, <1>4, <1>5, <1>6 DEF CloseStep

\* Every step preserves the invariant: beside Start and Close, finishWhenDone,
\* the context, the listeners and the dial goroutines.
LEMMA EngineStep == EngineInv /\ [Next]_vars => EngineInv'
<1> SUFFICES ASSUME EngineInv, [Next]_vars PROVE EngineInv'
  OBVIOUS
<1>1. CASE BeginStart \/ StartStep \/ StartFails \/ AbortWaited(TRUE)
  BY <1>1, StartKeeps
<1>2. CASE \E c \in Closer : BeginClose(c) \/ CloseStep(c) \/ CloserExpires(c)
  BY <1>2, CloseKeeps
<1>3. CASE Finish
  <2>1. TypeOK'
    <3>1. logUndo' \in BOOLEAN
      BY <1>3 DEF EngineInv, TypeOK, Finish, calls
    <3>2. logSink' \in BOOLEAN
      BY <1>3 DEF EngineInv, TypeOK, Finish, calls
    <3> QED
      BY <1>3, <3>1, <3>2 DEF EngineInv, TypeOK, StartPhase, DoneOwned, Starting, Finish, calls
  <2>2. DoneOwned'
    BY <1>3 DEF EngineInv, TypeOK, StartPhase, DoneOwned, Starting, Finish, calls
  <2>3. Tracked'
    BY <1>3 DEF EngineInv, TypeOK, DoneOwned, Starting, Tracked, WgZero, Finish, calls
  <2>4. DoneMeansStopped'
    <3>1. starter = "ok" /\ binding = None
      BY <1>3 DEF EngineInv, DoneOwned, Tracked, Finish
    <3>2. ~logSink'
      BY <1>3, <3>1 DEF EngineInv, TypeOK, Tracked, Finish
    <3>3. \A l \in Listener : lis'[l] # "up"
      BY <1>3, <3>1, EngineAssumption DEF EngineInv, TypeOK, Tracked, WgZero, Finish
    <3> QED
      BY <3>2, <3>3 DEF DoneMeansStopped
  <2>5. Taken'
    BY <1>3 DEF EngineInv, TypeOK, DoneOwned, Starting, Taken, PoolEnded, Finish, calls
  <2> QED
    BY <2>1, <2>2, <2>3, <2>4, <2>5 DEF EngineInv
<1>4. CASE Cancel
  <2>1. TypeOK'
    BY <1>4 DEF EngineInv, TypeOK, Cancel, world, start, calls
  <2>2. DoneOwned' /\ Tracked' /\ DoneMeansStopped'
    BY <1>4 DEF EngineInv, DoneOwned, Starting, Tracked, DoneMeansStopped, Cancel, world, start, calls
  <2>3. Taken'
    BY <1>4 DEF EngineInv, TypeOK, Taken, PoolEnded, Cancel, world, start, calls
  <2> QED
    BY <2>1, <2>2, <2>3, Zenon DEF EngineInv
<1>5. CASE ReportFatal
  <2>1. TypeOK'
    <3>1. fatal' \in BOOLEAN
      BY <1>5 DEF EngineInv, TypeOK, ReportFatal, start, calls
    <3>2. cancelled' \in BOOLEAN
      BY <1>5 DEF EngineInv, TypeOK, ReportFatal, start, calls
    <3> QED
      BY <1>5, <3>1, <3>2 DEF EngineInv, TypeOK, StartPhase, ReportFatal, start, calls
  <2>2. DoneOwned'
    BY <1>5 DEF EngineInv, TypeOK, StartPhase, DoneOwned, Starting, ReportFatal, start, calls
  <2>3. Tracked'
    BY <1>5 DEF EngineInv, TypeOK, DoneOwned, Starting, Tracked, ReportFatal, start, calls
  <2>4. DoneMeansStopped'
    BY <1>5 DEF EngineInv, TypeOK, DoneOwned, Starting, Tracked, DoneMeansStopped, ReportFatal,
                start, calls
  <2>5. Taken'
    BY <1>5 DEF EngineInv, TypeOK, DoneOwned, Starting, Taken, PoolEnded, ReportFatal, start, calls
  <2> QED
    BY <2>1, <2>2, <2>3, <2>4, <2>5 DEF EngineInv
<1>6. CASE \E l \in Listener : ListenerFinishes(l) \/ ListenerFails(l)
  <2>0. PICK l \in Listener : ListenerFinishes(l) \/ ListenerFails(l)
    BY <1>6, Zenon
  <2>1. /\ lis' = [lis EXCEPT ![l] = "finished"]
        /\ UNCHANGED <<fields, isServer, worker, route, logSink, start, calls>>
    BY <2>0, Zenon DEF ListenerFinishes, ListenerFails
  <2>2. TypeOK'
    <3>1. fatal' \in BOOLEAN
      BY <2>0, Zenon DEF EngineInv, TypeOK, ListenerFinishes, ListenerFails
    <3>2. lis' \in [Listener -> {"none", "up", "finished"}]
      BY <2>1 DEF EngineInv, TypeOK
    <3> QED
      BY <2>1, <3>1, <3>2 DEF EngineInv, TypeOK, fields, start, calls
  <2>3. DoneOwned' /\ Tracked'
    BY <2>1 DEF EngineInv, TypeOK, DoneOwned, Starting, Tracked, fields, start, calls
  <2>4. DoneMeansStopped' /\ Taken'
    BY <2>1 DEF EngineInv, TypeOK, DoneMeansStopped, Taken, PoolEnded, fields, start, calls
  <2> QED
    BY <2>2, <2>3, <2>4, Zenon DEF EngineInv
<1>7. CASE \E w \in Worker : WorkerEnds(w)
  <2>1. TypeOK'
    BY <1>7 DEF EngineInv, TypeOK, StartPhase, WorkerEnds, fields, start, calls
  <2>2. DoneOwned' /\ Tracked'
    BY <1>7 DEF EngineInv, TypeOK, DoneOwned, Starting, Tracked, WorkerEnds, fields, start, calls
  <2>3. DoneMeansStopped' /\ Taken'
    BY <1>7 DEF EngineInv, TypeOK, DoneMeansStopped, Taken, PoolEnded, WorkerEnds, fields, start, calls
  <2> QED
    BY <2>1, <2>2, <2>3, Zenon DEF EngineInv
<1>8. CASE UNCHANGED vars
  <2>1. TypeOK'
    BY <1>8 DEF EngineInv, TypeOK, StartPhase, vars, fields, world, start, calls
  <2>2. DoneOwned' /\ Tracked'
    BY <1>8 DEF EngineInv, TypeOK, DoneOwned, Starting, Tracked, vars, fields, world, start, calls
  <2>3. DoneMeansStopped' /\ Taken'
    BY <1>8 DEF EngineInv, TypeOK, DoneMeansStopped, Taken, PoolEnded, vars, fields, world, start, calls
  <2> QED
    BY <2>1, <2>2, <2>3, Zenon DEF EngineInv
<1>9. QED
  BY <1>1, <1>2, <1>3, <1>4, <1>5, <1>6, <1>7, <1>8 DEF Next

\* The invariant holds throughout.
LEMMA EngineAlways == Spec => []EngineInv
BY EngineInitially, EngineStep, PTL DEF Spec

\* e.done is closed at most once, whichever of Close, abortStart and
\* finishWhenDone gets there: a second close of the channel would panic.
THEOREM DoneClosedOnce == Spec => []TypeOK
<1>1. EngineInv => TypeOK
  BY DEF EngineInv
<1>2. QED
  BY <1>1, EngineAlways, PTL

\* When e.done is closed no listener is bound and the log output is restored,
\* unless abortStart ran into its timeout.
THEOREM StoppedWhenDone == Spec => []DoneMeansStopped
<1>1. EngineInv => DoneMeansStopped
  BY DEF EngineInv
<1>2. QED
  BY <1>1, EngineAlways, PTL

\* A Close in time of an engine that was running leaves no dial goroutine and
\* no open route engine, however many other calls of Close there are.
THEOREM CloseLeavesNothing == Spec => []CloseStopsAll
<1>1. EngineInv => CloseStopsAll
  BY DEF EngineInv, Taken, CloseStopsAll
<1>2. QED
  BY <1>1, EngineAlways, PTL

(***************************************************************************)
(* GeoUpdate: the databases on disk and in memory.                         *)
(***************************************************************************)
\* Goroutine u will load database d: it is past the file and has written something, or
\* is between the two loads.  After geosite it may still fail, after the other no more.
WillLoad(u, d) ==
    \/ update[u].updated /\ update[u].at = "end"
    \/ update[u].updated /\ update[u].at = "ip" /\ d = "site"
    \/ d = "ip" /\ update[u].at = "load"

\* What is not loaded will be, unless it could not be read, or is the geosite that a call
\* that failed has left behind.
LoadPending ==
    \A d \in Db : /\ d \in unread => loaded[d] = 0
                  /\ \/ d \in unread \/ loaded[d] = disk[d]
                     \/ d = "site" /\ partial
                     \/ \E u \in Updater : WillLoad(u, d)

GeoInv == GeoTypeOK /\ LoadPending

\* NewEngine has loaded what geoDir holds.
LEMMA GeoInvInit == GeoInit => GeoInv
<1> SUFFICES ASSUME GeoInit PROVE GeoInv
  OBVIOUS
<1>1. \A r \in {"none", "ok", "error"} : NotRunning(r) \in UpdateState
  BY GeoAssumption DEF NotRunning, UpdateState
<1>2. update \in [Updater -> UpdateState]
  BY <1>1 DEF GeoInit
<1>3. GeoTypeOK
  <2>1. {0, 1} \subseteq 0 .. MaxOffer /\ 1 \in 1 .. MaxOffer /\ 0 \in 0 .. Attempts
    BY GeoAssumption
  <2>2. disk \in [Db -> 0 .. MaxOffer] /\ loaded \in [Db -> 0 .. MaxOffer] /\ unread \subseteq Db
    BY <2>1 DEF GeoInit
  <2>3. offer \in [Db -> 1 .. MaxOffer]
    BY <2>1 DEF GeoInit
  <2> QED BY <1>2, <2>1, <2>2, <2>3 DEF GeoInit, GeoTypeOK
<1>4. LoadPending
  BY DEF GeoInit, LoadPending
<1> QED BY <1>3, <1>4 DEF GeoInv

\* A goroutine that is not the one that moves will load what it would have loaded.
LEMMA OthersWillLoad ==
    ASSUME NEW u \in Updater, \A v \in Updater : v # u => update'[v] = update[v]
    PROVE  \A v \in Updater, d \in Db : v # u /\ WillLoad(v, d) => WillLoad(v, d)'
BY DEF WillLoad

\* A step that writes and loads nothing keeps the promise if nobody gives up what it will load.
LEMMA PendingKept ==
    ASSUME LoadPending, UNCHANGED <<disk, loaded, unread>>, partial => partial',
           \A v \in Updater, d \in Db : WillLoad(v, d) => WillLoad(v, d)' \/ (d = "site" /\ partial')
    PROVE  LoadPending'
<1> SUFFICES ASSUME NEW d \in Db
             PROVE  /\ d \in unread' => loaded'[d] = 0
                    /\ \/ d \in unread' \/ loaded'[d] = disk'[d]
                       \/ d = "site" /\ partial'
                       \/ \E u \in Updater : WillLoad(u, d)'
  BY DEF LoadPending
<1>1. /\ d \in unread => loaded[d] = 0
      /\ d \in unread \/ loaded[d] = disk[d] \/ (d = "site" /\ partial) \/ \E u \in Updater : WillLoad(u, d)
  BY Zenon DEF LoadPending
<1> QED BY <1>1, Zenon

\* loadGeoDBs touches one database: it is what the file holds, or it is unread and nil.
LEMMA LoadGeoEffect ==
    ASSUME GeoTypeOK, NEW d \in Db, LoadGeo(d)
    PROVE  /\ loaded' \in [Db -> 0 .. MaxOffer] /\ unread' \subseteq Db
           /\ d \in unread' => loaded'[d] = 0
           /\ d \in unread' \/ loaded'[d] = disk[d]
           /\ \A e \in Db : e # d => loaded'[e] = loaded[e] /\ (e \in unread' <=> e \in unread)
<1> USE GeoAssumption
<1>1. /\ loaded \in [Db -> 0 .. MaxOffer] /\ unread \subseteq Db
      /\ disk[d] \in 0 .. MaxOffer /\ 0 \in 0 .. MaxOffer
  BY DEF GeoTypeOK
<1>2. CASE loaded' = [loaded EXCEPT ![d] = disk[d]] /\ unread' = unread \ {d}
  BY <1>1, <1>2
<1>3. CASE loaded' = [loaded EXCEPT ![d] = 0] /\ unread' = unread \cup {d}
  BY <1>1, <1>3
<1> QED BY <1>2, <1>3 DEF LoadGeo

\* Every step of an update keeps the promise that what was written is loaded.
LEMMA GeoInvStep == GeoInv /\ [GeoNext]_geoVars => GeoInv'
<1> SUFFICES ASSUME GeoInv, [GeoNext]_geoVars PROVE GeoInv'
  OBVIOUS
<1> USE GeoAssumption
<1>t. GeoTypeOK /\ LoadPending
  BY DEF GeoInv
<1>n. \A r \in {"none", "ok", "error"} : NotRunning(r) \in UpdateState
  BY DEF NotRunning, UpdateState
<1>r. \A at \in {"idle", "end", "load"} \cup Db, b \in BOOLEAN : Running(at, b) \in UpdateState
  BY DEF Running, UpdateState
<1>1. ASSUME NEW u \in Updater, BeginUpdate(u) PROVE GeoInv'
  <2>1. /\ update[u].at = "idle" /\ UNCHANGED <<offer, disk, loaded, unread, partial>>
        /\ \A v \in Updater : v # u => update'[v] = update[v]
    BY <1>1, <1>t DEF BeginUpdate, GeoTypeOK
  <2>2. Running("site", FALSE) \in UpdateState
    BY <1>r DEF Db
  <2>3. GeoTypeOK'
    <3>1. attempt' \in 0 .. Attempts
      BY <1>1, <1>t DEF BeginUpdate, GeoTypeOK
    <3>2. update' \in [Updater -> UpdateState]
      BY <1>1, <1>t, <2>2 DEF BeginUpdate, GeoTypeOK
    <3> QED BY <1>t, <2>1, <3>1, <3>2 DEF GeoTypeOK
  <2>4. \A d \in Db : ~WillLoad(u, d)
    BY <2>1 DEF WillLoad
  <2>5. \A v \in Updater, d \in Db : WillLoad(v, d) => WillLoad(v, d)'
    BY <2>1, <2>4, OthersWillLoad, Zenon
  <2>6. LoadPending'
    BY <1>t, <2>1, <2>5, PendingKept, Zenon
  <2> QED BY <2>3, <2>6 DEF GeoInv
<1>2. ASSUME NEW u \in Updater, Download(u) PROVE GeoInv'
  <2>1. /\ UNCHANGED <<offer, disk, loaded, unread, attempt, partial>>
        /\ update'[u].at = update[u].at /\ update'[u].updated = update[u].updated
        /\ \A v \in Updater : v # u => update'[v] = update[v]
    BY <1>2, <1>t DEF Download, GeoTypeOK, UpdateState
  <2>2. offer[update[u].at] \in 0 .. MaxOffer
    BY <1>2, <1>t DEF Download, GeoTypeOK
  <2>3. GeoTypeOK'
    BY <1>2, <1>t, <2>1, <2>2 DEF Download, GeoTypeOK, UpdateState
  <2>4. \A v \in Updater, d \in Db : WillLoad(v, d) => WillLoad(v, d)'
    BY <2>1 DEF WillLoad
  <2>5. LoadPending'
    BY <1>t, <2>1, <2>4, PendingKept, Zenon
  <2> QED BY <2>3, <2>5 DEF GeoInv
<1>3. ASSUME NEW u \in Updater, UpdateFails(u) PROVE GeoInv'
  <2>1. /\ update[u].at \in Db /\ UNCHANGED <<offer, disk, loaded, unread, attempt>>
        /\ partial' = (partial \/ update[u].updated)
        /\ \A v \in Updater : v # u => update'[v] = update[v]
    BY <1>3, <1>t DEF UpdateFails, GeoTypeOK
  <2>2. GeoTypeOK'
    <3>1. partial' \in BOOLEAN
      BY <2>1
    <3> QED BY <1>3, <1>t, <1>n, <2>1, <3>1 DEF UpdateFails, GeoTypeOK
  <2>3. LoadPending'
    <3>1. ASSUME NEW d \in Db, WillLoad(u, d) PROVE d = "site" /\ partial'
      BY <2>1, <3>1 DEF WillLoad, Db
    <3>2. partial => partial'
      BY <2>1
    <3>3. \A v \in Updater, d \in Db : WillLoad(v, d) => WillLoad(v, d)' \/ (d = "site" /\ partial')
      BY <2>1, <3>1, OthersWillLoad, Zenon
    <3> QED BY <1>t, <2>1, <3>2, <3>3, PendingKept, Zenon
  <2> QED BY <2>2, <2>3 DEF GeoInv
<1>4. ASSUME NEW u \in Updater, StoreGeo(u) PROVE GeoInv'
  <2> DEFINE d == update[u].at
  <2>1. /\ d \in Db /\ UNCHANGED <<offer, loaded, unread, attempt, partial>>
        /\ disk' = [disk EXCEPT ![d] = update[u].data]
    BY <1>4 DEF StoreGeo
  <2>n. PICK new \in {update[u].data # disk[d], TRUE} :
            update' = [update EXCEPT ![u] = Running(After(d), update[u].updated \/ new)]
    BY <1>4 DEF StoreGeo
  <2>b. (update[u].data # disk[d] => new) /\ new \in BOOLEAN
    BY <2>n
  <2>2. After(d) \in {"ip", "end"}
    BY DEF After
  <2>3. update[u] \in UpdateState /\ update[u].data \in 0 .. MaxOffer /\ update[u].updated \in BOOLEAN
    BY <1>t DEF GeoTypeOK, UpdateState
  <2>4. /\ update'[u].at \in {"ip", "end"}
        /\ update'[u].updated = (update[u].updated \/ new)
        /\ \A v \in Updater : v # u => update'[v] = update[v]
    BY <1>t, <2>n, <2>2, <2>3 DEF GeoTypeOK, Running
  <2>5. GeoTypeOK'
    <3>1. update' \in [Updater -> UpdateState]
      <4>1. PICK b \in BOOLEAN : b = (update[u].updated \/ new)
        OBVIOUS
      <4>2. update' = [update EXCEPT ![u] = Running(After(d), b)]
        BY <2>n, <4>1
      <4>3. After(d) \in {"idle", "end", "load"} \cup Db
        BY <2>2 DEF Db
      <4>4. Running(After(d), b) \in UpdateState
        BY <1>r, <4>3
      <4> QED BY <1>t, <4>2, <4>4 DEF GeoTypeOK
    <3> QED BY <1>t, <2>1, <2>3, <3>1 DEF GeoTypeOK
  <2>6. LoadPending'
    <3> SUFFICES ASSUME NEW e \in Db, e \notin unread', ~(e = "site" /\ partial'), loaded'[e] # disk'[e]
                 PROVE  \E v \in Updater : WillLoad(v, e)'
      BY <1>t, <2>1 DEF LoadPending
    <3>1. CASE e = d /\ update[u].data # disk[d]
      <4>1. update'[u].at = After(d) /\ update'[u].updated
        BY <1>t, <2>n, <2>b, <2>3, <3>1 DEF GeoTypeOK, Running
      <4>2. WillLoad(u, e)'
        BY <2>1, <3>1, <4>1 DEF WillLoad, After, Db
      <4> QED BY <4>2
    <3>2. CASE ~(e = d /\ update[u].data # disk[d])
      <4>1. loaded[e] # disk[e]
        BY <1>t, <2>1, <3>2 DEF GeoTypeOK
      <4>2. PICK v \in Updater : WillLoad(v, e)
        BY <1>t, <2>1, <4>1 DEF LoadPending
      <4>3. CASE v = u
        <5>1. update[u].at = "ip" /\ update[u].updated /\ e = "site"
          BY <2>1, <4>2, <4>3 DEF WillLoad, Db
        <5>2. update'[u].at = "end" /\ update'[u].updated
          BY <1>t, <2>n, <2>3, <5>1 DEF GeoTypeOK, Running, After
        <5> QED BY <4>3, <5>2 DEF WillLoad
      <4>4. CASE v # u
        BY <2>4, <4>2, <4>4 DEF WillLoad
      <4> QED BY <4>3, <4>4
    <3> QED BY <3>1, <3>2
  <2> QED BY <2>5, <2>6 DEF GeoInv
<1>5. ASSUME NEW u \in Updater, BeginLoad(u) PROVE GeoInv'
  <2>1. /\ update[u].at = "end" /\ UNCHANGED <<offer, disk, attempt>>
        /\ LoadGeo("site") /\ partial' = FALSE
        /\ update'[u].at = "load" /\ \A v \in Updater : v # u => update'[v] = update[v]
    BY <1>5, <1>t DEF BeginLoad, GeoTypeOK, UpdateState
  <2>2. GeoTypeOK'
    <3>1. update' \in [Updater -> UpdateState]
      BY <1>5, <1>t DEF BeginLoad, GeoTypeOK, UpdateState
    <3> QED BY <1>t, <2>1, <3>1, LoadGeoEffect DEF GeoTypeOK, Db
  <2>3. /\ "site" \in unread' => loaded'["site"] = 0
        /\ "site" \in unread' \/ loaded'["site"] = disk'["site"]
        /\ "ip" \in unread' => loaded'["ip"] = 0
    BY <1>t, <2>1, LoadGeoEffect DEF LoadPending, Db
  <2>4. WillLoad(u, "ip")'
    BY <2>1 DEF WillLoad
  <2>5. LoadPending'
    BY <2>3, <2>4 DEF LoadPending, Db
  <2> QED BY <2>2, <2>5 DEF GeoInv
<1>6. ASSUME NEW u \in Updater, EndUpdate(u) PROVE GeoInv'
  <2>1. /\ UNCHANGED <<offer, disk, attempt, partial>>
        /\ \A v \in Updater : v # u => update'[v] = update[v]
        /\ update' = [update EXCEPT ![u] = NotRunning("ok")]
    BY <1>6, <1>t DEF EndUpdate, GeoTypeOK
  <2>2. CASE update[u].at = "load" /\ LoadGeo("ip")
    <3>1. /\ "ip" \in unread' => loaded'["ip"] = 0
          /\ "ip" \in unread' \/ loaded'["ip"] = disk'["ip"]
          /\ loaded'["site"] = loaded["site"] /\ ("site" \in unread' <=> "site" \in unread)
      BY <1>t, <2>1, <2>2, LoadGeoEffect DEF Db
    <3>2. ~WillLoad(u, "site")
      BY <2>2 DEF WillLoad
    <3>3. LoadPending'
      BY <1>t, <2>1, <3>1, <3>2, OthersWillLoad DEF LoadPending, Db
    <3>4. GeoTypeOK'
      BY <1>t, <1>n, <2>1, <2>2, LoadGeoEffect DEF GeoTypeOK, Db
    <3> QED BY <3>3, <3>4 DEF GeoInv
  <2>3. CASE update[u].at = "end" /\ ~update[u].updated /\ UNCHANGED <<loaded, unread>>
    <3>1. \A d \in Db : ~WillLoad(u, d)
      BY <2>3 DEF WillLoad
    <3>4. \A v \in Updater, d \in Db : WillLoad(v, d) => WillLoad(v, d)'
      BY <2>1, <3>1, OthersWillLoad, Zenon
    <3>2. LoadPending'
      BY <1>t, <2>1, <2>3, <3>4, PendingKept, Zenon
    <3>3. GeoTypeOK'
      BY <1>t, <1>n, <2>1, <2>3 DEF GeoTypeOK
    <3> QED BY <3>2, <3>3 DEF GeoInv
  <2> QED BY <1>6, <2>2, <2>3 DEF EndUpdate
<1>7. ASSUME Publish PROVE GeoInv'
  <2>1. UNCHANGED <<disk, loaded, unread, update, attempt, partial>>
    BY <1>7 DEF Publish
  <2>2. offer' \in [Db -> 1 .. MaxOffer]
    BY <1>7, <1>t DEF Publish, GeoTypeOK
  <2>3. LoadPending'
    <3>1. \A v \in Updater, d \in Db : WillLoad(v, d) => WillLoad(v, d)'
      BY <2>1 DEF WillLoad
    <3> QED BY <1>t, <2>1, <3>1, PendingKept, Zenon
  <2> QED BY <1>t, <2>1, <2>2, <2>3 DEF GeoTypeOK, GeoInv
<1>8. ASSUME UNCHANGED geoVars PROVE GeoInv'
  BY <1>t, <1>8 DEF geoVars, GeoInv, GeoTypeOK, LoadPending, WillLoad
<1> QED BY <1>1, <1>2, <1>3, <1>4, <1>5, <1>6, <1>7, <1>8 DEF GeoNext

(***************************************************************************)
(* However many updates overlap, and wherever they fail, when none is      *)
(* going on the databases in memory are those on disk.  One that could not *)
(* be read is nil and never an old version, and only geosite may have been *)
(* left behind, by a call that failed (UpdateGeo and loadGeoDBs).          *)
(***************************************************************************)
THEOREM MemoryFollowsDisk == GeoSpec => []MemoryIsDisk
<1>1. GeoInv => MemoryIsDisk
  <2> SUFFICES ASSUME GeoInv, Quiet, NEW d \in Db
               PROVE  /\ d \in unread => loaded[d] = 0
                      /\ d \notin unread /\ ~(d = "site" /\ partial) => loaded[d] = disk[d]
    BY DEF MemoryIsDisk
  <2>1. \A u \in Updater : ~WillLoad(u, d)
    BY DEF Quiet, WillLoad
  <2> QED BY <2>1 DEF GeoInv, LoadPending
<1> QED BY <1>1, GeoInvInit, GeoInvStep, PTL DEF GeoSpec

(***************************************************************************)
(* DNSCache: an address that was good stays.                               *)
(***************************************************************************)
\* The leaders of a host have entries of their own, which have no expiry yet.
Leaders ==
    /\ \A c \in Caller : resolver[c].at = "lead" => resolver[c].of \in pending
    /\ \A c, d \in Caller :
           resolver[c].at = "lead" /\ resolver[d].at = "lead" /\ resolver[c].of = resolver[d].of => c = d
    /\ \A e \in pending : ttl[e] = 0

\* An entry that has not been made yet has no expiry either.
Unmade == \A e \in Entry : e > objects => ttl[e] = 0

DNSInv == DNSTypeOK /\ Leaders /\ Unmade

\* An empty cache.
LEMMA DNSInitially == DNSInit => DNSInv
<1> SUFFICES ASSUME DNSInit PROVE DNSInv
  OBVIOUS
<1>1. DNSTypeOK
  BY DNSAssumption DEF DNSInit, DNSTypeOK
<1>2. Leaders /\ Unmade
  BY DEF DNSInit, Leaders, Unmade
<1> QED
  BY <1>1, <1>2 DEF DNSInv

\* Callers that change their minds, as long as none of them becomes a leader.
LEMMA CallersKeep ==
    ASSUME DNSInv, UNCHANGED <<objects, ttl, pending>>, entry' \in 0 .. objects, good' \subseteq 1 .. objects,
           resolver' \in [Caller -> [at : {"idle", "retry", "lead", "wait"}, of : Entry \cup {0}]],
           \A d \in Caller : resolver'[d].at = "lead" => resolver'[d] = resolver[d]
    PROVE  DNSInv'
<1>1. DNSTypeOK' /\ Unmade'
  BY DEF DNSInv, DNSTypeOK, Unmade
<1>2. Leaders'
  BY DEF DNSInv, Leaders
<1> QED
  BY <1>1, <1>2 DEF DNSInv

LEMMA ResolveKeeps == ASSUME DNSInv, NEW c \in Caller, Resolve(c) PROVE DNSInv'
<1> USE DEF DNSInv
<1>1. CASE Resolver(c, "idle", 0) /\ UNCHANGED <<entry, objects, ttl, good, pending>>
  BY <1>1, CallersKeep DEF Resolver, DNSTypeOK
<1>2. CASE Resolver(c, "wait", entry) /\ UNCHANGED <<entry, objects, ttl, good, pending>>
  <2>1. entry \in Entry \cup {0}
    BY DNSAssumption DEF DNSTypeOK, Entry
  <2> QED
    BY <1>2, <2>1, CallersKeep DEF Resolver, DNSTypeOK
<1>3. CASE NewEntry /\ pending' = pending \cup {entry'} /\ Resolver(c, "lead", entry') /\ UNCHANGED <<ttl, good>>
  <2>1. /\ objects \in Nat /\ objects' = objects + 1 /\ entry' = objects + 1
        /\ objects + 1 \in Entry /\ objects + 1 \notin pending
    BY <1>3, DNSAssumption DEF NewEntry, DNSTypeOK, Entry
  <2>2. resolver' = [resolver EXCEPT ![c] = [at |-> "lead", of |-> objects + 1]]
    BY <1>3, <2>1 DEF Resolver
  <2>3. DNSTypeOK'
    <3>1. resolver' \in [Caller -> [at : {"idle", "retry", "lead", "wait"}, of : Entry \cup {0}]]
      BY <2>1, <2>2 DEF DNSTypeOK
    <3>2. good' \subseteq 1 .. objects' /\ pending' \subseteq 1 .. objects'
      BY <1>3, <2>1 DEF DNSTypeOK
    <3>3. objects' \in 0 .. MaxEntries /\ entry' \in 0 .. objects'
      BY <2>1 DEF Entry
    <3> QED
      BY <1>3, <3>1, <3>2, <3>3 DEF DNSTypeOK
  <2>4. Leaders'
    <3>1. ttl[objects + 1] = 0
      BY <2>1 DEF Unmade
    <3>2. /\ resolver'[c].at = "lead" /\ resolver'[c].of = objects + 1
          /\ \A d \in Caller \ {c} : resolver'[d] = resolver[d]
      BY <2>2 DEF DNSTypeOK
    <3>3. pending' = pending \cup {objects + 1} /\ ttl' = ttl
      BY <1>3, <2>1
    <3>4. \A d \in Caller : resolver'[d].at = "lead" => resolver'[d].of \in pending'
      BY <3>2, <3>3, ZenonT(30) DEF Leaders
    <3>5. \A e \in pending' : ttl'[e] = 0
      BY <3>1, <3>3 DEF Leaders
    <3>6. \A d \in Caller \ {c} : resolver'[d].at = "lead" => resolver'[d].of # objects + 1
      BY <2>1, <3>2, ZenonT(30) DEF Leaders
    <3>7. \A b, d \in Caller :
            resolver'[b].at = "lead" /\ resolver'[d].at = "lead" /\ resolver'[b].of = resolver'[d].of => b = d
      BY <3>2, <3>6, ZenonT(30) DEF Leaders
    <3> QED
      BY <3>4, <3>5, <3>7 DEF Leaders
  <2>5. Unmade'
    BY <1>3, <2>1 DEF Unmade, Entry
  <2> QED
    BY <2>3, <2>4, <2>5
<1> QED
  BY <1>1, <1>2, <1>3 DEF Resolve

\* The leader's own entry, which no other leader has, is no longer pending.
LEMMA LookupKeeps ==
    ASSUME DNSInv, NEW c \in Caller, LookupOK(c) \/ LookupFails(c)
    PROVE  DNSInv'
<1> USE DEF DNSInv
<1> DEFINE e == resolver[c].of
<1>1. /\ resolver[c].at = "lead" /\ e \in pending /\ e \in Entry /\ pending' = pending \ {e}
      /\ UNCHANGED <<objects, good>> /\ entry' \in {entry, 0}
  BY DEF LookupOK, LookupFails, Leaders, DNSTypeOK, Entry
<1>2. PICK w \in SUBSET Caller, at \in {"idle", "retry"} : Answer(c, w, at)
  BY DEF LookupOK, LookupFails, Waiters
<1>3. ttl' = [ttl EXCEPT ![e] = TTL] \/ ttl' = ttl
  BY DEF LookupOK, LookupFails
<1>4. DNSTypeOK'
  <2>1. resolver' \in [Caller -> [at : {"idle", "retry", "lead", "wait"}, of : Entry \cup {0}]]
    BY <1>2 DEF Answer, DNSTypeOK
  <2>2. ttl' \in [Entry -> 0 .. TTL]
    BY <1>1, <1>3, DNSAssumption DEF DNSTypeOK
  <2>3. entry' \in 0 .. objects' /\ objects' \in 0 .. MaxEntries
    BY <1>1 DEF DNSTypeOK
  <2>4. good' \subseteq 1 .. objects' /\ pending' \subseteq 1 .. objects'
    BY <1>1 DEF DNSTypeOK
  <2> QED
    BY <2>1, <2>2, <2>3, <2>4 DEF DNSTypeOK
<1>5. \A d \in Caller : resolver'[d].at = "lead" => d # c /\ resolver'[d] = resolver[d]
  BY <1>2 DEF Answer
<1> HIDE DEF e
<1>6. Leaders'
  <2>1. ASSUME NEW f \in pending' PROVE ttl'[f] = 0
    <3>1. f \in pending /\ f # e /\ f \in Entry /\ ttl[f] = 0
      BY <1>1, DNSAssumption DEF Leaders, DNSTypeOK, Entry
    <3> QED
      BY <1>3, <3>1 DEF DNSTypeOK
  <2>2. \A d \in Caller : resolver'[d].at = "lead" => resolver'[d].of \in pending'
    BY <1>1, <1>5 DEF Leaders, e
  <2>3. \A d, f \in Caller :
            resolver'[d].at = "lead" /\ resolver'[f].at = "lead" /\ resolver'[d].of = resolver'[f].of => d = f
    BY <1>5 DEF Leaders
  <2> QED
    BY <2>1, <2>2, <2>3 DEF Leaders
<1>7. Unmade'
  <2>1. ~(e > objects)
    BY <1>1 DEF DNSTypeOK
  <2> QED
    BY <1>1, <1>3, <2>1 DEF Unmade, DNSTypeOK
<1> QED
  BY <1>4, <1>6, <1>7

\* A new entry that is valid at once has no leader.
LEMMA MadeKeeps ==
    ASSUME DNSInv, NewEntry, ttl' = [ttl EXCEPT ![entry'] = TTL], good' \subseteq good \cup {entry'},
           UNCHANGED <<pending, resolver>>
    PROVE  DNSInv'
<1> USE DEF DNSInv
<1>1. /\ objects \in Nat /\ objects' = objects + 1 /\ entry' = objects + 1
      /\ objects + 1 \in Entry /\ objects + 1 \notin pending
  BY DNSAssumption DEF NewEntry, DNSTypeOK, Entry
<1>2. DNSTypeOK'
  <2>1. good' \subseteq 1 .. objects' /\ pending' \subseteq 1 .. objects'
    BY <1>1 DEF DNSTypeOK
  <2>2. objects' \in 0 .. MaxEntries /\ entry' \in 0 .. objects'
    BY <1>1 DEF Entry
  <2>3. ttl' \in [Entry -> 0 .. TTL]
    BY <1>1, DNSAssumption DEF DNSTypeOK
  <2> QED
    BY <2>1, <2>2, <2>3 DEF DNSTypeOK
<1>3. Leaders'
  BY <1>1 DEF Leaders, DNSTypeOK, Entry
<1>4. Unmade'
  BY <1>1 DEF Unmade, DNSTypeOK, Entry
<1> QED
  BY <1>2, <1>3, <1>4

LEMMA DNSStep == ASSUME DNSInv, [DNSNext]_dnsVars PROVE DNSInv'
<1> USE DEF DNSInv
<1>1. CASE UNCHANGED dnsVars
  <2>1. good' \subseteq 1 .. objects /\ entry' \in 0 .. objects
    BY <1>1 DEF dnsVars, DNSTypeOK
  <2> QED
    BY <1>1, <2>1, CallersKeep DEF dnsVars, DNSTypeOK
<1>2. ASSUME NEW c \in Caller, GiveUp(c) PROVE DNSInv'
  BY <1>2, CallersKeep DEF GiveUp, Resolver, DNSTypeOK
<1>3. CASE MarkGood
  <2>1. CASE Valid
    <3>1. good' \subseteq 1 .. objects /\ entry' \in 0 .. objects
      <4>1. entry' = entry /\ good' = good \cup {entry} /\ entry \in 1 .. objects
        BY <1>3, <2>1 DEF MarkGood, Valid, DNSTypeOK
      <4> QED
        BY <4>1 DEF DNSTypeOK
    <3> QED
      BY <1>3, <2>1, <3>1, CallersKeep DEF MarkGood, DNSTypeOK
  <2>2. CASE ~Valid
    BY <1>3, <2>2, MadeKeeps DEF MarkGood
  <2> QED
    BY <2>1, <2>2
<1>4. CASE ClearGood
  BY <1>4, CallersKeep DEF ClearGood, DNSTypeOK
<1>5. CASE NextCandidate
  BY <1>5, MadeKeeps DEF NextCandidate
<1>6. CASE DNSTick
  <2>1. ttl' \in [Entry -> 0 .. TTL] /\ \A e \in Entry : ttl[e] = 0 => ttl'[e] = 0
    BY <1>6, DNSAssumption DEF DNSTick, DNSTypeOK
  <2>2. pending \subseteq Entry
    BY DNSAssumption DEF DNSTypeOK, Entry
  <2>3. DNSTypeOK'
    BY <1>6, <2>1 DEF DNSTick, DNSTypeOK
  <2>4. Leaders' /\ Unmade'
    BY <1>6, <2>1, <2>2 DEF DNSTick, Leaders, Unmade
  <2> QED
    BY <2>3, <2>4
<1> QED
  BY <1>1, <1>2, <1>3, <1>4, <1>5, <1>6, ResolveKeeps, LookupKeeps DEF DNSNext

\* GoodStays: an address known to be good is hidden only by its expiry, by ClearGood, or by
\* the failure of a leader that was overtaken.
THEOREM GoodAddressStays == DNSSpec => GoodStays
<1> DEFINE Hidden == GoodVisible /\ ~GoodVisible' =>
                        \/ entry' = entry /\ (ttl'[entry] = 0 \/ entry \notin good')
                        \/ entry' = 0 /\ \E c \in Caller : /\ resolver[c].at = "lead" /\ resolver[c].of # entry
                                                           /\ resolver'[c].at = "idle"
<1>1. DNSInv /\ [DNSNext]_dnsVars => Hidden
  <2> SUFFICES ASSUME DNSInv, [DNSNext]_dnsVars, GoodVisible, ~GoodVisible' PROVE Hidden
    OBVIOUS
  <2>0. Valid /\ entry \in good /\ entry \in Entry
    BY DNSAssumption DEF GoodVisible, Valid, DNSInv, DNSTypeOK, Entry
  <2>1. CASE UNCHANGED <<entry, ttl, good>>
    BY <2>1 DEF GoodVisible, Valid
  <2>2. ASSUME NEW c \in Caller, LookupOK(c) PROVE FALSE
    <3>1. resolver[c].of \in Entry
      <4>1. resolver[c].of \in pending
        BY <2>2, Zenon DEF DNSInv, Leaders, LookupOK
      <4>2. pending \subseteq Entry
        BY DNSAssumption DEF DNSInv, DNSTypeOK, Entry
      <4> QED
        BY <4>1, <4>2, Zenon
    <3>2. ttl'[entry] > 0
      BY <2>0, <2>2, <3>1, DNSAssumption DEF LookupOK, DNSInv, DNSTypeOK, Valid
    <3> QED
      BY <2>0, <2>2, <3>2 DEF LookupOK, GoodVisible, Valid
  <2>3. ASSUME NEW c \in Caller, LookupFails(c) PROVE Hidden
    <3>1. resolver[c].of \in pending /\ ttl[resolver[c].of] = 0
      BY <2>3 DEF LookupFails, DNSInv, Leaders
    <3>2. resolver[c].of # entry
      <4>1. \A x : x > 0 => x # 0
        OBVIOUS
      <4> QED
        BY <2>0, <3>1, <4>1, Zenon DEF Valid
    <3>3. resolver'[c].at = "idle"
      BY <2>3 DEF LookupFails, Answer
    <3> QED
      BY <2>3, <3>2, <3>3 DEF LookupFails
  <2>4. CASE DNSTick
    BY <2>0, <2>4 DEF DNSTick, GoodVisible, Valid, DNSInv, DNSTypeOK
  <2>5. CASE MarkGood
    BY <2>0, <2>5 DEF MarkGood, GoodVisible, Valid
  <2>6. CASE ClearGood
    BY <2>6 DEF ClearGood
  <2> QED
    BY <2>0, <2>1, <2>2, <2>3, <2>4, <2>5, <2>6 DEF DNSNext, Resolve, GiveUp, NextCandidate, dnsVars
<1>2. DNSInv /\ [DNSNext]_dnsVars => [Hidden]_dnsVars
  BY <1>1
<1>3. DNSInv /\ [DNSNext]_dnsVars => DNSInv'
  BY DNSStep
<1> QED
  BY <1>2, <1>3, DNSInitially, PTL DEF DNSSpec, GoodStays
=============================================================================
