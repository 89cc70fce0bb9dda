------------------------------- MODULE Engine -------------------------------
(***************************************************************************)
(* The life of a runtime: Engine.Start, Close, abortStart, finishWhenDone  *)
(* and reportFatal (internal/app/engine.go), with the listeners, the dial  *)
(* goroutines of the ECHPool and the route engine that Start brings up.    *)
(*                                                                         *)
(* Start runs in one goroutine; Close is called by others at any time, for *)
(* the control API serves /v1/stop before Start has returned.  e.mu guards *)
(* the fields; a step is one critical section or the code between two.     *)
(***************************************************************************)
EXTENDS Integers, FiniteSets

CONSTANTS Listener,  \* what Start binds: metrics, server or local, control
          Early,     \* those of Listener bound before the pool exists (metrics)
          Worker,    \* the dial goroutines of the pool
          Closer,    \* the calls of Close
          None       \* no listener

ASSUME EngineAssumption == Early \subseteq Listener /\ None \notin Listener

VARIABLES
    isServer,     \* startup.IsServer: no pool, no route engine
    started, closed, cancelled,  \* e.started, e.closed, e.ctx is done
    done,         \* how often e.done has been closed; twice would panic
    starter,      \* where Start is
    binding,      \* the listener Start has bound and not yet tracked
    lis,          \* each listener: "none", "up" or "finished"
    fatal,        \* a listener has failed and reportFatal is still to come
    listeners,    \* e.listeners
    echPool,      \* e.echPool is set
    worker,       \* each dial goroutine: "none", "running" or "ended"
    route,        \* the route engine: "none", "open" or "closed"
    routeEngine,  \* e.routeEngine is set
    logUndo,      \* e.logUndo is set
    logSink,      \* the log output is redirected to the ring
    finisher,     \* finishWhenDone: "none", "waiting" or "ended"
    abortLate,    \* abortStart gave up waiting at its timeout
    closer,       \* where each Close is
    late,         \* its context has expired
    first,        \* "no", or how far Start was when this call shut the engine down:
                  \* still "starting" or returned ("ok")
    hasRoute      \* it took e.routeEngine

fields == <<started, closed, cancelled, done, listeners, echPool, routeEngine, logUndo>>
world == <<isServer, lis, fatal, worker, route, logSink>>
start == <<starter, binding, finisher, abortLate>>
calls == <<closer, late, first, hasRoute>>
vars == <<fields, world, start, calls>>

Init ==
    /\ isServer \in BOOLEAN
    /\ started = FALSE /\ closed = FALSE /\ cancelled = FALSE /\ done = 0
    /\ starter = "new" /\ binding = None /\ finisher = "none" /\ abortLate = FALSE
    /\ lis = [l \in Listener |-> "none"] /\ fatal = FALSE /\ listeners = {}
    /\ echPool = FALSE /\ worker = [w \in Worker |-> "none"]
    /\ route = "none" /\ routeEngine = FALSE
    /\ logUndo = FALSE /\ logSink = FALSE
    /\ closer = [c \in Closer |-> "new"]
    /\ late = [c \in Closer |-> FALSE]
    /\ first = [c \in Closer |-> "no"]
    /\ hasRoute = [c \in Closer |-> FALSE]

(***************************************************************************)
(* Start.                                                                  *)
(***************************************************************************)
\* Mutant: a runtime that was closed before it was started is started.
BeginStartAnyway ==
    /\ starter = "new"
    /\ starter' = "early" /\ started' = TRUE
    /\ logUndo' = TRUE /\ logSink' = TRUE
    /\ UNCHANGED <<closed, cancelled, done, listeners, echPool, routeEngine, isServer, lis,
                   fatal, worker, route, binding, finisher, abortLate, calls>>

BeginStart ==
    /\ starter = "new"
    /\ IF closed
       THEN starter' = "refused" /\ UNCHANGED <<started, logUndo, logSink>>
       ELSE starter' = "early" /\ started' = TRUE /\ logUndo' = TRUE /\ logSink' = TRUE
    /\ UNCHANGED <<closed, cancelled, done, listeners, echPool, routeEngine, isServer, lis,
                   fatal, worker, route, binding, finisher, abortLate, calls>>

\* The listeners of the phase Start is in that it has not bound yet.
ToBind ==
    {l \in Listener : lis[l] = "none" /\ (starter = "early" => l \in Early)}

Bind(l) ==
    /\ starter \in {"early", "listen"} /\ binding = None
    /\ l \in ToBind
    /\ lis' = [lis EXCEPT ![l] = "up"]
    /\ binding' = l
    /\ UNCHANGED <<fields, isServer, fatal, worker, route, logSink, starter, finisher, abortLate,
                   calls>>

\* trackListener: appended under e.mu, and counted in e.wg until it finishes.
TrackListener ==
    /\ binding # None
    /\ listeners' = listeners \cup {binding}
    /\ binding' = None
    /\ UNCHANGED <<started, closed, cancelled, done, echPool, routeEngine, logUndo, world,
                   starter, finisher, abortLate, calls>>

EarlyDone ==
    /\ starter = "early" /\ binding = None /\ ToBind = {}
    /\ starter' = IF isServer THEN "listen" ELSE "route"
    /\ UNCHANGED <<fields, world, binding, finisher, abortLate, calls>>

\* initRouteEngine, when route_enabled is set.
InitRoute(enabled) ==
    /\ starter = "route"
    /\ starter' = "pool"
    /\ route' = IF enabled THEN "open" ELSE route
    /\ routeEngine' = (routeEngine \/ enabled)
    /\ UNCHANGED <<started, closed, cancelled, done, listeners, echPool, logUndo, isServer,
                   lis, fatal, worker, logSink, binding, finisher, abortLate, calls>>

SetPool ==
    /\ starter = "pool"
    /\ starter' = "poolStart"
    /\ echPool' = TRUE
    /\ UNCHANGED <<started, closed, cancelled, done, listeners, routeEngine, logUndo, world,
                   binding, finisher, abortLate, calls>>

StartPool ==
    /\ starter = "poolStart"
    /\ starter' = "listen"
    /\ worker' = [w \in Worker |-> "running"]
    /\ UNCHANGED <<fields, isServer, lis, fatal, route, logSink, binding, finisher, abortLate, calls>>

StartReturns ==
    /\ starter = "listen" /\ binding = None /\ ToBind = {}
    /\ starter' = "ok"
    /\ finisher' = "waiting"
    /\ UNCHANGED <<fields, world, binding, abortLate, calls>>

\* A bind, the ECH lookup, the rules or the ready file fails.
StartFails ==
    /\ starter \in {"early", "route", "listen"} /\ binding = None
    /\ starter' = "aborting"
    /\ UNCHANGED <<fields, world, binding, finisher, abortLate, calls>>

(***************************************************************************)
(* abortStart.                                                             *)
(***************************************************************************)
Abort ==
    /\ starter = "aborting"
    /\ IF closed
       THEN starter' = "abandoned" /\ UNCHANGED <<closed, cancelled, logUndo>>
       ELSE /\ starter' = "abortPool" /\ closed' = TRUE /\ cancelled' = TRUE
            /\ logUndo' = FALSE
    /\ UNCHANGED <<started, done, listeners, echPool, routeEngine, world, binding,
                   finisher, abortLate, calls>>

PoolEnded == \A w \in Worker : worker[w] # "running"

\* e.wg: the tracked listeners, and the goroutine that waits for the context
\* once Start has succeeded.
WgZero ==
    /\ \A l \in listeners : lis[l] = "finished"
    /\ starter = "ok" => cancelled

\* pool.WaitDone, the listeners' Close and e.wg.Wait share one timeout.
AbortWaited(expired) ==
    /\ starter = "abortPool"
    /\ expired \/ ((echPool => PoolEnded) /\ WgZero)
    /\ starter' = "abortUndo"
    /\ abortLate' = expired
    /\ UNCHANGED <<fields, world, binding, finisher, calls>>

AbortDone ==
    /\ starter = "abortUndo"
    /\ starter' = "failed"
    /\ logSink' = FALSE
    /\ done' = done + 1
    /\ UNCHANGED <<started, closed, cancelled, listeners, echPool, routeEngine, logUndo,
                   isServer, lis, fatal, worker, route, binding, finisher, abortLate, calls>>

(***************************************************************************)
(* finishWhenDone.                                                         *)
(***************************************************************************)
\* Mutant: the goroutine waits for the context only.
FinishOnCancel ==
    /\ finisher = "waiting" /\ cancelled
    /\ finisher' = "ended"
    /\ logUndo' = FALSE /\ logSink' = (logSink /\ ~logUndo)
    /\ done' = done + 1
    /\ UNCHANGED <<started, closed, cancelled, listeners, echPool, routeEngine, isServer,
                   lis, fatal, worker, route, starter, binding, abortLate, calls>>

Finish ==
    /\ finisher = "waiting" /\ WgZero
    /\ finisher' = "ended"
    /\ logUndo' = FALSE /\ logSink' = (logSink /\ ~logUndo)
    /\ done' = done + 1
    /\ UNCHANGED <<started, closed, cancelled, listeners, echPool, routeEngine, isServer,
                   lis, fatal, worker, route, starter, binding, abortLate, calls>>

(***************************************************************************)
(* Close.  The first call of a started engine shuts it down; any other     *)
(* call waits for e.done.                                                  *)
(***************************************************************************)
BeginClose(c) ==
    /\ closer[c] = "new"
    /\ closed' = TRUE
    /\ IF closed
       THEN closer' = [closer EXCEPT ![c] = "waiting"]
            /\ UNCHANGED <<done, routeEngine, first, hasRoute>>
       ELSE IF ~started
       THEN closer' = [closer EXCEPT ![c] = "ok"] /\ done' = done + 1
            /\ UNCHANGED <<routeEngine, first, hasRoute>>
       ELSE /\ closer' = [closer EXCEPT ![c] = "cancel"]
            /\ first' = [first EXCEPT ![c] = IF starter = "ok" THEN "ok" ELSE "starting"]
            /\ hasRoute' = [hasRoute EXCEPT ![c] = routeEngine]
            /\ routeEngine' = FALSE
            /\ UNCHANGED done
    /\ UNCHANGED <<started, cancelled, listeners, echPool, logUndo, world, start, late>>

\* Mutant: the pool is waited for before the context is cancelled.
ReadPoolBeforeCancel(c) ==
    /\ closer[c] = "cancel"
    /\ cancelled' = (cancelled \/ ~echPool)
    /\ closer' = [closer EXCEPT ![c] = IF echPool THEN "pool" ELSE "route"]
    /\ UNCHANGED <<started, closed, done, listeners, echPool, routeEngine, logUndo, world,
                   start, late, first, hasRoute>>

\* cancel(), then the pool is read: it is waited for only if it is set by now.
CancelAndReadPool(c) ==
    /\ closer[c] = "cancel"
    /\ cancelled' = TRUE
    /\ closer' = [closer EXCEPT ![c] = IF echPool THEN "pool" ELSE "route"]
    /\ UNCHANGED <<started, closed, done, listeners, echPool, routeEngine, logUndo, world,
                   start, late, first, hasRoute>>

\* Mutant: the pool is not waited for.
PoolWaitedNot(c) ==
    /\ closer[c] = "pool"
    /\ closer' = [closer EXCEPT ![c] = "route"]
    /\ UNCHANGED <<fields, world, start, late, first, hasRoute>>

PoolWaited(c) ==
    /\ closer[c] = "pool"
    /\ PoolEnded \/ late[c]
    /\ closer' = [closer EXCEPT ![c] = "route"]
    /\ UNCHANGED <<fields, world, start, late, first, hasRoute>>

\* The route engine and the listeners of the snapshot are closed; a listener
\* whose context is done finishes by itself as well.
CloseRouteAndListeners(c) ==
    /\ closer[c] = "route"
    /\ closer' = [closer EXCEPT ![c] = "waiting"]
    /\ route' = IF hasRoute[c] THEN "closed" ELSE route
    /\ UNCHANGED <<fields, isServer, lis, fatal, worker, logSink, start, late, first, hasRoute>>

CloseReturns(c) ==
    /\ closer[c] = "waiting"
    /\ \/ done > 0 /\ closer' = [closer EXCEPT ![c] = "ok"]
       \/ late[c] /\ closer' = [closer EXCEPT ![c] = "timeout"]
    /\ UNCHANGED <<fields, world, start, late, first, hasRoute>>

CloserExpires(c) ==
    /\ closer[c] \in {"cancel", "pool", "route", "waiting"} /\ ~late[c]
    /\ late' = [late EXCEPT ![c] = TRUE]
    /\ UNCHANGED <<fields, world, start, closer, first, hasRoute>>

(***************************************************************************)
(* The parent context, listeners that fail, and the goroutines that end    *)
(* when the context is done.                                               *)
(***************************************************************************)
Cancel ==
    /\ started /\ ~cancelled
    /\ cancelled' = TRUE
    /\ UNCHANGED <<started, closed, done, listeners, echPool, routeEngine, logUndo, world,
                   start, calls>>

ListenerFinishes(l) ==
    /\ lis[l] = "up" /\ cancelled
    /\ lis' = [lis EXCEPT ![l] = "finished"]
    /\ UNCHANGED <<fields, isServer, fatal, worker, route, logSink, start, calls>>

\* The serve loop of an HTTP server fails by itself.  The metrics server only
\* logs it; the tunnel server and the control server then call reportFatal.
ListenerFails(l) ==
    /\ lis[l] = "up" /\ ~cancelled
    /\ lis' = [lis EXCEPT ![l] = "finished"]
    /\ fatal' = (fatal \/ l \notin Early)
    /\ UNCHANGED <<fields, isServer, worker, route, logSink, start, calls>>

ReportFatal ==
    /\ fatal
    /\ fatal' = FALSE /\ cancelled' = TRUE
    /\ UNCHANGED <<started, closed, done, listeners, echPool, routeEngine, logUndo, isServer,
                   lis, worker, route, logSink, start, calls>>

WorkerEnds(w) ==
    /\ worker[w] = "running" /\ cancelled
    /\ worker' = [worker EXCEPT ![w] = "ended"]
    /\ UNCHANGED <<fields, isServer, lis, fatal, route, logSink, start, calls>>

StartStep ==
    \/ (\E l \in Listener : Bind(l)) \/ TrackListener \/ EarlyDone
    \/ (\E enabled \in BOOLEAN : InitRoute(enabled)) \/ SetPool \/ StartPool
    \/ StartReturns \/ Abort \/ AbortWaited(FALSE) \/ AbortDone

CloseStep(c) ==
    \/ CancelAndReadPool(c) \/ PoolWaited(c) \/ CloseRouteAndListeners(c) \/ CloseReturns(c)

Next ==
    \/ BeginStart \/ StartStep \/ StartFails \/ AbortWaited(TRUE) \/ Finish \/ Cancel \/ ReportFatal
    \/ \E c \in Closer : BeginClose(c) \/ CloseStep(c) \/ CloserExpires(c)
    \/ \E l \in Listener : ListenerFinishes(l) \/ ListenerFails(l)
    \/ \E w \in Worker : WorkerEnds(w)

Spec == Init /\ [][Next]_vars

-----------------------------------------------------------------------------
StartPhase == {"new", "early", "route", "pool", "poolStart", "listen", "ok", "refused",
               "aborting", "abortPool", "abortUndo", "abandoned", "failed"}

\* The shape of the state; e.done is closed at most once, for a second close of
\* a channel panics, and three places close it.
TypeOK ==
    /\ isServer \in BOOLEAN
    /\ started \in BOOLEAN /\ closed \in BOOLEAN /\ cancelled \in BOOLEAN
    /\ done \in {0, 1}
    /\ starter \in StartPhase /\ binding \in Listener \cup {None}
    /\ lis \in [Listener -> {"none", "up", "finished"}] /\ fatal \in BOOLEAN
    /\ listeners \subseteq Listener
    /\ echPool \in BOOLEAN /\ worker \in [Worker -> {"none", "running", "ended"}]
    /\ route \in {"none", "open", "closed"} /\ routeEngine \in BOOLEAN
    /\ logUndo \in BOOLEAN /\ logSink \in BOOLEAN
    /\ finisher \in {"none", "waiting", "ended"} /\ abortLate \in BOOLEAN
    /\ closer \in [Closer -> {"new", "cancel", "pool", "route", "waiting", "ok", "timeout"}]
    /\ late \in [Closer -> BOOLEAN] /\ first \in [Closer -> {"no", "starting", "ok"}]
    /\ hasRoute \in [Closer -> BOOLEAN]

\* When e.done is closed, and so when Wait returns, no port is bound any more and
\* the log output is what it was before Start: whichever of the ways to stop was
\* taken, and unless abortStart ran into its timeout (engine.go:133-145, 318-327).
DoneMeansStopped ==
    done > 0 => /\ ~logSink
                /\ abortLate \/ \A l \in Listener : lis[l] # "up"

\* A Close that shuts down an engine whose Start has returned nil, and whose
\* context does not expire, returns nil only when the dial goroutines of the pool
\* have ended and the route engine is closed as well (engine.go:347-377).
CloseStopsAll ==
    \A c \in Closer :
        closer[c] = "ok" /\ first[c] = "ok" /\ ~late[c] => PoolEnded /\ route # "open"

\* Once Close has been called, the context is done or a server has failed, e.done
\* is closed in the end, so that Wait and every Close return.  The exception is a
\* Start that fails after Close was called: abortStart then returns early and
\* nobody closes e.done (engine.go:107-112, 303-327).
StopEnds == closed \/ cancelled \/ fatal ~> done > 0 \/ starter = "abandoned"

\* docs/core-gui-refactor.md:199 of Close (translated): "may be called repeatedly,
\* closes the listeners, ..., the ECH pool, ..., and waits for the goroutines to
\* exit up to the timeout".  So when a Close returns nil before its timeout, no
\* listener and no dial goroutine is left.
CloseWaitsForGoroutines ==
    \A c \in Closer :
        closer[c] = "ok" /\ ~late[c] /\ ~abortLate =>
            PoolEnded /\ \A l \in Listener : lis[l] # "up"
=============================================================================
