---------------------------- MODULE MCClientPool ----------------------------
(***************************************************************************)
(* Instances of the parts of a client's life: the engine that starts and   *)
(* stops it, the channels of its pool and the endpoints they are dialled   *)
(* at.  A behaviour is one of one of them, named by `side', while the      *)
(* others rest: the product is out of reach, and none reads the state of   *)
(* another.                                                                *)
(***************************************************************************)
EXTENDS MCEngine, ClientPool, EndpointPool

CONSTANTS s1, s2, o1

MCSlot == {s1, s2}
MCOpener == {o1}

VARIABLE side

sideVars == <<side, vars, poolVars, endpointVars>>

ClientInit ==
    /\ side \in {"engine", "channels", "endpoints"}
    /\ Init /\ PoolInit /\ EndpointInit
    /\ side # "engine" => ~isServer
    /\ side # "endpoints" => mode = "auto"

Running == side = "engine" /\ Next /\ UNCHANGED <<side, poolVars, endpointVars>>
Channels == side = "channels" /\ PoolNext /\ UNCHANGED <<side, vars, endpointVars>>
Endpoints == side = "endpoints" /\ EndpointNext /\ UNCHANGED <<side, vars, poolVars>>

ClientNext == Running \/ Channels \/ Endpoints

(***************************************************************************)
(* Engine: goroutines that can run do, and everything that waits for the   *)
(* context notices that it is done (accept loops are woken by the closed   *)
(* socket, dials have timeouts).  No one has to call Start or Close, no    *)
(* start has to fail and no timeout has to pass.  Channels: the goroutines *)
(* of a slot run; a DNS server need not answer refreshECH.                 *)
(***************************************************************************)
ClientFairness ==
    /\ WF_vars(side = "engine" /\ StartStep) /\ WF_vars(side = "engine" /\ Finish)
    /\ WF_vars(side = "engine" /\ ReportFatal)
    /\ \A c \in Closer : WF_vars(side = "engine" /\ CloseStep(c))
    /\ \A l \in Listener : WF_vars(side = "engine" /\ ListenerFinishes(l))
    /\ \A w \in Worker : WF_vars(side = "engine" /\ WorkerEnds(w))
    /\ \A s \in Slot : /\ WF_poolVars(side = "channels" /\ SlotStep(s))
                       /\ WF_poolVars(side = "channels" /\ ProberStep(s))

ClientSpec == ClientInit /\ [][ClientNext]_sideVars /\ ClientFairness
=============================================================================
