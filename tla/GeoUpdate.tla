----------------------------- MODULE GeoUpdate ------------------------------
(***************************************************************************)
(* The GEO databases of the route engine: what the mirrors offer, the two  *)
(* files in geoDir and what is loaded in memory (internal/route/engine.go, *)
(* download.go), with the update at startup, which is repeated when it     *)
(* fails, and those that the control server starts (internal/app/route.go, *)
(* control.go).  Two updates may run at once.                              *)
(***************************************************************************)
EXTENDS Integers, FiniteSets

CONSTANTS Updater,   \* goroutines that call UpdateGeo
          Startup,   \* the one of initRouteEngine
          Attempts,  \* of the one at startup: 3
          MaxOffer   \* bound: versions that are published

ASSUME GeoAssumption == Startup \in Updater /\ Attempts \in Nat \ {0} /\ MaxOffer \in Nat \ {0}

Db == {"site", "ip"}
After(db) == IF db = "site" THEN "ip" ELSE "end"

VARIABLES
    offer,      \* the version of each database that can be downloaded
    disk,       \* the version in geoDir; 0 is no database
    loaded,     \* the version in memory; 0 is nil
    unread,     \* the databases that could not be read or decoded when they were last loaded
    update,     \* each goroutine: the database it is at, what it has downloaded,
                \* whether it has written something, how its last call ended
    attempt,    \* attempts of the goroutine at startup
    partial     \* a call has failed with something written that nobody has loaded

geoVars == <<offer, disk, loaded, unread, update, attempt, partial>>

NotRunning(result) == [at |-> "idle", data |-> 0, updated |-> FALSE, result |-> result]
Running(at, updated) == [at |-> at, data |-> 0, updated |-> updated, result |-> "none"]

\* NewEngine has loaded what geoDir holds, as far as it could.
GeoInit ==
    /\ offer = [d \in Db |-> 1]
    /\ disk \in [Db -> {0, 1}]
    /\ unread \in SUBSET Db
    /\ loaded = [d \in Db |-> IF d \in unread THEN 0 ELSE disk[d]]
    /\ update = [u \in Updater |-> NotRunning("none")]
    /\ attempt = 0 /\ partial = FALSE

\* A call begins: at startup up to Attempts times, until one succeeds.
BeginUpdate(u) ==
    /\ update[u].at = "idle"
    /\ u = Startup => attempt < Attempts /\ update[u].result # "ok"
    /\ attempt' = IF u = Startup THEN attempt + 1 ELSE attempt
    /\ update' = [update EXCEPT ![u] = Running("site", FALSE)]
    /\ UNCHANGED <<offer, disk, loaded, unread, partial>>

\* downloadWithMirrors: some mirror answers, or none does and the call fails, as
\* it does when the data is not a database.
Download(u) ==
    /\ update[u].at \in Db /\ update[u].data = 0
    /\ update' = [update EXCEPT ![u].data = offer[update[u].at]]
    /\ UNCHANGED <<offer, disk, loaded, unread, attempt, partial>>

UpdateFails(u) ==
    /\ update[u].at \in Db
    /\ update' = [update EXCEPT ![u] = NotRunning("error")]
    /\ partial' = (partial \/ update[u].updated)
    /\ UNCHANGED <<offer, disk, loaded, unread, attempt>>

\* updateOne: what is there already is not written again, unless another call has put
\* it there since the files were compared.
StoreGeo(u) ==
    LET d == update[u].at IN
    /\ d \in Db /\ update[u].data # 0
    /\ disk' = [disk EXCEPT ![d] = update[u].data]
    /\ \E new \in {update[u].data # disk[d], TRUE} :
           update' = [update EXCEPT ![u] = Running(After(d), update[u].updated \/ new)]
    /\ UNCHANGED <<offer, loaded, unread, attempt, partial>>

\* loadGeoDBs, of one database: what the file holds, or nil if it cannot be read or
\* decoded.  The caller is not told.
LoadGeo(d) ==
    \/ loaded' = [loaded EXCEPT ![d] = disk[d]] /\ unread' = unread \ {d}
    \/ loaded' = [loaded EXCEPT ![d] = 0] /\ unread' = unread \cup {d}

\* UpdateGeo: if a file was written both are loaded, one after the other, under the
\* engine's lock, while other calls go on writing.
BeginLoad(u) ==
    /\ update[u].at = "end" /\ update[u].updated
    /\ \A v \in Updater : update[v].at # "load"
    /\ LoadGeo("site")
    /\ partial' = FALSE
    /\ update' = [update EXCEPT ![u].at = "load"]
    /\ UNCHANGED <<offer, disk, attempt>>

\* Mutant: the second database is not loaded.
EndUpdateSiteOnly(u) ==
    /\ \/ update[u].at = "load" /\ UNCHANGED <<loaded, unread>>
       \/ update[u].at = "end" /\ ~update[u].updated /\ UNCHANGED <<loaded, unread>>
    /\ update' = [update EXCEPT ![u] = NotRunning("ok")]
    /\ UNCHANGED <<offer, disk, attempt, partial>>

EndUpdate(u) ==
    /\ \/ update[u].at = "load" /\ LoadGeo("ip")
       \/ update[u].at = "end" /\ ~update[u].updated /\ UNCHANGED <<loaded, unread>>
    /\ update' = [update EXCEPT ![u] = NotRunning("ok")]
    /\ UNCHANGED <<offer, disk, attempt, partial>>

Publish ==
    /\ \E d \in Db : /\ offer[d] < MaxOffer
                     /\ offer' = [offer EXCEPT ![d] = @ + 1]
    /\ UNCHANGED <<disk, loaded, unread, update, attempt, partial>>

GeoNext ==
    \/ \E u \in Updater : BeginUpdate(u) \/ Download(u) \/ UpdateFails(u) \/ StoreGeo(u)
                        \/ BeginLoad(u) \/ EndUpdate(u)
    \/ Publish

GeoSpec == GeoInit /\ [][GeoNext]_geoVars

UpdateState == [at : {"idle", "end", "load"} \cup Db, data : 0 .. MaxOffer,
                updated : BOOLEAN, result : {"none", "ok", "error"}]

GeoTypeOK ==
    /\ offer \in [Db -> 1 .. MaxOffer] /\ disk \in [Db -> 0 .. MaxOffer]
    /\ loaded \in [Db -> 0 .. MaxOffer] /\ attempt \in 0 .. Attempts /\ partial \in BOOLEAN
    /\ unread \subseteq Db
    /\ update \in [Updater -> UpdateState]

Quiet == \A u \in Updater : update[u].at = "idle"

(***************************************************************************)
(* When no update is going on, the databases in memory are those on disk,  *)
(* however updates overlap and whichever of them fail.  One that could not *)
(* be read when it was last loaded, which fails nobody's update, is not in *)
(* memory at all, rather than in an old version.  The only other exception *)
(* is geosite: a call that failed after it had replaced that file, at the  *)
(* download of the other, has loaded nothing, and a later call that finds  *)
(* the file up to date succeeds and loads nothing either.                  *)
(***************************************************************************)
MemoryIsDisk ==
    Quiet => \A d \in Db :
                 /\ d \in unread => loaded[d] = 0
                 /\ d \notin unread /\ ~(d = "site" /\ partial) => loaded[d] = disk[d]
=============================================================================
