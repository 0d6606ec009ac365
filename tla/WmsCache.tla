------------------------------ MODULE WmsCache ------------------------------
(***************************************************************************)
(* The caching proxy of the NOAA WMS (noaa_cache.go): tile files on disk,  *)
(* one fetch per tile meant to be in flight, followers that wait for the   *)
(* leader and read its file, stale tiles served while a refresh runs,      *)
(* prefetches, an eviction pass, restarts.  Fetches of one tile share the  *)
(* name of the temporary file, so a writer follows its file from there.    *)
(***************************************************************************)
EXTENDS Naturals, FiniteSets

CONSTANTS
  Tiles,        \* canonical queries
  Handlers,     \* goroutines of proxied requests
  Slots,        \* goroutines of a prefetch: prefetchConcurrency of them
  Refreshers,   \* bound: background refreshes at once
  TileSize, MaxBytes,
  Nothing

ASSUME WmsAssumption ==
  /\ Handlers \cap Slots = {} /\ (Handlers \cup Slots) \cap Refreshers = {}
  /\ TileSize \in Nat \ {0} /\ MaxBytes \in Nat
  /\ Nothing \notin Tiles \cup Handlers \cup Slots \cup Refreshers \cup {"torn", "whole"}

VARIABLES
  wmsFile,   \* the file at each tile's path: Nothing, "torn" or "whole"
  wmsTmp,    \* the file at its .tmp
  wmsOld,    \* tiles whose file is past staleAfter
  leader,    \* inflight: the fetch others wait for
  job,       \* each goroutine's step
  evictor,   \* the eviction pass and the files it listed
  prefetch,  \* tiles the prefetch has yet to start
  stray      \* history: tiles fetched by a follower on its own

wmsVars == <<wmsFile, wmsTmp, wmsOld, leader, job, evictor, prefetch, stray>>
wmsDisk == <<wmsFile, wmsTmp, wmsOld>>

Goroutines == Handlers \cup Slots \cup Refreshers
Free == [at |-> "free", tile |-> Nothing, owner |-> FALSE, out |-> "gone"]
Call(t, at) == [Free EXCEPT !.at = at, !.tile = t]
NoPass == [at |-> "idle", seen |-> {}]

WmsInit ==
  /\ wmsFile = [t \in Tiles |-> Nothing] /\ wmsTmp = [t \in Tiles |-> Nothing]
  /\ wmsOld = {}
  /\ leader = [t \in Tiles |-> Nothing]
  /\ job = [g \in Goroutines |-> Free]
  /\ evictor = NoPass /\ prefetch = {} /\ stray = {}

-----------------------------------------------------------------------------
(* fetch: a fresh file answers at once, a stale one answers and starts a   *)
(* refresh, a missing one makes the caller fetch.                          *)
Serve(g, t) ==
  /\ job[g] = Free
  /\ IF wmsFile[t] = Nothing
     THEN job' = [job EXCEPT ![g] = Call(t, "start")]
     ELSE IF t \in wmsOld
     THEN \E r \in Refreshers : /\ job[r] = Free
                                /\ job' = [job EXCEPT ![r] = Call(t, "refresh")]
     ELSE UNCHANGED job
  /\ UNCHANGED <<wmsDisk, leader, evictor, stray>>

HandleProxy(g, t) == Serve(g, t) /\ UNCHANGED prefetch

(* handlePrefetch: every tile of the box, one per free slot, until all are *)
(* answered.                                                               *)
StartPrefetch ==
  /\ prefetch = {} /\ \A g \in Slots : job[g] = Free
  /\ prefetch' = Tiles
  /\ UNCHANGED <<wmsDisk, leader, job, evictor, stray>>

PrefetchTile(g, t) ==
  /\ t \in prefetch
  /\ Serve(g, t)
  /\ prefetch' = prefetch \ {t}

(* refreshAsync gives up when a fetch of the tile is in flight.            *)
RefreshAsync(r) ==
  /\ job[r].at = "refresh"
  /\ job' = [job EXCEPT ![r] = IF leader[@.tile] = Nothing THEN [@ EXCEPT !.at = "start"] ELSE Free]
  /\ UNCHANGED <<wmsDisk, leader, evictor, prefetch, stray>>

-----------------------------------------------------------------------------
(* Mutant: every fetch registers itself, none waits.                       *)
JoinWithoutLooking(g) ==
  /\ job[g].at = "start"
  /\ job' = [job EXCEPT ![g].at = "get", ![g].owner = TRUE]
  /\ leader' = [leader EXCEPT ![job[g].tile] = g]
  /\ UNCHANGED <<wmsDisk, evictor, prefetch, stray>>

(* fetchAndStore: wait for the fetch in flight, or be it.                  *)
Join(g) ==
  /\ job[g].at = "start"
  /\ IF leader[job[g].tile] # Nothing
     THEN /\ job' = [job EXCEPT ![g].at = "wait"]
          /\ UNCHANGED leader
     ELSE /\ job' = [job EXCEPT ![g].at = "get", ![g].owner = TRUE]
          /\ leader' = [leader EXCEPT ![job[g].tile] = g]
  /\ UNCHANGED <<wmsDisk, evictor, prefetch, stray>>

(* A woken follower reads the leader's file, or fetches unregistered.      *)
Woken(g) ==
  /\ job[g].at = "woken"
  /\ LET t == job[g].tile IN
     IF wmsFile[t] # Nothing
     THEN job' = [job EXCEPT ![g] = Free] /\ UNCHANGED stray
     ELSE job' = [job EXCEPT ![g].at = "get"] /\ stray' = stray \cup {t}
  /\ UNCHANGED <<wmsDisk, leader, evictor, prefetch>>

(* The return of fetchAndStore: the owner's deferred function leaves the   *)
(* map and wakes those who waited on it.                                   *)
Released(g, jobs) ==
  [h \in Goroutines |->
     IF h = g THEN Free
     ELSE IF jobs[g].owner /\ jobs[h].at = "wait" /\ jobs[h].tile = jobs[g].tile
     THEN [jobs[h] EXCEPT !.at = "woken"] ELSE jobs[h]]

(* Mutant: a failed fetch returns before the deferred function is set.     *)
LeaveWithoutWaking(g, jobs) == job' = [jobs EXCEPT ![g] = Free] /\ UNCHANGED leader

Leave(g, jobs) ==
  /\ job' = Released(g, jobs)
  /\ leader' = IF jobs[g].owner THEN [leader EXCEPT ![jobs[g].tile] = Nothing] ELSE leader

(* The upstream fails, times out, or the request that leads is closed.     *)
GetFails(g) ==
  /\ job[g].at = "get"
  /\ Leave(g, job)
  /\ UNCHANGED <<wmsDisk, evictor, prefetch, stray>>

(* os.WriteFile opens the temporary file and truncates it ...              *)
OpenTmp(g) ==
  /\ job[g].at = "get"
  /\ wmsTmp' = [wmsTmp EXCEPT ![job[g].tile] = "torn"]
  /\ job' = [job EXCEPT ![g].at = "write", ![g].out = "tmp"]
  /\ UNCHANGED <<wmsFile, wmsOld, leader, evictor, prefetch, stray>>

(* ... and writes the tile, wherever that file is by now.                  *)
WriteTmp(g) ==
  /\ job[g].at = "write"
  /\ LET t == job[g].tile IN
     /\ wmsTmp' = IF job[g].out = "tmp" THEN [wmsTmp EXCEPT ![t] = "whole"] ELSE wmsTmp
     /\ wmsFile' = IF job[g].out = "path" THEN [wmsFile EXCEPT ![t] = "whole"] ELSE wmsFile
  /\ job' = [job EXCEPT ![g].at = "rename", ![g].out = "gone"]
  /\ UNCHANGED <<wmsOld, leader, evictor, prefetch, stray>>

(* The disk fails: the tile is answered all the same.                      *)
KickEviction == evictor' = IF evictor.at = "idle" THEN [NoPass EXCEPT !.at = "walk"] ELSE evictor

WriteFails(g) ==
  /\ job[g].at = "write"
  /\ Leave(g, job)
  /\ KickEviction
  /\ UNCHANGED <<wmsDisk, prefetch, stray>>

(* The rename moves whatever the name holds, another fetch's file too: a   *)
(* fetch that still writes it then writes the tile being served.           *)
Moved(t) ==
  [h \in Goroutines |->
     IF job[h].tile # t \/ job[h].at # "write" THEN job[h]
     ELSE [job[h] EXCEPT !.out = IF @ = "tmp" THEN "path" ELSE "gone"]]

Rename(g) ==
  /\ job[g].at = "rename"
  /\ LET t == job[g].tile IN
     IF wmsTmp[t] = Nothing THEN Leave(g, job) /\ UNCHANGED wmsDisk
     ELSE /\ wmsFile' = [wmsFile EXCEPT ![t] = wmsTmp[t]]
          /\ wmsTmp' = [wmsTmp EXCEPT ![t] = Nothing]
          /\ wmsOld' = wmsOld \ {t}
          /\ Leave(g, Moved(t))
  /\ KickEviction
  /\ UNCHANGED <<prefetch, stray>>

-----------------------------------------------------------------------------
(* maybeEvict: one pass at a time lists the files, temporary ones too ...  *)
WmsFiles == ({"path"} \X {t \in Tiles : wmsFile[t] # Nothing})
            \cup ({"tmp"} \X {t \in Tiles : wmsTmp[t] # Nothing})

EvictWalk ==
  /\ evictor.at = "walk"
  /\ evictor' = IF TileSize * Cardinality(WmsFiles) <= MaxBytes THEN NoPass
                ELSE [at |-> "remove", seen |-> WmsFiles]
  /\ UNCHANGED <<wmsDisk, leader, job, prefetch, stray>>

(* ... and removes them, in an order that is left open here (the code goes *)
(* by the time they were written), until the listed total is 90% of the    *)
(* limit.  A fetch that still writes a removed file writes to nowhere.     *)
EvictTarget == MaxBytes - MaxBytes \div 10

Removed(name, t) ==
  [h \in Goroutines |->
     IF job[h].tile = t /\ job[h].out = name THEN [job[h] EXCEPT !.out = "gone"] ELSE job[h]]

EvictRemove ==
  /\ evictor.at = "remove"
  /\ IF TileSize * Cardinality(evictor.seen) <= EvictTarget
     THEN evictor' = NoPass /\ UNCHANGED <<wmsDisk, job>>
     ELSE \E f \in evictor.seen :
          /\ evictor' = [evictor EXCEPT !.seen = @ \ {f}]
          /\ job' = Removed(f[1], f[2])
          /\ IF f[1] = "path"
             THEN /\ wmsFile' = [wmsFile EXCEPT ![f[2]] = Nothing]
                  /\ wmsOld' = wmsOld \ {f[2]} /\ UNCHANGED wmsTmp
             ELSE /\ wmsTmp' = [wmsTmp EXCEPT ![f[2]] = Nothing]
                  /\ UNCHANGED <<wmsFile, wmsOld>>
  /\ UNCHANGED <<leader, prefetch, stray>>

(* A file passes staleAfter.                                               *)
GrowOld(t) ==
  /\ wmsFile[t] # Nothing /\ t \notin wmsOld
  /\ wmsOld' = wmsOld \cup {t}
  /\ UNCHANGED <<wmsFile, wmsTmp, leader, job, evictor, prefetch, stray>>

(* The process restarts on the same directory.                             *)
NewNoaaCache ==
  /\ leader' = [t \in Tiles |-> Nothing]
  /\ job' = [g \in Goroutines |-> Free]
  /\ evictor' = NoPass /\ prefetch' = {}
  /\ UNCHANGED <<wmsDisk, stray>>

FetchStep(g) ==
  \/ Join(g) \/ Woken(g) \/ GetFails(g) \/ OpenTmp(g) \/ WriteTmp(g) \/ WriteFails(g) \/ Rename(g)
  \/ g \in Refreshers /\ RefreshAsync(g)

WmsNext ==
  \/ \E g \in Handlers, t \in Tiles : HandleProxy(g, t)
  \/ \E g \in Slots, t \in Tiles : PrefetchTile(g, t)
  \/ StartPrefetch
  \/ \E g \in Goroutines : FetchStep(g)
  \/ EvictWalk \/ EvictRemove
  \/ \E t \in Tiles : GrowOld(t)
  \/ NewNoaaCache

WmsSpec == WmsInit /\ [][WmsNext]_wmsVars

(* Every fetch goes on: the client's timeout ends one whose upstream does  *)
(* not answer.                                                             *)
WmsFairness == \A g \in Goroutines : WF_wmsVars(FetchStep(g))

-----------------------------------------------------------------------------
(* A tile file is always a whole tile, unless a follower of a failed fetch *)
(* has fetched the tile on its own: the registration of the fetch is all   *)
(* that keeps two writers from one temporary file.                         *)
TornOnlyAfterStray ==
  \A t \in Tiles : wmsFile[t] = "torn" => t \in stray

(* At most one goroutine at a time fetches a tile from NOAA: "concurrent   *)
(* requests for the same tile only fetch once" (noaa_cache.go:73).         *)
FetchesOnce ==
  \A g, h \in Goroutines :
     /\ job[g].at = "get" /\ job[h].at = "get"
     /\ job[g].tile = job[h].tile
     => g = h

(* A request that waits on another's fetch is released, whatever becomes   *)
(* of that fetch.                                                          *)
FollowersReleased == \A g \in Goroutines : job[g].at = "wait" ~> job[g].at # "wait"
=============================================================================
