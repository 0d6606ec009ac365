---------------------------- MODULE ChartProofs -----------------------------
(***************************************************************************)
(* What the cache of an upstream's tiles holds (WmsCache), what a chart    *)
(* request comes to (ChartProxy), and what an ingest leaves: the documents *)
(* of a cell (ChartIngest) and those of the land map (OsmIngest), for any  *)
(* tiles, servers, releases and extracts and any number of requests,       *)
(* failures and stopped jobs.                                              *)
(***************************************************************************)
EXTENDS WmsCache, ChartProxy, ChartIngest, OsmIngest, Recursions, FiniteSetTheorems, TLAPS

-----------------------------------------------------------------------------
(* Tiles of an upstream.  A torn tile is only ever served after a follower *)
(* fetched it on its own.  The argument: while no follower has, a fetch of *)
(* the tile that is under way is the one registered in flight, so there is *)
(* one, and the temporary file is its.                                     *)
Steps == {"free", "start", "refresh", "wait", "woken", "get", "write", "rename"}
Jobs == [at : Steps, tile : Tiles \cup {Nothing}, owner : BOOLEAN, out : {"gone", "tmp", "path"}]
Contents == {Nothing, "torn", "whole"}
Fetching == {"get", "write", "rename"}

WmsType ==
  /\ wmsFile \in [Tiles -> Contents] /\ wmsTmp \in [Tiles -> Contents]
  /\ leader \in [Tiles -> Goroutines \cup {Nothing}]
  /\ job \in [Goroutines -> Jobs]
  /\ \A g \in Goroutines : job[g].at # "free" => job[g].tile \in Tiles

(* What the fetch g of tile t has under way, when it is the only one.      *)
TmpIsOf(g, t) ==
  /\ job[g].at = "write" => \/ job[g].out = "tmp" /\ wmsTmp[t] = "torn"
                            \/ job[g].out = "gone" /\ wmsTmp[t] = Nothing
  /\ job[g].at = "rename" => wmsTmp[t] # "torn"

Registered(g, t) ==
  job[g].at \in Fetching /\ job[g].tile = t => job[g].owner /\ leader[t] = g /\ TmpIsOf(g, t)

(* The eviction pass lists files of the cache.                             *)
SeenFiles ==
  evictor \in [at : {"idle", "walk", "remove"}, seen : SUBSET ({"path", "tmp"} \X Tiles)]

WmsInv ==
  /\ WmsType
  /\ \A t \in Tiles : t \notin stray => wmsFile[t] # "torn" /\ \A g \in Goroutines : Registered(g, t)

(* What Free and a new call are.                                           *)
LEMMA JobsMade ==
  /\ Free \in Jobs /\ Free.at = "free"
  /\ \A t \in Tiles, a \in Steps :
       Call(t, a) \in Jobs /\ Call(t, a).at = a /\ Call(t, a).tile = t
  BY DEF Free, Call, Jobs, Steps

(* A step in which no job starts, advances or leaves a fetch, and the      *)
(* files of the cache are as they were.                                    *)
LEMMA NoFetchMoves ==
  ASSUME WmsInv, UNCHANGED <<wmsFile, wmsTmp, leader>>, stray \subseteq stray',
         job' \in [Goroutines -> Jobs],
         \A g \in Goroutines : job'[g].at # "free" => job'[g].tile \in Tiles,
         \A g \in Goroutines :
           job'[g].at \in Fetching => job'[g] = job[g] \/ job'[g].tile \in stray'
  PROVE  WmsInv'
<1>1. WmsType'
  BY DEF WmsInv, WmsType
<1>2. ASSUME NEW t \in Tiles, t \notin stray', NEW g \in Goroutines
      PROVE  Registered(g, t)'
  BY <1>2 DEF WmsInv, Registered, TmpIsOf
<1>3. \A t \in Tiles : t \notin stray' => wmsFile'[t] # "torn"
  BY DEF WmsInv
<1> QED
  BY <1>1, <1>2, <1>3 DEF WmsInv

(* Serving starts no fetch by itself.                                      *)
LEMMA ServeInv ==
  ASSUME WmsInv, NEW g \in Goroutines, NEW t \in Tiles, Serve(g, t)
  PROVE  WmsInv'
<1>1. PICK h \in Goroutines, a \in {"start", "refresh"} : job' = [job EXCEPT ![h] = Call(t, a)] \/ job' = job
  BY DEF Serve, Goroutines
<1>2. Call(t, a) \in Jobs /\ Call(t, a).at = a /\ Call(t, a).tile = t
  BY JobsMade DEF Steps
<1>3. job' \in [Goroutines -> Jobs] /\ \A i \in Goroutines : job'[i] = job[i] \/ job'[i] = Call(t, a)
  BY <1>1, <1>2 DEF WmsInv, WmsType
<1> QED
  BY <1>2, <1>3, NoFetchMoves DEF Serve, wmsDisk, WmsInv, WmsType, Fetching

(* The end of a fetch: its registration goes, and no other depends on it.  *)
LEMMA LeaveInv ==
  ASSUME WmsInv, NEW g \in Goroutines, job[g].at \in Fetching, NEW jobs \in [Goroutines -> Jobs],
         Leave(g, jobs), jobs[g].tile = job[g].tile, jobs[g].owner = job[g].owner,
         \A h \in Goroutines : /\ jobs[h].at = job[h].at /\ jobs[h].tile = job[h].tile
                               /\ jobs[h].owner = job[h].owner
                               /\ jobs[h].out = job[h].out \/ job[h].tile = job[g].tile,
         UNCHANGED stray, wmsFile' \in [Tiles -> Contents], wmsTmp' \in [Tiles -> Contents],
         \A t \in Tiles : t # job[g].tile => wmsFile'[t] = wmsFile[t] /\ wmsTmp'[t] = wmsTmp[t],
         job[g].tile \notin stray => wmsFile'[job[g].tile] # "torn"
  PROVE  WmsInv'
<1> DEFINE t == job[g].tile
<1>1. t \in Tiles
  BY DEF WmsInv, WmsType, Fetching
<1>2. /\ job' \in [Goroutines -> Jobs]
      /\ \A h \in Goroutines : job'[h].at # "free" => job'[h].tile \in Tiles
  <2>1. ASSUME NEW h \in Goroutines
        PROVE  /\ Released(g, jobs)[h] \in Jobs
               /\ Released(g, jobs)[h].at # "free" => Released(g, jobs)[h].tile \in Tiles
    BY JobsMade DEF Released, Jobs, Steps, WmsInv, WmsType
  <2> QED
    BY <2>1 DEF Leave, Released
<1>3. leader' \in [Tiles -> Goroutines \cup {Nothing}]
  BY DEF Leave, WmsInv, WmsType
<1>4. \A s \in Tiles : s \notin stray' => wmsFile'[s] # "torn"
  BY DEF WmsInv
<1>5. ASSUME NEW h \in Goroutines, NEW s \in Tiles, s \notin stray, job'[h].at \in Fetching, job'[h].tile = s
      PROVE  job'[h].owner /\ leader'[s] = h /\ TmpIsOf(h, s)'
  <2>1. h # g /\ job'[h] = jobs[h]
    BY <1>5, JobsMade DEF Leave, Released, Fetching
  <2>2. job[h].at \in Fetching /\ job[h].tile = s
    BY <1>5, <2>1
  <2>3. job[h].owner /\ leader[s] = h /\ TmpIsOf(h, s)
    BY <1>5, <2>2 DEF WmsInv, Registered
  <2>4. s # t
    BY <1>5, <2>1, <2>3 DEF WmsInv, Registered
  <2>5. leader'[s] = leader[s]
    BY <2>4 DEF Leave, WmsInv, WmsType
  <2> QED
    BY <2>1, <2>2, <2>3, <2>4, <2>5 DEF TmpIsOf
<1> QED
  BY <1>2, <1>3, <1>4, <1>5 DEF WmsInv, WmsType, Registered

-----------------------------------------------------------------------------
(* Every step keeps the invariant.                                         *)

(* A fetch that joins registers itself only where none is registered.      *)
LEMMA JoinInv ==
  ASSUME WmsInv, NEW g \in Goroutines, Join(g)
  PROVE  WmsInv'
<1> DEFINE t == job[g].tile
<1>1. t \in Tiles /\ job[g] \in Jobs /\ UNCHANGED <<wmsFile, wmsTmp, stray>>
  BY DEF Join, WmsInv, WmsType, wmsDisk
<1>2. CASE leader[t] # Nothing
  <2>1. job' = [job EXCEPT ![g].at = "wait"] /\ UNCHANGED leader
    BY <1>2 DEF Join
  <2> QED
    BY <1>1, <2>1, NoFetchMoves DEF WmsInv, WmsType, Jobs, Steps, Fetching
<1>3. CASE leader[t] = Nothing
  <2>1. /\ job' = [job EXCEPT ![g].at = "get", ![g].owner = TRUE]
        /\ leader' = [leader EXCEPT ![t] = g]
    BY <1>3 DEF Join
  <2>2. WmsType'
    BY <1>1, <2>1 DEF WmsInv, WmsType, Jobs, Steps
  <2>3. ASSUME NEW s \in Tiles, s \notin stray, NEW h \in Goroutines
        PROVE  Registered(h, s)'
    <3>1. CASE h = g
      BY <1>1, <2>1, <3>1 DEF Registered, TmpIsOf, WmsInv, WmsType, Jobs
    <3>2. CASE h # g
      <4>1. job'[h] = job[h] /\ Registered(h, s) /\ h # Nothing
        BY <2>1, <2>3, <3>2, WmsAssumption DEF WmsInv, WmsType, Goroutines
      <4> QED
        BY <1>1, <1>3, <2>1, <4>1 DEF Registered, TmpIsOf, WmsInv, WmsType
    <3> QED
      BY <3>1, <3>2
  <2> QED
    BY <1>1, <2>2, <2>3 DEF WmsInv
<1> QED
  BY <1>2, <1>3

(* A woken follower that fetches leaves a mark.                            *)
LEMMA WokenInv ==
  ASSUME WmsInv, NEW g \in Goroutines, Woken(g)
  PROVE  WmsInv'
<1> DEFINE t == job[g].tile
<1>1. t \in Tiles /\ job[g] \in Jobs /\ UNCHANGED <<wmsFile, wmsTmp, leader>>
  BY DEF Woken, WmsInv, WmsType, wmsDisk
<1>2. CASE job' = [job EXCEPT ![g] = Free] /\ UNCHANGED stray
  BY <1>1, <1>2, JobsMade, NoFetchMoves DEF WmsInv, WmsType, Fetching
<1>3. CASE job' = [job EXCEPT ![g].at = "get"] /\ stray' = stray \cup {t}
  BY <1>1, <1>3, NoFetchMoves DEF WmsInv, WmsType, Jobs, Steps
<1> QED
  BY <1>2, <1>3 DEF Woken

LEMMA RefreshAsyncInv ==
  ASSUME WmsInv, NEW r \in Goroutines, RefreshAsync(r)
  PROVE  WmsInv'
<1>1. job[r] \in Jobs /\ UNCHANGED <<wmsFile, wmsTmp, leader, stray>>
  BY DEF RefreshAsync, WmsInv, WmsType, wmsDisk
<1>2. CASE job' = [job EXCEPT ![r] = Free]
  BY <1>1, <1>2, JobsMade, NoFetchMoves DEF WmsInv, WmsType, Fetching
<1>3. CASE job' = [job EXCEPT ![r] = [job[r] EXCEPT !.at = "start"]]
  BY <1>1, <1>3, NoFetchMoves DEF RefreshAsync, WmsInv, WmsType, Jobs, Steps, Fetching
<1> QED
  BY <1>2, <1>3 DEF RefreshAsync, WmsInv, WmsType

LEMMA FailsInv ==
  ASSUME WmsInv, NEW g \in Goroutines, GetFails(g) \/ WriteFails(g)
  PROVE  WmsInv'
<1>1. job \in [Goroutines -> Jobs] /\ job[g].at \in Fetching /\ Leave(g, job)
  BY DEF GetFails, WriteFails, WmsInv, WmsType, Fetching
<1>2. UNCHANGED <<wmsFile, wmsTmp, stray>>
  BY DEF GetFails, WriteFails, wmsDisk
<1> QED
  BY <1>1, <1>2, LeaveInv DEF WmsInv, WmsType, Fetching

(* Opening the temporary file, and writing it: the file of the one fetch   *)
(* under way, and of no other.                                             *)
LEMMA OpenTmpInv ==
  ASSUME WmsInv, NEW g \in Goroutines, OpenTmp(g)
  PROVE  WmsInv'
<1> DEFINE t == job[g].tile
<1>1. t \in Tiles /\ job[g] \in Jobs /\ UNCHANGED <<wmsFile, leader, stray>>
  BY DEF OpenTmp, WmsInv, WmsType
<1>2. /\ wmsTmp' = [wmsTmp EXCEPT ![t] = "torn"]
      /\ job' = [job EXCEPT ![g].at = "write", ![g].out = "tmp"]
  BY DEF OpenTmp
<1>3. WmsType'
  BY <1>1, <1>2 DEF WmsInv, WmsType, Jobs, Steps, Contents
<1>4. ASSUME NEW s \in Tiles, s \notin stray, NEW h \in Goroutines
      PROVE  Registered(h, s)'
  <2>1. Registered(h, s) /\ Registered(g, s)
    BY <1>4 DEF WmsInv
  <2>2. job[g].at = "get"
    BY DEF OpenTmp
  <2>3. CASE h = g
    BY <1>1, <1>2, <2>1, <2>2, <2>3 DEF Registered, TmpIsOf, WmsInv, WmsType, Jobs, Fetching
  <2>4. CASE h # g
    BY <1>1, <1>2, <2>1, <2>2, <2>4 DEF Registered, TmpIsOf, WmsInv, WmsType, Fetching
  <2> QED
    BY <2>3, <2>4
<1> QED
  BY <1>1, <1>3, <1>4 DEF WmsInv

LEMMA WriteTmpInv ==
  ASSUME WmsInv, NEW g \in Goroutines, WriteTmp(g)
  PROVE  WmsInv'
<1> DEFINE t == job[g].tile
<1>1. t \in Tiles /\ job[g] \in Jobs /\ job[g].at = "write" /\ UNCHANGED <<leader, stray>>
  BY DEF WriteTmp, WmsInv, WmsType
<1>2. /\ wmsTmp' = IF job[g].out = "tmp" THEN [wmsTmp EXCEPT ![t] = "whole"] ELSE wmsTmp
      /\ wmsFile' = IF job[g].out = "path" THEN [wmsFile EXCEPT ![t] = "whole"] ELSE wmsFile
      /\ job' = [job EXCEPT ![g].at = "rename", ![g].out = "gone"]
  BY DEF WriteTmp
<1>3. WmsType'
  BY <1>1, <1>2 DEF WmsInv, WmsType, Jobs, Steps, Contents
<1>4. ASSUME NEW s \in Tiles, s \notin stray, NEW h \in Goroutines
      PROVE  Registered(h, s)'
  <2>1. Registered(h, s) /\ Registered(g, s)
    BY <1>4 DEF WmsInv
  <2>3. CASE h = g
    BY <1>1, <1>2, <2>1, <2>3, WmsAssumption DEF Registered, TmpIsOf, WmsInv, WmsType, Jobs, Fetching
  <2>4. CASE h # g
    BY <1>1, <1>2, <2>1, <2>4 DEF Registered, TmpIsOf, WmsInv, WmsType, Fetching
  <2> QED
    BY <2>3, <2>4
<1>5. \A s \in Tiles : s \notin stray => wmsFile'[s] # "torn"
  BY <1>1, <1>2 DEF WmsInv, WmsType
<1> QED
  BY <1>1, <1>3, <1>4, <1>5 DEF WmsInv

(* What the rename moves over the tile is whole.                           *)
LEMMA RenameInv ==
  ASSUME WmsInv, NEW g \in Goroutines, Rename(g)
  PROVE  WmsInv'
<1> DEFINE t == job[g].tile
<1>1. /\ t \in Tiles /\ job[g] \in Jobs /\ job[g].at = "rename" /\ UNCHANGED stray
      /\ job[g].at \in Fetching /\ job \in [Goroutines -> Jobs]
  BY DEF Rename, WmsInv, WmsType, Fetching
<1>2. CASE wmsTmp[t] = Nothing
  <2>1. Leave(g, job) /\ UNCHANGED <<wmsFile, wmsTmp>>
    BY <1>2 DEF Rename, wmsDisk
  <2> QED
    BY <1>1, <2>1, LeaveInv DEF WmsInv, WmsType
<1>3. CASE wmsTmp[t] # Nothing
  <2>1. /\ wmsFile' = [wmsFile EXCEPT ![t] = wmsTmp[t]]
        /\ wmsTmp' = [wmsTmp EXCEPT ![t] = Nothing]
        /\ Leave(g, Moved(t))
    BY <1>3 DEF Rename
  <2>2. ASSUME NEW h \in Goroutines
        PROVE  /\ Moved(t)[h] \in Jobs
               /\ Moved(t)[h].at = job[h].at /\ Moved(t)[h].tile = job[h].tile
               /\ Moved(t)[h].owner = job[h].owner
               /\ Moved(t)[h].out = job[h].out \/ job[h].tile = t
    BY <1>1 DEF Moved, Jobs
  <2>3. Moved(t) \in [Goroutines -> Jobs]
    BY <2>2 DEF Moved
  <2>4. t \notin stray => wmsTmp[t] # "torn"
    BY <1>1 DEF WmsInv, Registered, TmpIsOf
  <2>5. /\ wmsFile' \in [Tiles -> Contents] /\ wmsTmp' \in [Tiles -> Contents]
        /\ \A s \in Tiles : s # t => wmsFile'[s] = wmsFile[s] /\ wmsTmp'[s] = wmsTmp[s]
        /\ t \notin stray => wmsFile'[t] # "torn"
    BY <1>1, <2>1, <2>4 DEF WmsInv, WmsType, Contents
  <2> QED
    BY <1>1, <2>1, <2>2, <2>3, <2>5, LeaveInv
<1> QED
  BY <1>2, <1>3

(* The eviction pass takes the temporary file from the fetch that writes   *)
(* it: what is written then goes nowhere.                                  *)
LEMMA EvictRemoveInv ==
  ASSUME WmsInv, SeenFiles, EvictRemove
  PROVE  WmsInv'
<1>1. UNCHANGED <<leader, stray>>
  BY DEF EvictRemove
<1>2. CASE UNCHANGED <<wmsFile, wmsTmp, wmsOld, job>>
  BY <1>1, <1>2, NoFetchMoves DEF WmsInv, WmsType
<1>3. CASE \E f \in evictor.seen :
            /\ job' = Removed(f[1], f[2])
            /\ IF f[1] = "path"
               THEN wmsFile' = [wmsFile EXCEPT ![f[2]] = Nothing] /\ UNCHANGED wmsTmp
               ELSE wmsTmp' = [wmsTmp EXCEPT ![f[2]] = Nothing] /\ UNCHANGED wmsFile
  <2>1. PICK f \in {"path", "tmp"} \X Tiles :
            /\ job' = Removed(f[1], f[2])
            /\ IF f[1] = "path"
               THEN wmsFile' = [wmsFile EXCEPT ![f[2]] = Nothing] /\ UNCHANGED wmsTmp
               ELSE wmsTmp' = [wmsTmp EXCEPT ![f[2]] = Nothing] /\ UNCHANGED wmsFile
    BY <1>3 DEF SeenFiles
  <2>2. ASSUME NEW h \in Goroutines
        PROVE  /\ job'[h] \in Jobs
               /\ job'[h].at = job[h].at /\ job'[h].tile = job[h].tile /\ job'[h].owner = job[h].owner
               /\ job'[h].out = IF job[h].tile = f[2] /\ job[h].out = f[1] THEN "gone" ELSE job[h].out
    BY <2>1 DEF Removed, Jobs, WmsInv, WmsType
  <2>3. WmsType'
    BY <1>1, <2>1, <2>2 DEF Removed, WmsInv, WmsType, Contents
  <2>4. ASSUME NEW s \in Tiles, s \notin stray, NEW h \in Goroutines
        PROVE  Registered(h, s)'
    <3>1. Registered(h, s)
      BY <2>4 DEF WmsInv
    <3>2. /\ f[1] \in {"path", "tmp"}
          /\ wmsTmp'[s] = IF f[1] = "tmp" /\ f[2] = s THEN Nothing ELSE wmsTmp[s]
      BY <2>1 DEF WmsInv, WmsType
    <3> QED
      BY <1>1, <2>1, <2>2, <3>1, <3>2, WmsAssumption DEF Registered, TmpIsOf
  <2>5. \A s \in Tiles : s \notin stray => wmsFile'[s] # "torn"
    BY <2>1, WmsAssumption DEF WmsInv, WmsType
  <2> QED
    BY <1>1, <2>3, <2>4, <2>5 DEF WmsInv
<1> QED
  BY <1>2, <1>3 DEF EvictRemove, wmsDisk

(* After a restart nothing is under way; half a temporary file may be left.*)
LEMMA NewNoaaCacheInv ==
  ASSUME WmsInv, NewNoaaCache
  PROVE  WmsInv'
<1>1. UNCHANGED <<wmsFile, wmsTmp, stray>>
  BY DEF NewNoaaCache, wmsDisk
<1>2. WmsType' /\ \A g \in Goroutines : job'[g].at \notin Fetching
  BY <1>1, JobsMade DEF NewNoaaCache, WmsInv, WmsType, Fetching
<1> QED
  BY <1>1, <1>2 DEF WmsInv, Registered

(* What the eviction pass has listed stays what it is.                     *)
LEMMA SeenFilesInv ==
  ASSUME SeenFiles, [WmsNext]_wmsVars
  PROVE  SeenFiles'
<1> DEFINE Passes == [at : {"idle", "walk", "remove"}, seen : SUBSET ({"path", "tmp"} \X Tiles)]
<1>1. NoPass \in Passes /\ [NoPass EXCEPT !.at = "walk"] \in Passes
  BY DEF NoPass
<1>2. WmsFiles \subseteq {"path", "tmp"} \X Tiles
  BY DEF WmsFiles
<1>3. ASSUME KickEviction
      PROVE  SeenFiles'
  BY <1>1, <1>3 DEF SeenFiles, KickEviction
<1>4. CASE EvictWalk
  BY <1>1, <1>2, <1>4 DEF SeenFiles, EvictWalk
<1>5. CASE EvictRemove
  <2>1. evictor' = NoPass \/ \E f \in evictor.seen : evictor' = [evictor EXCEPT !.seen = @ \ {f}]
    BY <1>5 DEF EvictRemove
  <2> QED
    BY <1>1, <2>1 DEF SeenFiles
<1>6. CASE NewNoaaCache
  BY <1>1, <1>6 DEF SeenFiles, NewNoaaCache
<1>7. CASE UNCHANGED evictor
  BY <1>7 DEF SeenFiles
<1>8. ASSUME NEW g \in Goroutines, FetchStep(g)
      PROVE  KickEviction \/ UNCHANGED evictor
  BY <1>8 DEF FetchStep, Join, Woken, GetFails, OpenTmp, WriteTmp, WriteFails, Rename, RefreshAsync
<1> QED
  BY <1>3, <1>4, <1>5, <1>6, <1>7, <1>8
  DEF WmsNext, HandleProxy, PrefetchTile, Serve, StartPrefetch, GrowOld, wmsVars

-----------------------------------------------------------------------------
(* A tile file is a whole tile unless a follower of a failed fetch has     *)
(* fetched that tile on its own (noaa_cache.go:293), whatever requests     *)
(* come, whatever fails, is evicted or restarted.                          *)
THEOREM WholeUnlessStray == WmsSpec => []TornOnlyAfterStray
<1>1. WmsInit => WmsInv /\ SeenFiles
  <2> SUFFICES ASSUME WmsInit
               PROVE  WmsInv /\ SeenFiles
    OBVIOUS
  <2>1. WmsType /\ \A g \in Goroutines : job[g].at \notin Fetching
    BY JobsMade DEF WmsInit, WmsType, Contents, Fetching
  <2>2. \A t \in Tiles : wmsFile[t] # "torn"
    BY WmsAssumption DEF WmsInit
  <2> QED
    BY <2>1, <2>2 DEF WmsInit, WmsInv, Registered, SeenFiles, NoPass
<1>2. WmsInv /\ SeenFiles /\ [WmsNext]_wmsVars => WmsInv'
  <2> SUFFICES ASSUME WmsInv, SeenFiles, [WmsNext]_wmsVars
               PROVE  WmsInv'
    OBVIOUS
  <2>1. ASSUME NEW g \in Handlers \cup Slots, NEW t \in Tiles, HandleProxy(g, t) \/ PrefetchTile(g, t)
        PROVE  WmsInv'
    BY <2>1, ServeInv DEF HandleProxy, PrefetchTile, Goroutines
  <2>2. ASSUME NEW g \in Goroutines, FetchStep(g)
        PROVE  WmsInv'
    BY <2>2, JoinInv, WokenInv, RefreshAsyncInv, FailsInv, OpenTmpInv, WriteTmpInv, RenameInv
    DEF FetchStep
  <2>3. CASE EvictRemove
    BY <2>3, EvictRemoveInv
  <2>4. CASE NewNoaaCache
    BY <2>4, NewNoaaCacheInv
  <2>5. CASE UNCHANGED <<wmsFile, wmsTmp, leader, job, stray>>
    BY <2>5, NoFetchMoves DEF WmsInv, WmsType
  <2> QED
    BY <2>1, <2>2, <2>3, <2>4, <2>5
    DEF WmsNext, StartPrefetch, EvictWalk, GrowOld, wmsDisk, wmsVars
<1>3. SeenFiles /\ [WmsNext]_wmsVars => SeenFiles'
  BY SeenFilesInv
<1>4. WmsInv => TornOnlyAfterStray
  BY DEF WmsInv, TornOnlyAfterStray
<1> QED
  BY <1>1, <1>2, <1>3, <1>4, PTL DEF WmsSpec

-----------------------------------------------------------------------------
(* Forwarding.  hop tells that the request has been forwarded.             *)
HopTells == hops \in Nat /\ (hop \/ hops = 0) /\ hops <= 1

(* A request is forwarded at most once, whatever the servers and their     *)
(* upstreams (proxy.go:38).                                                *)
THEOREM NoForwardingLoop == ProxySpec => []ForwardedOnce
<1>1. ProxyInit => HopTells
  BY DEF ProxyInit, HopTells
<1>2. HopTells /\ [ProxyNext]_proxyVars => HopTells'
  <2> SUFFICES ASSUME HopTells, [ProxyNext]_proxyVars
               PROVE  HopTells'
    OBVIOUS
  <2> USE DEF HopTells
  <2>1. CASE Configure
    BY <2>1 DEF Configure
  <2>2. CASE Forward
    BY <2>2 DEF Forward, Forwards, Rewrite
  <2>3. CASE Unreachable
    BY <2>3 DEF Unreachable
  <2>4. CASE Answer
    BY <2>4 DEF Answer
  <2>5. CASE UNCHANGED proxyVars
    BY <2>5 DEF proxyVars
  <2> QED
    BY <2>1, <2>2, <2>3, <2>4, <2>5 DEF ProxyNext
<1>3. HopTells => ForwardedOnce
  BY DEF HopTells, ForwardedOnce
<1> QED
  BY <1>1, <1>2, <1>3, PTL DEF ProxySpec

-----------------------------------------------------------------------------
(* A cell skipped as current holds its release.  The argument: a pass that *)
(* no other overlaps finds its own writes in place, so the metadata it     *)
(* writes describes the documents; and metadata that counts as current is  *)
(* of that release, parsed as this build would.                            *)
Known == 1 .. Len(Releases)

FilesKnown ==
  /\ published \in Known /\ parser \in Nat \ {0}
  /\ cellDir \in {Nil} \cup [release : Known, part : {"torn", "base", "whole"}]
  /\ pass = [r \in Runners |-> pass[r]]
  /\ \A r \in Runners : pass[r].at = "extract" => pass[r].zip \in Known

(* The pass of r has release n in hand, and its share of it is written.    *)
InHand(r, n) ==
  pass[r] \in [at : {"upsert", "meta"}, parsed : {ParseCell(n, parser)}, left : SUBSET Releases[n][3],
               refused : SUBSET Releases[n][3], lone : BOOLEAN]

Wrote(r, n) ==
  /\ \A id \in Releases[n][3] \ (pass[r].left \cup pass[r].refused) : docs[id] = Origin(n, parser)
  /\ pass[r].at = "meta" =>
       pass[r].left = {} /\ \A id \in Ids \ Releases[n][3] : docs[id] = Nil

LoneWrites ==
  \A r \in Runners : Writing(r) =>
    /\ pass[r].lone => \A q \in Runners : Writing(q) => q = r
    /\ \E n \in Known : InHand(r, n) /\ (pass[r].lone => Wrote(r, n))

(* The documents are those of release n as parser p reads it.              *)
HoldsAs(n, p) ==
  \A id \in Ids \ missing : docs[id] = IF id \in Releases[n][3] THEN Origin(n, p) ELSE Nil

MetaDescribes ==
  meta # Nil =>
    \E n \in Known, p \in 1 .. parser : meta = ParseCell(n, p).meta /\ (whole => HoldsAs(n, p))

IngestInv == FilesKnown /\ LoneWrites /\ MetaDescribes

(* Releases are numbered.                                                  *)
LEMMA KnownReleases == Known = DOMAIN Releases
  BY IngestAssumption DEF Known

(* Releases are told apart by edition and update, and a current cell was   *)
(* parsed as this build would.                                             *)
LEMMA CurrentIsThisRelease ==
  ASSUME NEW n \in Known, NEW k \in Known, NEW p \in Nat, parser \in Nat,
         p <= parser, IsCurrent(ParseCell(n, p).meta, k)
  PROVE  n = k /\ Origin(n, p) = Origin(k, parser)
<1>1. Edition(n) = Edition(k) /\ Update(n) = Update(k)
  BY DEF IsCurrent, ParseCell
<1>2. n = k
  BY <1>1, ReleasesAssumption, KnownReleases
<1>3. Update(n) = 0 \/ p >= parser
  BY <1>2 DEF IsCurrent, ParseCell
<1> QED
  BY <1>2, <1>3 DEF Origin

LEMMA InvLoaded == IngestInv => CurrentIsLoaded
<1> SUFFICES ASSUME IngestInv, NEW k \in DOMAIN Releases, Current(k), whole
             PROVE  Loaded(k)
  BY DEF CurrentIsLoaded
<1>1. PICK n \in Known, p \in 1 .. parser : meta = ParseCell(n, p).meta /\ HoldsAs(n, p)
  BY DEF IngestInv, MetaDescribes, Current
<1>2. k \in Known /\ p \in Nat /\ parser \in Nat /\ p <= parser
  BY KnownReleases DEF IngestInv, FilesKnown
<1>3. n = k /\ Origin(n, p) = Origin(k, parser)
  BY <1>1, <1>2, CurrentIsThisRelease DEF Current
<1> QED
  BY <1>1, <1>3 DEF HoldsAs, Loaded

(* A step that leaves documents and metadata alone, and of the passes that *)
(* write lets some end, keeps the invariant.                               *)
LEMMA QuietStep ==
  ASSUME IngestInv, UNCHANGED <<docs, meta, parser, ghosts>>, FilesKnown',
         \A q \in Runners : pass'[q].at \in {"upsert", "meta"} => pass'[q] = pass[q]
  PROVE  IngestInv'
<1>2. LoneWrites'
  <2> SUFFICES ASSUME NEW r \in Runners, Writing(r)'
               PROVE  /\ pass'[r].lone => \A q \in Runners : Writing(q)' => q = r
                      /\ \E n \in Known : InHand(r, n)' /\ (pass'[r].lone => Wrote(r, n)')
    BY DEF LoneWrites
  <2>1. Writing(r) /\ pass'[r] = pass[r] /\ \A q \in Runners : Writing(q)' => Writing(q)
    BY DEF Writing
  <2>2. PICK n \in Known : InHand(r, n) /\ (pass[r].lone => Wrote(r, n))
    BY <2>1 DEF IngestInv, LoneWrites
  <2>3. InHand(r, n)' /\ (pass'[r].lone => Wrote(r, n)')
    BY <2>1, <2>2 DEF InHand, Wrote, ParseCell, Origin
  <2> QED
    BY <2>1, <2>3 DEF IngestInv, LoneWrites
<1>3. MetaDescribes'
  BY DEF IngestInv, MetaDescribes, HoldsAs, ParseCell, Origin, ghosts
<1> QED
  BY <1>2, <1>3 DEF IngestInv

(* A pass that goes to a place where it does not write.                    *)
LEMMA QuietPass ==
  ASSUME IngestInv, NEW r \in Runners, NEW state, state.at \notin {"upsert", "meta", "extract"},
         pass' = [pass EXCEPT ![r] = state],
         UNCHANGED <<published, docs, meta, parser, ghosts>>,
         cellDir' \in {Nil} \cup [release : Known, part : {"torn", "base", "whole"}]
  PROVE  IngestInv'
<1>1. pass' = [q \in Runners |-> pass'[q]] /\ pass'[r] = state
      /\ \A q \in Runners : q # r => pass'[q] = pass[q]
  BY DEF IngestInv, FilesKnown
<1>2. FilesKnown'
  BY <1>1 DEF IngestInv, FilesKnown
<1> QED
  BY <1>1, <1>2, QuietStep

LEMMA DirKept == IngestInv => cellDir \in {Nil} \cup [release : Known, part : {"torn", "base", "whole"}]
  BY DEF IngestInv, FilesKnown

LEMMA SyncInv ==
  ASSUME IngestInv, NEW r \in Runners,
         RunOnce(r) \/ SyncBBox(r) \/ Lock(r) \/ DownloadFails(r) \/ SaveManifest(r) \/ CellsForBBox(r) \/ LookupMeta(r)
  PROVE  IngestInv'
<1>1. CASE RunOnce(r)
  <2>1. PICK state \in {[at |-> "sync"], Idle} : pass' = [pass EXCEPT ![r] = state]
    BY <1>1 DEF RunOnce, Step, Fail
  <2>2. state.at \notin {"upsert", "meta", "extract"}
    BY DEF Idle
  <2> QED
    BY <1>1, <2>1, <2>2, QuietPass, DirKept DEF RunOnce
<1>2. CASE SyncBBox(r)
  <2>1. PICK state \in {[at |-> "wait", cell |-> catalog], [at |-> "list"]} : pass' = [pass EXCEPT ![r] = state]
    BY <1>2 DEF SyncBBox, Step
  <2>2. state.at \notin {"upsert", "meta", "extract"}
    OBVIOUS
  <2> QED
    BY <1>2, <2>1, <2>2, QuietPass, DirKept DEF SyncBBox, stored
<1>3. CASE Lock(r)
  <2>1. PICK state \in {[at |-> "fetch", cell |-> pass[r].cell], [at |-> "list"]} : pass' = [pass EXCEPT ![r] = state]
    BY <1>3 DEF Lock, Step
  <2>2. state.at \notin {"upsert", "meta", "extract"}
    OBVIOUS
  <2> QED
    BY <1>3, <2>1, <2>2, QuietPass, DirKept DEF Lock, stored
<1>4. CASE DownloadFails(r)
  BY <1>4, QuietPass, DirKept DEF DownloadFails, stored
<1>5. CASE SaveManifest(r)
  BY <1>5, QuietPass, DirKept DEF SaveManifest, Step
<1>6. CASE CellsForBBox(r)
  BY <1>6, QuietPass, DirKept DEF CellsForBBox, Step, stored
<1>7. CASE LookupMeta(r)
  <2>1. PICK state \in {[at |-> "parse"], Idle} : pass' = [pass EXCEPT ![r] = state]
    BY <1>7 DEF LookupMeta, Step
  <2>2. state.at \notin {"upsert", "meta", "extract"}
    BY DEF Idle
  <2> QED
    BY <1>7, <2>1, <2>2, QuietPass, DirKept DEF LookupMeta, stored
<1> QED
  BY <1>1, <1>2, <1>3, <1>4, <1>5, <1>6, <1>7

LEMMA ExtractInv ==
  ASSUME IngestInv, NEW r \in Runners, Fetch(r) \/ Extract(r)
  PROVE  IngestInv'
<1>1. CASE Fetch(r)
  <2> DEFINE state == [at |-> "extract", cell |-> pass[r].cell, zip |-> published]
  <2>1. /\ pass' = [pass EXCEPT ![r] = state] /\ cellDir' = Nil
        /\ UNCHANGED <<published, docs, meta, parser, ghosts>>
    BY <1>1 DEF Fetch, Step
  <2>2. FilesKnown' /\ \A q \in Runners : pass'[q].at \in {"upsert", "meta"} => pass'[q] = pass[q]
    BY <2>1 DEF IngestInv, FilesKnown
  <2> QED
    BY <2>1, <2>2, QuietStep
<1>2. CASE Extract(r)
  <2>1. pass[r].zip \in Known /\ UNCHANGED <<published, docs, meta, parser, ghosts>>
    BY <1>2 DEF Extract, IngestInv, FilesKnown
  <2>2. cellDir' \in {Nil} \cup [release : Known, part : {"torn", "base", "whole"}]
    BY <1>2, <2>1, DirKept DEF Extract
  <2>3. CASE pass' = [pass EXCEPT ![r] = pass[r]]
    <3>1. pass' = pass
      BY <2>3 DEF IngestInv, FilesKnown
    <3>2. FilesKnown'
      BY <2>1, <2>2, <3>1 DEF IngestInv, FilesKnown
    <3> QED
      BY <2>1, <3>1, <3>2, QuietStep
  <2>4. CASE pass' = [pass EXCEPT ![r] = [at |-> "manifest", cell |-> pass[r].cell]]
    BY <2>1, <2>2, <2>4, QuietPass
  <2> QED
    BY <1>2, <2>3, <2>4 DEF Extract, Step
<1> QED
  BY <1>1, <1>2

(* A pass that begins to write is lone when no other writes; the others no *)
(* longer are.                                                             *)
LEMMA IngestCellFileInv ==
  ASSUME IngestInv, NEW r \in Runners, IngestCellFile(r)
  PROVE  IngestInv'
<1>1. UNCHANGED <<published, catalog, manifest, cellDir, docs, meta, parser, whole, missing>>
  BY DEF IngestCellFile, stored, ghosts
<1>2. CASE Step(r, Idle)
  BY <1>1, <1>2, QuietPass, DirKept DEF Step, Idle, ghosts
<1>3. CASE Readable /\ ~Step(r, Idle)
  <2> DEFINE n == DirRelease
             first == [at |-> "upsert", parsed |-> ParseCell(n, parser), left |-> DOMAIN ParseCell(n, parser).docs,
                       refused |-> {}, lone |-> \A o \in Runners : ~Writing(o)]
  <2>1. n \in Known
    <3>1. cellDir.release \in Known
      BY <1>3, DirKept DEF Readable
    <3>2. BaseOf(cellDir.release) \in Known
      BY <3>1, ReleasesAssumption, KnownReleases DEF BaseOf
    <3> QED
      BY <3>1, <3>2 DEF DirRelease
  <2>2. pass' = [q \in Runners |-> IF q = r THEN first
                                   ELSE IF Writing(q) THEN [pass[q] EXCEPT !.lone = FALSE] ELSE pass[q]]
    BY <1>3 DEF IngestCellFile
  <2>3. DOMAIN ParseCell(n, parser).docs = Releases[n][3]
    BY DEF ParseCell
  <2>4. ASSUME NEW q \in Runners, q # r, Writing(q)
        PROVE  \E k \in Known : InHand(q, k)' /\ pass'[q].lone = FALSE
    <3>1. PICK k \in Known : InHand(q, k)
      BY <2>4 DEF IngestInv, LoneWrites
    <3>2. pass'[q] = [pass[q] EXCEPT !.lone = FALSE]
      BY <2>2, <2>4
    <3>3. ParseCell(k, parser)' = ParseCell(k, parser)
      BY <1>1 DEF ParseCell, Origin
    <3>4. InHand(q, k)' /\ pass'[q].lone = FALSE
      BY <3>1, <3>2, <3>3 DEF InHand
    <3> QED
      BY <3>4
  <2>5. /\ pass'[r] = first /\ first.at = "upsert" /\ first.left = Releases[n][3] /\ first.refused = {}
        /\ first.parsed = ParseCell(n, parser) /\ first.lone \in BOOLEAN
        /\ first \in [at : {"upsert", "meta"}, parsed : {ParseCell(n, parser)}, left : SUBSET Releases[n][3],
                      refused : SUBSET Releases[n][3], lone : BOOLEAN]
    BY <2>2, <2>3
  <2>6. ParseCell(n, parser)' = ParseCell(n, parser)
    BY <1>1 DEF ParseCell, Origin, DirRelease, BaseOf
  <2>7. first.lone => \A q \in Runners : Writing(q)' => q = r
    BY <2>2 DEF Writing
  <2>8. \A q \in Runners : q # r /\ ~Writing(q) => pass'[q] = pass[q]
    BY <2>2
  <2>9. n' = n
    BY <1>1 DEF DirRelease, BaseOf
  <2> HIDE DEF first, n
  <2>10. InHand(r, n)' /\ Wrote(r, n)'
    BY <2>5, <2>6, <2>9 DEF InHand, Wrote
  <2>11. LoneWrites'
    <3> SUFFICES ASSUME NEW q \in Runners, Writing(q)'
                 PROVE  /\ pass'[q].lone => \A o \in Runners : Writing(o)' => o = q
                        /\ \E k \in Known : InHand(q, k)' /\ (pass'[q].lone => Wrote(q, k)')
      BY DEF LoneWrites
    <3>1. CASE q = r
      BY <2>1, <2>5, <2>7, <2>9, <2>10, <3>1
    <3>2. CASE q # r
      BY <2>4, <2>8, <3>2 DEF Writing
    <3> QED
      BY <3>1, <3>2
  <2>12. MetaDescribes'
    BY <1>1 DEF IngestInv, MetaDescribes, HoldsAs, ParseCell, Origin
  <2>13. FilesKnown'
    <3>1. pass' = [q \in Runners |-> pass'[q]]
      BY <2>2
    <3>2. \A q \in Runners : pass'[q].at = "extract" => pass'[q] = pass[q]
      <4> SUFFICES ASSUME NEW q \in Runners, pass'[q].at = "extract"
                   PROVE  pass'[q] = pass[q]
        OBVIOUS
      <4>1. q # r
        BY <2>5
      <4>2. ~Writing(q)
        BY <2>4, <4>1 DEF InHand
      <4> QED
        BY <2>8, <4>1, <4>2
    <3> QED
      BY <1>1, <3>1, <3>2 DEF IngestInv, FilesKnown
  <2> QED
    BY <2>11, <2>12, <2>13 DEF IngestInv
<1> QED
  BY <1>2, <1>3 DEF IngestCellFile

(* A pass that writes goes on, or ends; what the documents are now is what *)
(* it wrote, if it is lone, and the metadata no longer tells of them.      *)
LEMMA WritingStep ==
  ASSUME IngestInv, NEW r \in Runners, Writing(r), NEW state,
         pass' = [pass EXCEPT ![r] = state], state.at \in {"idle", "upsert", "meta"},
         UNCHANGED <<published, cellDir, meta, parser, missing>>,
         whole' = (whole /\ docs' = docs),
         state.at # "idle" =>
           state.lone = pass[r].lone /\ \E n \in Known : InHand(r, n)' /\ (state.lone => Wrote(r, n)')
  PROVE  IngestInv'
<1>1. pass' = [q \in Runners |-> pass'[q]] /\ pass'[r] = state
      /\ \A q \in Runners : q # r => pass'[q] = pass[q]
  BY DEF IngestInv, FilesKnown
<1>2. FilesKnown'
  BY <1>1 DEF IngestInv, FilesKnown
<1>3. MetaDescribes'
  <2> SUFFICES ASSUME meta # Nil
               PROVE  MetaDescribes'
    BY DEF MetaDescribes
  <2>1. PICK n \in Known, p \in 1 .. parser : meta = ParseCell(n, p).meta /\ (whole => HoldsAs(n, p))
    BY DEF IngestInv, MetaDescribes
  <2>2. whole' => whole /\ docs' = docs
    OBVIOUS
  <2>3. whole' => HoldsAs(n, p)'
    BY <2>1, <2>2 DEF HoldsAs
  <2>4. meta' = ParseCell(n, p).meta /\ p \in 1 .. parser'
    BY <2>1
  <2> QED
    BY <2>3, <2>4 DEF MetaDescribes, ParseCell
<1>4. LoneWrites'
  <2> SUFFICES ASSUME NEW q \in Runners, Writing(q)'
               PROVE  /\ pass'[q].lone => \A o \in Runners : Writing(o)' => o = q
                      /\ \E k \in Known : InHand(q, k)' /\ (pass'[q].lone => Wrote(q, k)')
    BY DEF LoneWrites
  <2>1. \A o \in Runners : Writing(o)' => Writing(o)
    BY <1>1 DEF Writing
  <2>2. CASE q = r
    BY <1>1, <2>1, <2>2 DEF IngestInv, LoneWrites, Writing
  <2>3. CASE q # r
    <3>1. pass'[q] = pass[q] /\ Writing(q) /\ ~pass[q].lone
      BY <1>1, <2>1, <2>3 DEF IngestInv, LoneWrites
    <3>2. PICK k \in Known : InHand(q, k)
      BY <3>1 DEF IngestInv, LoneWrites
    <3>3. InHand(q, k)'
      BY <3>1, <3>2 DEF InHand, ParseCell, Origin
    <3> QED
      BY <3>1, <3>3
  <2> QED
    BY <2>2, <2>3
<1> QED
  BY <1>2, <1>3, <1>4 DEF IngestInv

LEMMA UpsertDocsInv ==
  ASSUME IngestInv, NEW r \in Runners, UpsertDocs(r)
  PROVE  IngestInv'
<1>1. /\ Writing(r) /\ pass[r].at = "upsert"
      /\ UNCHANGED <<published, cellDir, meta, parser, missing>>
  BY DEF UpsertDocs, Writing
<1>2. PICK n \in Known : InHand(r, n) /\ (pass[r].lone => Wrote(r, n))
  BY <1>1 DEF IngestInv, LoneWrites
<1>3. ASSUME NEW ids, Touch(r, ids), Fail(r)
      PROVE  IngestInv'
  BY <1>1, <1>3, WritingStep DEF Touch, Fail, Idle
<1>4. ASSUME NEW batch \in SUBSET pass[r].left, NEW refused \in SUBSET pass[r].left,
             refused \subseteq batch, Touch(r, batch \ refused),
             Step(r, [pass[r] EXCEPT !.left = @ \ batch, !.refused = @ \cup refused])
      PROVE  IngestInv'
  <2> DEFINE state == [pass[r] EXCEPT !.left = @ \ batch, !.refused = @ \cup refused]
  <2>1. /\ state.at = "upsert" /\ state.lone = pass[r].lone /\ state.left = pass[r].left \ batch
        /\ state.refused = pass[r].refused \cup refused
        /\ state \in [at : {"upsert", "meta"}, parsed : {ParseCell(n, parser)}, left : SUBSET Releases[n][3],
                      refused : SUBSET Releases[n][3], lone : BOOLEAN]
    BY <1>1, <1>2 DEF InHand
  <2>2. pass' = [pass EXCEPT ![r] = state] /\ pass'[r] = state
    BY <1>4 DEF Step, IngestInv, FilesKnown
  <2>3. pass[r].parsed = ParseCell(n, parser) /\ Releases[n][3] \subseteq Ids
    BY <1>2, KnownReleases DEF InHand, Ids
  <2>4. /\ ParseCell(n, parser)' = ParseCell(n, parser) /\ Origin(n, parser)' = Origin(n, parser)
        /\ \A id \in Releases[n][3] : ParseCell(n, parser).docs[id] = Origin(n, parser)
    BY <1>1 DEF ParseCell, Origin
  <2> HIDE DEF state
  <2>5. docs' = [id \in Ids |-> IF id \in batch \ refused THEN ParseCell(n, parser).docs[id] ELSE docs[id]]
        /\ whole' = (whole /\ docs' = docs)
    BY <1>4, <2>3 DEF Touch, Written
  <2>6. InHand(r, n)'
    BY <2>1, <2>2, <2>4 DEF InHand
  <2>7. batch \subseteq Releases[n][3]
    BY <1>2 DEF InHand
  <2>8. pass[r].lone => Wrote(r, n)'
    BY <1>2, <2>1, <2>2, <2>3, <2>4, <2>5, <2>7 DEF Wrote
  <2> QED
    BY <1>1, <2>1, <2>2, <2>5, <2>6, <2>8, WritingStep
<1> QED
  BY <1>3, <1>4 DEF UpsertDocs

LEMMA PruneCellDocsInv ==
  ASSUME IngestInv, NEW r \in Runners, PruneCellDocs(r)
  PROVE  IngestInv'
<1>1. /\ Writing(r) /\ pass[r].at = "upsert" /\ pass[r].left = {}
      /\ UNCHANGED <<published, cellDir, meta, parser, missing>>
      /\ whole' = (whole /\ docs' = docs)
  BY DEF PruneCellDocs, Writing
<1>2. PICK n \in Known : InHand(r, n) /\ (pass[r].lone => Wrote(r, n))
  BY <1>1 DEF IngestInv, LoneWrites
<1>3. CASE Fail(r)
  BY <1>1, <1>3, WritingStep DEF Fail, Idle
<1>4. CASE ~Fail(r)
  <2> DEFINE state == [pass[r] EXCEPT !.at = "meta"]
  <2>1. /\ state.at = "meta" /\ state.lone = pass[r].lone /\ state.left = {} /\ state.refused = pass[r].refused
        /\ state \in [at : {"upsert", "meta"}, parsed : {ParseCell(n, parser)}, left : SUBSET Releases[n][3],
                      refused : SUBSET Releases[n][3], lone : BOOLEAN]
    BY <1>1, <1>2 DEF InHand
  <2>2. /\ docs' = [id \in Ids |-> IF id \in Stale(r) THEN Nil ELSE docs[id]]
        /\ pass' = [pass EXCEPT ![r] = state] /\ pass'[r] = state
    BY <1>4 DEF PruneCellDocs, Step, IngestInv, FilesKnown
  <2>3. Stale(r) = {id \in Ids : docs[id] # Nil} \ Releases[n][3] /\ Releases[n][3] \subseteq Ids
    BY <1>2, KnownReleases DEF InHand, Stale, ParseCell, Ids
  <2>4. ParseCell(n, parser)' = ParseCell(n, parser) /\ Origin(n, parser)' = Origin(n, parser)
    BY <1>1 DEF ParseCell, Origin
  <2> HIDE DEF state
  <2>5. InHand(r, n)'
    BY <2>1, <2>2, <2>4 DEF InHand
  <2>6. \A id \in Ids : docs'[id] = IF id \in Releases[n][3] THEN docs[id] ELSE Nil
    BY <2>2, <2>3
  <2>7. pass[r].lone => Wrote(r, n)'
    BY <1>1, <1>2, <2>1, <2>2, <2>3, <2>4, <2>6 DEF Wrote
  <2> QED
    BY <1>1, <2>1, <2>2, <2>5, <2>7, WritingStep
<1> QED
  BY <1>3, <1>4

(* A lone pass writes the metadata of what it wrote.                       *)
LEMMA WriteMetaInv ==
  ASSUME IngestInv, NEW r \in Runners, WriteMeta(r)
  PROVE  IngestInv'
<1>1. /\ Writing(r) /\ pass[r].at = "meta"
      /\ UNCHANGED <<published, cellDir, docs, parser>>
      /\ pass' = [pass EXCEPT ![r] = Idle] /\ Idle.at = "idle"
  BY DEF WriteMeta, Writing, Step, Fail, Idle
<1>2. PICK n \in Known : InHand(r, n) /\ (pass[r].lone => Wrote(r, n))
  BY <1>1 DEF IngestInv, LoneWrites
<1>3. CASE UNCHANGED <<meta, ghosts>>
  BY <1>1, <1>3, QuietPass, DirKept DEF ghosts
<1>4. CASE meta' = pass[r].parsed.meta /\ whole' = pass[r].lone /\ missing' = pass[r].refused
  <2>1. meta' = ParseCell(n, parser).meta /\ ParseCell(n, parser)' = ParseCell(n, parser) /\ parser \in 1 .. parser
    BY <1>1, <1>2, <1>4 DEF InHand, ParseCell, Origin, IngestInv, FilesKnown
  <2>2. whole' => HoldsAs(n, parser)'
    BY <1>1, <1>2, <1>4 DEF HoldsAs, Wrote, Origin
  <2>3. MetaDescribes'
    BY <1>1, <2>1, <2>2 DEF MetaDescribes, ParseCell
  <2>4. pass' = [q \in Runners |-> pass'[q]] /\ pass'[r] = Idle
        /\ \A q \in Runners : q # r => pass'[q] = pass[q]
    BY <1>1 DEF IngestInv, FilesKnown
  <2>5. FilesKnown'
    BY <1>1, <2>4 DEF IngestInv, FilesKnown
  <2>6. LoneWrites'
    <3> SUFFICES ASSUME NEW q \in Runners, Writing(q)'
                 PROVE  /\ pass'[q].lone => \A o \in Runners : Writing(o)' => o = q
                        /\ \E k \in Known : InHand(q, k)' /\ (pass'[q].lone => Wrote(q, k)')
      BY DEF LoneWrites
    <3>1. q # r /\ pass'[q] = pass[q] /\ Writing(q) /\ ~pass[q].lone
      BY <1>1, <2>4 DEF IngestInv, LoneWrites, Writing
    <3>2. PICK k \in Known : InHand(q, k)
      BY <3>1 DEF IngestInv, LoneWrites
    <3>3. InHand(q, k)'
      BY <1>1, <3>1, <3>2 DEF InHand, ParseCell, Origin
    <3> QED
      BY <3>1, <3>3
  <2> QED
    BY <2>3, <2>5, <2>6 DEF IngestInv
<1> QED
  BY <1>3, <1>4 DEF WriteMeta

(* A restart ends every pass, and the parser is no older.                  *)
LEMMA CloseInv ==
  ASSUME IngestInv, Close
  PROVE  IngestInv'
<1>1. /\ UNCHANGED <<published, cellDir, docs, meta, whole, missing>>
      /\ pass' = [r \in Runners |-> Idle] /\ Idle.at = "idle"
      /\ parser \in Nat \ {0} /\ parser' \in Nat \ {0} /\ parser <= parser'
  BY IngestAssumption DEF Close, stored, ghosts, Idle, IngestInv, FilesKnown
<1>2. FilesKnown' /\ LoneWrites'
  BY <1>1 DEF IngestInv, FilesKnown, LoneWrites, Writing
<1>3. MetaDescribes'
  <2> SUFFICES ASSUME meta # Nil
               PROVE  MetaDescribes'
    BY <1>1 DEF MetaDescribes
  <2>1. PICK n \in Known, p \in 1 .. parser : meta = ParseCell(n, p).meta /\ (whole => HoldsAs(n, p))
    BY DEF IngestInv, MetaDescribes
  <2>2. p \in 1 .. parser'
    BY <1>1
  <2>3. meta' = ParseCell(n, p).meta /\ (whole' => HoldsAs(n, p)')
    BY <1>1, <2>1 DEF HoldsAs
  <2> QED
    BY <2>2, <2>3 DEF MetaDescribes, ParseCell
<1> QED
  BY <1>2, <1>3 DEF IngestInv

(* A cell that a pass would skip as current holds exactly the documents of *)
(* that release, as this build parses it, save those the database refused  *)
(* (parse.go:57, ingest.go:98): for any releases, passes at a time, parser *)
(* versions and failures, unless passes overlapped in writing the cell or  *)
(* one began to since.                                                     *)
THEOREM CurrentCellIsLoaded == IngestSpec => []CurrentIsLoaded
<1>1. IngestInit => IngestInv
  <2> SUFFICES ASSUME IngestInit
               PROVE  IngestInv
    OBVIOUS
  <2>1. \A r \in Runners : pass[r].at = "idle"
    BY DEF IngestInit, Idle
  <2>2. 1 \in Known
    BY IngestAssumption DEF Known
  <2> QED
    BY <2>1, <2>2 DEF IngestInit, IngestInv, FilesKnown, LoneWrites, MetaDescribes, Writing
<1>2. IngestInv /\ [IngestNext]_ingestVars => IngestInv'
  <2> SUFFICES ASSUME IngestInv, [IngestNext]_ingestVars
               PROVE  IngestInv'
    OBVIOUS
  <2>1. CASE \E r \in Runners : RunnerStep(r)
    <3> PICK r \in Runners : RunnerStep(r)
      BY <2>1
    <3> QED
      BY SyncInv, ExtractInv, IngestCellFileInv, UpsertDocsInv, PruneCellDocsInv, WriteMetaInv
      DEF RunnerStep
  <2>2. CASE Close
    BY <2>2, CloseInv
  <2>3. CASE Publish
    <3>1. /\ UNCHANGED <<catalog, manifest, cellDir, docs, meta, parser, ghosts, pass>>
          /\ published' \in Known
      BY <2>3, IngestAssumption DEF Publish, stored, IngestInv, FilesKnown, Known
    <3>2. FilesKnown'
      BY <3>1 DEF IngestInv, FilesKnown
    <3> QED
      BY <3>1, <3>2, QuietStep
  <2>4. CASE UNCHANGED ingestVars
    <3>1. UNCHANGED <<published, cellDir, docs, meta, parser, ghosts, pass>>
      BY <2>4 DEF ingestVars
    <3>2. FilesKnown'
      BY <3>1 DEF IngestInv, FilesKnown
    <3> QED
      BY <3>1, <3>2, QuietStep
  <2> QED
    BY <2>1, <2>2, <2>3, <2>4 DEF IngestNext
<1> QED
  BY <1>1, <1>2, InvLoaded, PTL DEF IngestSpec

-----------------------------------------------------------------------------
(* The land map.  What a skipped extract left in the collections is what   *)
(* tiles fetch.  The argument: an ingest forgets no document (each is      *)
(* still to come, in a batch, or stored), what it stored stays until the   *)
(* extract is another, and a rebuild of the overview's copies loses none   *)
(* that lies in one bucket.                                                *)
ThisExtract == ToSet(ExtractDocs[file])
Accepted == {d \in ThisExtract : d.id \notin Quirky}
Home(d) == BucketForMinZoom(d.zoom)

(* A stored document is this one, whatever its simplified geometry.        *)
Shows(e, d) ==
  /\ e # NoDoc /\ e.id = d.id /\ e.class = d.class /\ e.zoom = d.zoom /\ e.rank = d.rank
  /\ e.kind = d.kind /\ e.geometry = d.geometry /\ e.span = d.span

(* What is under each id in one collection.                                *)
Shelves ==
  {s \in [DocIds -> StoredDocs \cup {NoDoc}] : \A id \in DocIds : s[id] # NoDoc => s[id].id = id}

StoresType ==
  /\ file \in DOMAIN Extracts
  /\ osm \in [ToSet(Collections) -> Shelves]
  /\ osmMeta # NoDoc => osmMeta.pbfHash \in 1 .. file

Ingesting == mapJob.at \in {"emit", "copy"}
IngestJobs == [at : {"emit", "copy"}, left : Seq(ThisExtract), pending : [ToSet(Collections) -> Seq(ThisExtract)]]
MergeJobs == [at : {"merge"}, from : {"overview", "coastal"}]

JobType ==
  \/ mapJob = Unemployed
  \/ mapJob \in IngestJobs /\ (mapJob.at = "copy" => mapJob.left # <<>>)
  \/ mapJob \in MergeJobs /\ ~lowWhole

Placed(c, d) == d \in ToSet(mapJob.pending[c]) \/ Shows(osm[c][d.id], d)

NothingForgotten ==
  Ingesting =>
    /\ \A d \in Accepted :
         \/ d \in ToSet(mapJob.left)
         \/ Placed(Home(d), d) /\ (QualifiesForLowZoom(d) => Placed("lowzoom", d))
    /\ mapJob.at = "copy" /\ mapJob.left[1] \in Accepted => Placed(Home(mapJob.left[1]), mapJob.left[1])

Alone(id) == \A c, b \in ToSet(Buckets) : osm[c][id] # NoDoc /\ osm[b][id] # NoDoc => c = b
Ingested == osmMeta # NoDoc /\ osmMeta.pbfHash = file

IngestStands ==
  Ingested =>
    \A d \in Accepted :
      /\ Shows(osm[Home(d)][d.id], d)
      /\ lowWhole /\ QualifiesForLowZoom(d) /\ Home(d) \in {"overview", "coastal"} /\ Alone(d.id) =>
           Shows(osm["lowzoom"][d.id], d)

MergeStands ==
  Ingested /\ mapJob.at = "merge" /\ mapJob.from = "coastal" =>
    \A d \in Accepted : QualifiesForLowZoom(d) /\ Home(d) = "overview" => Shows(osm["lowzoom"][d.id], d)

OsmInv == StoresType /\ JobType /\ NothingForgotten /\ IngestStands /\ MergeStands

-----------------------------------------------------------------------------
(* Documents and where they are put.                                       *)
LEMMA BucketsAre ==
  /\ ToSet(Buckets) = {"overview", "coastal", "detail", "skip"}
  /\ ToSet(Collections) = {"overview", "coastal", "detail", "skip", "lowzoom"}
  /\ DOMAIN Collections = 1 .. 5 /\ \A i \in 1 .. 5 : Collections[i] \in ToSet(Collections)
<1>2. ToSet(Buckets) = {"overview", "coastal", "detail", "skip"}
  <2>1. DOMAIN Buckets = 1 .. 4 /\ 1 .. 4 = {1, 2, 3, 4}
    BY DEF Buckets
  <2>2. Buckets[1] = "overview" /\ Buckets[2] = "coastal" /\ Buckets[3] = "detail" /\ Buckets[4] = "skip"
    BY DEF Buckets
  <2> QED
    BY <2>1, <2>2 DEF ToSet
<1>3. DOMAIN Collections = 1 .. 5 /\ 1 .. 5 = {1, 2, 3, 4, 5}
  BY DEF Collections
<1>4. /\ Collections[1] = "overview" /\ Collections[2] = "coastal" /\ Collections[3] = "detail"
      /\ Collections[4] = "skip" /\ Collections[5] = "lowzoom"
  BY DEF Collections
<1>5. ToSet(Collections) = {"overview", "coastal", "detail", "skip", "lowzoom"}
  BY <1>3, <1>4 DEF ToSet
<1> QED
  BY <1>2, <1>3, <1>4, <1>5

LEMMA ExtractsAre ==
  /\ Len(Extracts) \in Nat /\ Len(Extracts) > 0 /\ DOMAIN Extracts = 1 .. Len(Extracts)
  /\ \A k \in DOMAIN Extracts :
       /\ ExtractDocs[k] \in Seq(AllDocs) /\ ExtractDocs[k] \in Seq(ToSet(ExtractDocs[k]))
       /\ ToSet(ExtractDocs[k]) \subseteq AllDocs
       /\ \A d, e \in ToSet(ExtractDocs[k]) : d.id = e.id => d = e
<1>1. /\ Len(Extracts) \in Nat /\ DOMAIN Extracts = 1 .. Len(Extracts) /\ Extracts # <<>>
      /\ Extracts \in Seq(ToSet(Extracts))
  BY OsmAssumption, LenProperties
<1>2. Len(Extracts) # 0
  BY <1>1, EmptySeq
<1>3. ASSUME NEW k \in DOMAIN Extracts
      PROVE  /\ ExtractDocs[k] \in Seq(AllDocs) /\ ExtractDocs[k] \in Seq(ToSet(ExtractDocs[k]))
             /\ ToSet(ExtractDocs[k]) \subseteq AllDocs
  <2>1. ExtractDocs[k] \in Seq(AllDocs)
    BY OsmAssumption
  <2> DEFINE s == ExtractDocs[k]
  <2> HIDE DEF s
  <2>2. Len(s) \in Nat /\ s \in [1 .. Len(s) -> AllDocs]
    BY <2>1, LenProperties DEF s
  <2>3. s \in [1 .. Len(s) -> ToSet(s)] /\ ToSet(s) \subseteq AllDocs
    BY <2>2 DEF ToSet
  <2>4. s \in Seq(ToSet(s))
    BY <2>2, <2>3, ListIs
  <2> QED
    BY <2>1, <2>3, <2>4 DEF s
<1> QED
  BY <1>1, <1>2, <1>3, OsmAssumption

LEMMA StoredDocsAre ==
  /\ \A d \in AllDocs : d \in StoredDocs /\ d.low \in LowGeometries
  /\ \A e \in StoredDocs :
       /\ e # NoDoc /\ HasFields(e) /\ e.id \in DocIds
       /\ LowGeomFor(e.kind, e.geometry.at) \in LowGeometries
       /\ e.low \in LowGeometries
       /\ \A low \in LowGeometries :
            [e EXCEPT !.low = low] \in StoredDocs /\ Shows([e EXCEPT !.low = low], e)
<1>1. ASSUME NEW d \in AllDocs PROVE d \in StoredDocs /\ d.low \in LowGeometries
  <2>1. d.low \in LowGeometries /\ HasFields(d)
    BY OsmAssumption DEF LowGeometries
  <2>2. d = [d EXCEPT !.low = d.low]
    BY <2>1 DEF HasFields
  <2> QED
    BY <2>1, <2>2 DEF StoredDocs
<1>2. ASSUME NEW e \in StoredDocs
      PROVE  /\ e # NoDoc /\ HasFields(e) /\ e.id \in DocIds
             /\ LowGeomFor(e.kind, e.geometry.at) \in LowGeometries
             /\ e.low \in LowGeometries
             /\ \A low \in LowGeometries : [e EXCEPT !.low = low] \in StoredDocs
  <2>1. PICK d \in AllDocs, l \in LowGeometries : e = [d EXCEPT !.low = l]
    BY DEF StoredDocs
  <2>2. HasFields(d)
    BY OsmAssumption
  <2>3. /\ e = [id |-> d.id, class |-> d.class, zoom |-> d.zoom, rank |-> d.rank, kind |-> d.kind,
                geometry |-> d.geometry, low |-> l, span |-> d.span]
    BY <2>1, <2>2 DEF HasFields
  <2>4. HasFields(e) /\ e.id = d.id /\ e.kind = d.kind /\ e.geometry = d.geometry /\ e.low = l
    BY <2>3 DEF HasFields
  <2>5. ASSUME NEW low \in LowGeometries PROVE [e EXCEPT !.low = low] \in StoredDocs
    <3>1. [e EXCEPT !.low = low] = [d EXCEPT !.low = low]
      BY <2>2, <2>3 DEF HasFields
    <3> QED
      BY <3>1 DEF StoredDocs
  <2>6. e.id \in DocIds
    BY <2>4 DEF DocIds
  <2>7. LowGeomFor(e.kind, e.geometry.at) \in LowGeometries
    BY <2>4 DEF LowGeometries
  <2>8. e # NoDoc
    BY OsmAssumption
  <2> QED
    BY <2>4, <2>5, <2>6, <2>7, <2>8
<1>3. ASSUME NEW e \in StoredDocs, NEW low \in LowGeometries PROVE Shows([e EXCEPT !.low = low], e)
  <2>1. HasFields(e) /\ [e EXCEPT !.low = low] # NoDoc
    BY <1>2, OsmAssumption
  <2>2. [e EXCEPT !.low = low] =
          [id |-> e.id, class |-> e.class, zoom |-> e.zoom, rank |-> e.rank, kind |-> e.kind,
           geometry |-> e.geometry, low |-> low, span |-> e.span]
    BY <2>1 DEF HasFields
  <2> QED
    BY <2>1, <2>2 DEF Shows
<1> QED
  BY <1>1, <1>2, <1>3

LEMMA ShowsThrough ==
  ASSUME NEW e, NEW f, NEW d, Shows(e, f), Shows(f, d)
  PROVE  Shows(e, d)
BY DEF Shows

LEMMA SetDocIs ==
  ASSUME NEW s \in Shelves, NEW d \in AllDocs
  PROVE  /\ SetDoc(s, d) \in Shelves
         /\ \A id \in DocIds : s[id] # NoDoc => SetDoc(s, d)[id] # NoDoc
         /\ \A id \in DocIds : id # d.id => SetDoc(s, d)[id] = s[id]
         /\ d.id \in Quirky => SetDoc(s, d) = s
         /\ d.id \notin Quirky => Shows(SetDoc(s, d)[d.id], d)
<1>1. d \in StoredDocs /\ d.id \in DocIds /\ d # NoDoc
  BY StoredDocsAre DEF DocIds
<1>2. CASE d.id \in Quirky
  BY <1>2 DEF SetDoc
<1>3. CASE d.id \notin Quirky
  <2> DEFINE old == s[d.id]
             new == IF old = NoDoc \/ d.low # NoGeometry THEN d ELSE [d EXCEPT !.low = old.low]
  <2>1. new \in StoredDocs /\ Shows(new, d)
    <3>1. CASE old = NoDoc \/ d.low # NoGeometry
      BY <1>1, <3>1 DEF Shows
    <3>2. CASE ~(old = NoDoc \/ d.low # NoGeometry)
      <4>1. old \in StoredDocs
        BY <1>1, <3>2 DEF Shelves
      <4>2. old.low \in LowGeometries
        BY <4>1, StoredDocsAre
      <4> QED
        BY <1>1, <3>2, <4>2, StoredDocsAre
    <3> QED
      BY <3>1, <3>2
  <2>2. SetDoc(s, d) = [s EXCEPT ![d.id] = new]
    BY <1>3 DEF SetDoc
  <2> HIDE DEF new
  <2>3. s \in [DocIds -> StoredDocs \cup {NoDoc}]
    BY DEF Shelves
  <2>4. /\ SetDoc(s, d) \in [DocIds -> StoredDocs \cup {NoDoc}]
        /\ SetDoc(s, d)[d.id] = new /\ \A id \in DocIds : id # d.id => SetDoc(s, d)[id] = s[id]
    BY <1>1, <2>1, <2>2, <2>3
  <2>5. new # NoDoc /\ new.id = d.id
    BY <2>1 DEF Shows
  <2>6. \A id \in DocIds : SetDoc(s, d)[id] # NoDoc => SetDoc(s, d)[id].id = id
    BY <2>4, <2>5 DEF Shelves
  <2> QED
    BY <1>3, <2>1, <2>4, <2>5, <2>6 DEF Shelves
<1> QED
  BY <1>2, <1>3

(* What a batch leaves of the documents of this extract.                   *)
Kept(old, new) ==
  /\ \A id \in DocIds : old[id] # NoDoc => new[id] # NoDoc
  /\ \A d \in Accepted : Shows(old[d.id], d) => Shows(new[d.id], d)

LEMMA WritingKeeps ==
  ASSUME file \in DOMAIN Extracts, NEW old \in Shelves, NEW s \in Shelves, NEW e \in ThisExtract, Kept(old, s)
  PROVE  /\ Kept(old, SetDoc(s, e))
         /\ \A d \in Accepted : Shows(s[d.id], d) => Shows(SetDoc(s, e)[d.id], d)
<1>1. e \in AllDocs
  BY ExtractsAre DEF ThisExtract
<1>2. ASSUME NEW d \in Accepted, Shows(s[d.id], d) PROVE Shows(SetDoc(s, e)[d.id], d)
  <2>1. d \in ThisExtract /\ d \in AllDocs /\ d.id \in DocIds /\ d.id \notin Quirky
    BY ExtractsAre DEF Accepted, ThisExtract, DocIds
  <2>2. CASE e.id = d.id
    <3>1. e = d
      BY <2>1, <2>2, ExtractsAre DEF ThisExtract
    <3> QED
      BY <2>1, <3>1, <1>1, SetDocIs
  <2>3. CASE e.id # d.id
    BY <1>1, <1>2, <2>1, <2>3, SetDocIs
  <2> QED
    BY <2>2, <2>3
<1>3. \A id \in DocIds : s[id] # NoDoc => SetDoc(s, e)[id] # NoDoc
  BY <1>1, SetDocIs
<1> QED
  BY <1>2, <1>3 DEF Kept

LEMMA BulkWriteIs ==
  ASSUME file \in DOMAIN Extracts, NEW c \in ToSet(Collections), osm[c] \in Shelves,
         NEW list \in Seq(ThisExtract)
  PROVE  \E s \in Shelves : /\ BulkWrite(c, list) = [osm EXCEPT ![c] = s]
                            /\ Kept(osm[c], s)
                            /\ \A d \in Accepted : d \in ToSet(list) => Shows(s[d.id], d)
<1> DEFINE n == Len(list)
           V == Shelves
           start == osm[c]
           Eq(f) == f = [k \in 0 .. n |-> IF k = 0 THEN osm[c] ELSE SetDoc(f[k - 1], list[k])]
           step == [p \in (1 .. n) \X V |-> SetDoc(p[2], list[p[1]])]
<1>1. n \in Nat /\ DOMAIN list = 1 .. n /\ \A k \in 1 .. n : list[k] \in ThisExtract /\ list[k] \in AllDocs
  <2>1. ThisExtract \subseteq AllDocs
    BY ExtractsAre DEF ThisExtract
  <2> QED
    BY <2>1, LenProperties, ElementOfSeq
<1>2. start \in V
  OBVIOUS
<1> HIDE DEF start, V
<1>3. step \in [(1 .. n) \X V -> V] /\ \A k \in 1 .. n, v \in V : step[<<k, v>>] = SetDoc(v, list[k])
  <2>1. \A k \in 1 .. n, v \in V : SetDoc(v, list[k]) \in V
    BY <1>1, SetDocIs DEF V
  <2> QED
    BY <2>1
<1> HIDE DEF step, n
<1>4. PICK f : Recurs(f, V, 0, 1, n, start, step)
  <2>1. n \in Nat /\ 0 \in Nat /\ 1 \in Nat /\ 1 = 0 + 1 /\ 0 <= n
    BY <1>1
  <2>2. step \in [(1 .. n) \X V -> V]
    BY <1>3
  <2> QED
    BY ONLY <1>2, <2>1, <2>2, Recursion
<1>5. Eq(f)
  <2>1. ASSUME NEW k \in 0 .. n, k # 0 PROVE f[k] = SetDoc(f[k - 1], list[k])
    <3>1. k \in 1 .. n /\ k - 1 \in 0 .. n
      BY <1>1, <2>1
    <3>2. f[k - 1] \in V
      BY <1>4, <3>1 DEF Recurs
    <3> QED
      BY <1>3, <1>4, <3>1, <3>2 DEF Recurs
  <2> QED
    BY <1>4, <2>1 DEF Recurs, start
<1> DEFINE g == CHOOSE h : Eq(h)
<1>6. BulkWrite(c, list) = [osm EXCEPT ![c] = g[n]]
  BY DEF BulkWrite, n
<1>7. Eq(g)
  BY <1>5
<1> HIDE DEF g
<1>8. /\ g[0] = osm[c] /\ \A k \in 0 .. n - 1 : g[k + 1] = SetDoc(g[k], list[k + 1])
  <2>1. 0 \in 0 .. n /\ \A k \in 0 .. n - 1 : k + 1 \in 0 .. n /\ k + 1 # 0 /\ (k + 1) - 1 = k
    BY <1>1
  <2> QED
    BY <1>7, <2>1
<1> DEFINE Good(k) == /\ g[k] \in Shelves /\ Kept(osm[c], g[k])
                      /\ \A d \in Accepted : (\E i \in 1 .. k : list[i] = d) => Shows(g[k][d.id], d)
           T == {k \in 0 .. n : Good(k)}
<1>9. 0 \in T
  <2>1. 0 \in 0 .. n /\ \A i \in 1 .. 0 : FALSE
    BY <1>1
  <2>2. Kept(osm[c], osm[c])
    BY DEF Kept
  <2> QED
    BY <1>8, <2>1, <2>2
<1>10. ASSUME NEW k \in 0 .. n - 1, k \in T PROVE k + 1 \in T
  <2>1. k + 1 \in 1 .. n /\ k + 1 \in 0 .. n /\ \A i \in 1 .. k + 1 : i \in 1 .. k \/ i = k + 1
    BY <1>1
  <2>2. g[k] \in Shelves /\ Kept(osm[c], g[k])
    BY <1>10
  <2> DEFINE e == list[k + 1]
  <2>3. g[k + 1] = SetDoc(g[k], e) /\ e \in ThisExtract /\ e \in AllDocs
    BY <1>1, <1>8, <2>1
  <2> HIDE DEF e
  <2>4. g[k + 1] \in Shelves
    BY <2>2, <2>3, SetDocIs
  <2>5. /\ Kept(osm[c], g[k + 1])
        /\ \A d \in Accepted : Shows(g[k][d.id], d) => Shows(g[k + 1][d.id], d)
    BY <2>2, <2>3, WritingKeeps
  <2>6. ASSUME NEW d \in Accepted, NEW i \in 1 .. k + 1, list[i] = d PROVE Shows(g[k + 1][d.id], d)
    <3>1. CASE i \in 1 .. k
      <4>1. Shows(g[k][d.id], d)
        BY <1>10, <2>6, <3>1
      <4> QED
        BY <2>5, <4>1
    <3>2. CASE i = k + 1
      <4>1. e = d /\ d.id \notin Quirky
        BY <2>6, <3>2 DEF e, Accepted
      <4> QED
        BY <2>2, <2>3, <4>1, SetDocIs
    <3> QED
      BY <2>1, <3>1, <3>2
  <2> QED
    BY <2>1, <2>4, <2>5, <2>6
<1>11. \A k \in 0 .. n : k \in T
  <2>1. 0 \in Nat
    OBVIOUS
  <2> HIDE DEF T
  <2> QED
    BY <1>1, <1>9, <1>10, <2>1, RangeInduction
<1>12. Good(n)
  <2>1. n \in 0 .. n
    BY <1>1
  <2> HIDE DEF Good
  <2> QED
    BY <1>11, <2>1
<1>13. \A d : d \in ToSet(list) => \E i \in 1 .. n : list[i] = d
  BY <1>1 DEF ToSet
<1> QED
  BY <1>6, <1>12, <1>13

-----------------------------------------------------------------------------
(* The steps.                                                              *)
LEMMA AppendHolds ==
  ASSUME NEW S, NEW s \in Seq(S), NEW x \in S
  PROVE  Append(s, x) \in Seq(S) /\ ToSet(Append(s, x)) = ToSet(s) \cup {x}
<1>1. /\ Len(s) \in Nat /\ DOMAIN s = 1 .. Len(s) /\ Append(s, x) \in Seq(S)
      /\ DOMAIN Append(s, x) = 1 .. Len(s) + 1 /\ Append(s, x)[Len(s) + 1] = x
      /\ \A i \in 1 .. Len(s) : Append(s, x)[i] = s[i]
  BY LenProperties, AppendProperties
<1>2. \A i \in 1 .. Len(s) + 1 : i \in 1 .. Len(s) \/ i = Len(s) + 1
  BY <1>1
<1>3. Len(s) + 1 \in 1 .. Len(s) + 1 /\ \A i \in 1 .. Len(s) : i \in 1 .. Len(s) + 1
  BY <1>1
<1> QED
  BY <1>1, <1>2, <1>3 DEF ToSet

LEMMA TailHolds ==
  ASSUME NEW S, NEW s \in Seq(S), s # <<>>
  PROVE  Tail(s) \in Seq(S) /\ s[1] \in ToSet(s) /\ s[1] \in S /\ ToSet(s) = {s[1]} \cup ToSet(Tail(s))
<1>1. /\ Len(s) \in Nat \ {0} /\ DOMAIN s = 1 .. Len(s) /\ Tail(s) \in Seq(S)
      /\ DOMAIN Tail(s) = 1 .. Len(s) - 1 /\ \A i \in 1 .. Len(s) - 1 : Tail(s)[i] = s[i + 1]
  BY LenProperties, HeadTailProperties, EmptySeq
<1>2. \A i \in 1 .. Len(s) : i = 1 \/ (i - 1 \in 1 .. Len(s) - 1 /\ (i - 1) + 1 = i)
  BY <1>1
<1>3. 1 \in 1 .. Len(s) /\ \A i \in 1 .. Len(s) - 1 : i + 1 \in 1 .. Len(s)
  BY <1>1
<1>4. \A x : x \in ToSet(s) <=> \E i \in 1 .. Len(s) : s[i] = x
  BY <1>1 DEF ToSet
<1>5. \A x : x \in ToSet(Tail(s)) <=> \E i \in 1 .. Len(s) - 1 : s[i + 1] = x
  BY <1>1 DEF ToSet
<1>6. s[1] \in S
  BY <1>3, ElementOfSeq
<1>7. \A x : x \in ToSet(s) <=> x = s[1] \/ x \in ToSet(Tail(s))
  BY <1>2, <1>3, <1>4, <1>5
<1> QED
  BY <1>1, <1>6, <1>7

LEMMA ExtractHolds ==
  ASSUME file \in DOMAIN Extracts
  PROVE  /\ ThisExtract \subseteq AllDocs /\ Accepted \subseteq ThisExtract
         /\ \A d \in ThisExtract : d.id \in DocIds /\ Home(d) \in ToSet(Buckets) /\ Home(d) \in ToSet(Collections)
         /\ "lowzoom" \in ToSet(Collections) /\ ToSet(Buckets) \subseteq ToSet(Collections)
<1>1. ThisExtract \subseteq AllDocs
  BY ExtractsAre DEF ThisExtract
<1>2. \A d : Home(d) \in ToSet(Buckets)
  BY BucketsAre DEF Home, BucketForMinZoom
<1> QED
  BY <1>1, <1>2, BucketsAre DEF Accepted, DocIds

Grows == \A c \in ToSet(Collections) : Kept(osm[c], osm'[c])

LEMMA WriteStep ==
  ASSUME StoresType, NEW c \in ToSet(Collections), NEW list \in Seq(ThisExtract), osm' = BulkWrite(c, list)
  PROVE  /\ osm' \in [ToSet(Collections) -> Shelves] /\ Grows
         /\ \A b \in ToSet(Collections) : b # c => osm'[b] = osm[b]
         /\ \A d \in Accepted : d \in ToSet(list) => Shows(osm'[c][d.id], d)
<1>1. file \in DOMAIN Extracts /\ osm \in [ToSet(Collections) -> Shelves] /\ osm[c] \in Shelves
  BY DEF StoresType
<1>2. PICK s \in Shelves : /\ BulkWrite(c, list) = [osm EXCEPT ![c] = s] /\ Kept(osm[c], s)
                           /\ \A d \in Accepted : d \in ToSet(list) => Shows(s[d.id], d)
  BY <1>1, BulkWriteIs
<1>3. /\ osm' \in [ToSet(Collections) -> Shelves] /\ osm'[c] = s
      /\ \A b \in ToSet(Collections) : b # c => osm'[b] = osm[b]
  BY <1>1, <1>2
<1>4. Grows
  <2>1. \A b \in ToSet(Collections) : Kept(osm[b], osm[b])
    BY DEF Kept
  <2> QED
    BY <1>2, <1>3, <2>1 DEF Grows
<1> QED
  BY <1>2, <1>3, <1>4

LEMMA StandsStay ==
  ASSUME StoresType, IngestStands, Grows, UNCHANGED <<file, osmMeta, lowWhole>>
  PROVE  IngestStands'
<1>1. Accepted' = Accepted /\ (Ingested' <=> Ingested)
  BY DEF Accepted, ThisExtract, Ingested
<1>2. SUFFICES ASSUME Ingested, NEW d \in Accepted
      PROVE  /\ Shows(osm'[Home(d)][d.id], d)
             /\ lowWhole /\ QualifiesForLowZoom(d) /\ Home(d) \in {"overview", "coastal"} /\ Alone(d.id)' =>
                  Shows(osm'["lowzoom"][d.id], d)
  BY <1>1 DEF IngestStands, Shows, Alone
<1>3. /\ d \in ThisExtract /\ d.id \in DocIds /\ Home(d) \in ToSet(Collections)
      /\ "lowzoom" \in ToSet(Collections) /\ ToSet(Buckets) \subseteq ToSet(Collections)
  BY ExtractHolds DEF StoresType
<1>4. Alone(d.id)' => Alone(d.id)
  BY <1>3 DEF Alone, Grows, Kept
<1>5. /\ Shows(osm[Home(d)][d.id], d)
      /\ lowWhole /\ QualifiesForLowZoom(d) /\ Home(d) \in {"overview", "coastal"} /\ Alone(d.id) =>
           Shows(osm["lowzoom"][d.id], d)
  BY <1>2 DEF IngestStands
<1>6. \A c \in ToSet(Collections) : Shows(osm[c][d.id], d) => Shows(osm'[c][d.id], d)
  BY <1>2 DEF Grows, Kept
<1> QED
  BY <1>3, <1>4, <1>5, <1>6

LEMMA EnqueueIs ==
  ASSUME StoresType, mapJob \in IngestJobs, NEW c \in ToSet(Collections), NEW doc \in ThisExtract,
         NEW next \in IngestJobs, next.pending = mapJob.pending, Enqueue(c, doc, next)
  PROVE  /\ mapJob' \in IngestJobs /\ mapJob'.at = next.at /\ mapJob'.left = next.left
         /\ osm' \in [ToSet(Collections) -> Shelves] /\ Grows
         /\ \A b \in ToSet(Collections), d \in Accepted : Placed(b, d) => Placed(b, d)'
         /\ doc \in Accepted => Placed(c, doc)'
<1> DEFINE batch == Append(mapJob.pending[c], doc)
           full == Len(batch) >= BatchSize
<1>1. /\ next.pending \in [ToSet(Collections) -> Seq(ThisExtract)] /\ mapJob.pending[c] \in Seq(ThisExtract)
  BY DEF IngestJobs
<1>2. batch \in Seq(ThisExtract) /\ ToSet(batch) = ToSet(mapJob.pending[c]) \cup {doc}
  BY <1>1, AppendHolds
<1> DEFINE rest == IF full THEN <<>> ELSE batch
<1>3. mapJob' = [next EXCEPT !.pending[c] = rest] /\ osm' = IF full THEN BulkWrite(c, batch) ELSE osm
  BY DEF Enqueue
<1>4. rest \in Seq(ThisExtract)
  BY <1>2, EmptySeq
<1> HIDE DEF rest
<1>5. mapJob' = [next EXCEPT !.pending = [next.pending EXCEPT ![c] = rest]]
  BY <1>3
<1>6. [next.pending EXCEPT ![c] = rest] \in [ToSet(Collections) -> Seq(ThisExtract)]
  BY <1>1, <1>4
<1>7. /\ mapJob' \in IngestJobs /\ mapJob'.at = next.at /\ mapJob'.left = next.left
      /\ mapJob'.pending = [next.pending EXCEPT ![c] = rest]
  BY <1>5, <1>6 DEF IngestJobs
<1>8. mapJob'.pending[c] = rest /\ \A b \in ToSet(Collections) : b # c => mapJob'.pending[b] = mapJob.pending[b]
  BY <1>1, <1>7
<1> HIDE DEF batch
<1>9. CASE full
  <2>1. osm' = BulkWrite(c, batch)
    BY <1>3, <1>9
  <2>2. /\ osm' \in [ToSet(Collections) -> Shelves] /\ Grows
        /\ \A b \in ToSet(Collections) : b # c => osm'[b] = osm[b]
        /\ \A d \in Accepted : d \in ToSet(batch) => Shows(osm'[c][d.id], d)
    BY <1>2, <2>1, WriteStep
  <2>3. ASSUME NEW b \in ToSet(Collections), NEW d \in Accepted, Placed(b, d) PROVE Placed(b, d)'
    <3>1. CASE b = c
      <4>1. d \in ToSet(batch) \/ Shows(osm[c][d.id], d)
        BY <1>2, <2>3, <3>1 DEF Placed
      <4>2. Shows(osm'[c][d.id], d)
        BY <2>2, <4>1 DEF Grows, Kept
      <4> QED
        BY <3>1, <4>2 DEF Placed, Shows
    <3>2. CASE b # c
      BY <1>8, <2>2, <2>3, <3>2 DEF Placed, Shows
    <3> QED
      BY <3>1, <3>2
  <2>4. doc \in Accepted => Placed(c, doc)'
    BY <1>2, <2>2 DEF Placed, Shows
  <2> QED
    BY <1>7, <2>2, <2>3, <2>4
<1>10. CASE ~full
  <2>1. osm' = osm /\ rest = batch
    BY <1>3, <1>10 DEF rest
  <2>2. osm' \in [ToSet(Collections) -> Shelves] /\ Grows
    BY <2>1 DEF StoresType, Grows, Kept
  <2>3. ASSUME NEW b \in ToSet(Collections), NEW d \in Accepted, Placed(b, d) PROVE Placed(b, d)'
    <3>1. ToSet(mapJob.pending[b]) \subseteq ToSet(mapJob'.pending[b])
      BY <1>2, <1>8, <2>1
    <3> QED
      BY <2>1, <2>3, <3>1 DEF Placed, Shows
  <2>4. Placed(c, doc)'
    BY <1>2, <1>8, <2>1 DEF Placed
  <2> QED
    BY <1>7, <2>2, <2>3, <2>4
<1> QED
  BY <1>9, <1>10

LEMMA JobsAre ==
  ASSUME JobType
  PROVE  /\ Ingesting => mapJob \in IngestJobs /\ (mapJob.at = "copy" => mapJob.left # <<>>)
         /\ mapJob.at = "merge" => mapJob \in MergeJobs /\ ~lowWhole
         /\ mapJob = Unemployed => mapJob.at = "none"
BY DEF JobType, Ingesting, IngestJobs, MergeJobs, Unemployed

LEMMA OsmStarts == OsmInit => OsmInv
<1> SUFFICES ASSUME OsmInit PROVE OsmInv
  OBVIOUS
<1>1. [id \in DocIds |-> NoDoc] \in Shelves
  BY DEF Shelves
<1>2. StoresType
  BY <1>1, ExtractsAre DEF OsmInit, StoresType
<1>3. mapJob = Unemployed /\ mapJob.at = "none" /\ osmMeta = NoDoc
  BY DEF OsmInit, Unemployed
<1> QED
  BY <1>2, <1>3 DEF OsmInv, JobType, NothingForgotten, Ingesting, IngestStands, MergeStands, Ingested

LEMMA DownloadKeeps == OsmInv /\ Download => OsmInv'
<1> SUFFICES ASSUME OsmInv, Download PROVE OsmInv'
  OBVIOUS
<1>1. /\ file < Len(Extracts) /\ file' = file + 1 /\ mapJob = Unemployed
      /\ osm' = osm /\ osmMeta' = osmMeta /\ mapJob' = mapJob /\ lowWhole' = lowWhole
  BY DEF Download
<1>2. mapJob'.at = "none"
  BY <1>1 DEF Unemployed
<1>3. file \in 1 .. Len(Extracts) /\ file' \in 1 .. Len(Extracts)
  BY <1>1, ExtractsAre DEF OsmInv, StoresType
<1>4. StoresType'
  <2>1. osmMeta # NoDoc => osmMeta.pbfHash \in 1 .. file
    BY DEF OsmInv, StoresType
  <2>2. osmMeta' # NoDoc => osmMeta'.pbfHash \in 1 .. file'
    BY <1>1, <1>3, <2>1
  <2>3. osm' \in [ToSet(Collections) -> Shelves]
    BY <1>1 DEF OsmInv, StoresType
  <2>4. file' \in DOMAIN Extracts
    BY <1>3, ExtractsAre
  <2> QED
    BY <2>2, <2>3, <2>4 DEF StoresType
<1>5. ~Ingested'
  <2>1. osmMeta # NoDoc => osmMeta.pbfHash \in 1 .. file
    BY DEF OsmInv, StoresType
  <2>2. osmMeta' # NoDoc => osmMeta'.pbfHash # file'
    BY <1>1, <1>3, <2>1
  <2> QED
    BY <2>2 DEF Ingested
<1> QED
  BY <1>1, <1>2, <1>4, <1>5 DEF OsmInv, JobType, NothingForgotten, Ingesting, IngestStands, MergeStands

LEMMA BeginIngestKeeps == ASSUME NEW force \in BOOLEAN PROVE OsmInv /\ BeginIngest(force) => OsmInv'
<1> SUFFICES ASSUME OsmInv, BeginIngest(force) PROVE OsmInv'
  OBVIOUS
<1>1. /\ mapJob' = [at |-> "emit", left |-> ExtractDocs[file], pending |-> [c \in ToSet(Collections) |-> <<>>]]
      /\ file' = file /\ osm' = osm /\ osmMeta' = osmMeta /\ lowWhole' = lowWhole
  BY DEF BeginIngest
<1>2. StoresType' /\ StoresType
  BY <1>1 DEF OsmInv, StoresType
<1>3. ThisExtract' = ThisExtract /\ Accepted' = Accepted
  BY <1>1 DEF ThisExtract, Accepted
<1>4. ExtractDocs[file] \in Seq(ThisExtract)
  BY <1>2, ExtractsAre DEF StoresType, ThisExtract
<1>5. mapJob' \in IngestJobs /\ mapJob'.at = "emit" /\ mapJob'.left = ExtractDocs[file]
  <2>1. [c \in ToSet(Collections) |-> <<>>] \in [ToSet(Collections) -> Seq(ThisExtract)]
    BY EmptySeq
  <2> QED
    BY <1>1, <1>4, <2>1 DEF IngestJobs
<1>6. JobType'
  BY <1>3, <1>5 DEF JobType, IngestJobs
<1>7. NothingForgotten'
  BY <1>3, <1>5 DEF NothingForgotten, ThisExtract, Accepted
<1>8. IngestStands'
  <2>1. Grows
    BY <1>1 DEF Grows, Kept
  <2> QED
    BY <1>1, <1>2, <2>1, StandsStay DEF OsmInv
<1> QED
  BY <1>2, <1>5, <1>6, <1>7, <1>8 DEF OsmInv, MergeStands

Onward(work, stage, left) == [work EXCEPT !.at = stage, !.left = left]

LEMMA OnwardIs ==
  ASSUME NEW work \in IngestJobs, NEW stage \in {"emit", "copy"}, NEW left \in Seq(ThisExtract)
  PROVE  /\ Onward(work, stage, left) \in IngestJobs /\ Onward(work, stage, left).pending = work.pending
         /\ Onward(work, stage, left).at = stage /\ Onward(work, stage, left).left = left
BY DEF IngestJobs, Onward

LEMMA UpsertDocKeeps == OsmInv /\ UpsertDoc => OsmInv'
<1> SUFFICES ASSUME OsmInv, UpsertDoc PROVE OsmInv'
  OBVIOUS
<1>1. /\ mapJob.at = "emit" /\ mapJob.left # <<>>
      /\ file' = file /\ osmMeta' = osmMeta /\ lowWhole' = lowWhole
  BY DEF UpsertDoc
<1>2. StoresType /\ NothingForgotten /\ IngestStands /\ file \in DOMAIN Extracts
  BY DEF OsmInv, StoresType
<1>3. mapJob \in IngestJobs /\ Ingesting
  BY <1>1, JobsAre DEF OsmInv, Ingesting
<1>4. PICK doc \in ThisExtract : /\ doc = mapJob.left[1] /\ mapJob.left \in Seq(ThisExtract)
                                /\ Tail(mapJob.left) \in Seq(ThisExtract)
                                /\ ToSet(mapJob.left) = {doc} \cup ToSet(Tail(mapJob.left))
  BY <1>1, <1>3, TailHolds DEF IngestJobs
<1> DEFINE copied == QualifiesForLowZoom(doc)
           onward == [mapJob EXCEPT !.at = IF copied THEN "copy" ELSE "emit",
                                    !.left = IF copied THEN @ ELSE Tail(@)]
<1>5. Enqueue(Home(doc), doc, onward)
  BY <1>4 DEF UpsertDoc, Home
<1> HIDE DEF copied
<1>6. PICK stage \in {"emit", "copy"}, left \in Seq(ThisExtract) :
        stage = (IF copied THEN "copy" ELSE "emit") /\ left = (IF copied THEN mapJob.left ELSE Tail(mapJob.left))
  BY <1>4
<1>7. copied => left = mapJob.left /\ stage = "copy"
  BY <1>6
<1>8. ~copied => left = Tail(mapJob.left) /\ stage = "emit"
  BY <1>6
<1>9. PICK next \in IngestJobs :
        next = onward /\ next.pending = mapJob.pending /\ next.at = stage /\ next.left = left
  <2>1. onward = Onward(mapJob, stage, left)
    BY <1>3, <1>6 DEF IngestJobs, Onward
  <2> HIDE DEF onward
  <2> QED
    BY <1>3, <2>1, OnwardIs
<1> HIDE DEF onward
<1>10. Home(doc) \in ToSet(Collections)
  BY <1>2, ExtractHolds
<1>11. /\ mapJob' \in IngestJobs /\ mapJob'.at = stage /\ mapJob'.left = left
       /\ osm' \in [ToSet(Collections) -> Shelves] /\ Grows
       /\ \A b \in ToSet(Collections), d \in Accepted : Placed(b, d) => Placed(b, d)'
       /\ doc \in Accepted => Placed(Home(doc), doc)'
  BY <1>2, <1>3, <1>5, <1>9, <1>10, EnqueueIs
<1>12. StoresType'
  BY <1>1, <1>2, <1>11 DEF StoresType
<1>13. ThisExtract' = ThisExtract /\ Accepted' = Accepted
  BY <1>1 DEF ThisExtract, Accepted
<1>14. JobType'
  <2>1. stage = "copy" => left # <<>>
    BY <1>1, <1>7, <1>8
  <2>2. mapJob' \in IngestJobs'
    BY <1>11, <1>13 DEF IngestJobs
  <2> QED
    BY <1>11, <2>1, <2>2 DEF JobType
<1>15. NothingForgotten'
  <2>1. ASSUME NEW d \in Accepted
        PROVE  \/ d \in ToSet(left)
               \/ Placed(Home(d), d)' /\ (QualifiesForLowZoom(d) => Placed("lowzoom", d)')
    <3>1. Home(d) \in ToSet(Collections) /\ "lowzoom" \in ToSet(Collections)
      BY <1>2, ExtractHolds
    <3>2. \/ d \in ToSet(mapJob.left)
          \/ Placed(Home(d), d) /\ (QualifiesForLowZoom(d) => Placed("lowzoom", d))
      BY <1>2, <1>3 DEF NothingForgotten
    <3>3. CASE Placed(Home(d), d) /\ (QualifiesForLowZoom(d) => Placed("lowzoom", d))
      BY <1>11, <3>1, <3>3
    <3>4. CASE d \in ToSet(mapJob.left)
      <4>1. CASE copied
        BY <1>7, <3>4, <4>1
      <4>2. CASE ~copied /\ d = doc
        BY <1>11, <3>1, <4>2 DEF copied
      <4>3. CASE ~copied /\ d # doc
        BY <1>4, <1>8, <3>4, <4>3
      <4> QED
        BY <4>1, <4>2, <4>3
    <3> QED
      BY <3>2, <3>3, <3>4
  <2>2. stage = "copy" => left[1] = doc
    BY <1>4, <1>7, <1>8
  <2>3. \A d : (Home(d))' = Home(d) /\ (QualifiesForLowZoom(d))' = QualifiesForLowZoom(d)
    BY DEF Home, QualifiesForLowZoom
  <2>4. /\ \A d \in Accepted' :
             d \in ToSet(mapJob'.left) \/ (Placed(Home(d), d)' /\ (QualifiesForLowZoom(d) => Placed("lowzoom", d)'))
        /\ mapJob'.at = "copy" /\ mapJob'.left[1] \in Accepted' => Placed(Home(doc), doc)'
    BY <1>11, <1>13, <2>1, <2>2
  <2>5. mapJob'.at = "copy" => mapJob'.left[1] = doc
    BY <1>11, <2>2
  <2> QED
    BY <2>4, <2>5 DEF NothingForgotten, Placed
<1>16. IngestStands'
  BY <1>1, <1>2, <1>11, StandsStay
<1>17. mapJob'.at # "merge"
  BY <1>6, <1>11
<1> QED
  BY <1>12, <1>14, <1>15, <1>16, <1>17 DEF OsmInv, MergeStands

LEMMA CopyLowKeeps == OsmInv /\ CopyLow => OsmInv'
<1> SUFFICES ASSUME OsmInv, CopyLow PROVE OsmInv'
  OBVIOUS
<1>1. /\ mapJob.at = "copy"
      /\ file' = file /\ osmMeta' = osmMeta /\ lowWhole' = lowWhole
  BY DEF CopyLow
<1>2. StoresType /\ NothingForgotten /\ IngestStands /\ file \in DOMAIN Extracts
  BY DEF OsmInv, StoresType
<1>3. mapJob \in IngestJobs /\ Ingesting /\ mapJob.left # <<>>
  BY <1>1, JobsAre DEF OsmInv, Ingesting
<1>4. PICK doc \in ThisExtract, left \in Seq(ThisExtract) :
        doc = mapJob.left[1] /\ left = Tail(mapJob.left) /\ ToSet(mapJob.left) = {doc} \cup ToSet(left)
  <2>1. mapJob.left \in Seq(ThisExtract)
    BY <1>3 DEF IngestJobs
  <2>2. /\ Tail(mapJob.left) \in Seq(ThisExtract) /\ mapJob.left[1] \in ThisExtract
        /\ ToSet(mapJob.left) = {mapJob.left[1]} \cup ToSet(Tail(mapJob.left))
    BY <1>3, <2>1, TailHolds
  <2> QED
    BY <2>2
<1> DEFINE onward == [mapJob EXCEPT !.at = "emit", !.left = Tail(@)]
<1>5. Enqueue("lowzoom", doc, onward)
  BY <1>4 DEF CopyLow
<1>6. PICK next \in IngestJobs :
        next = onward /\ next.pending = mapJob.pending /\ next.at = "emit" /\ next.left = left
  <2>1. onward = Onward(mapJob, "emit", left)
    BY <1>3, <1>4 DEF IngestJobs, Onward
  <2> HIDE DEF onward
  <2> QED
    BY <1>3, <2>1, OnwardIs
<1> HIDE DEF onward
<1>7. "lowzoom" \in ToSet(Collections)
  BY <1>2, ExtractHolds
<1>8. /\ mapJob' \in IngestJobs /\ mapJob'.at = "emit" /\ mapJob'.left = left
      /\ osm' \in [ToSet(Collections) -> Shelves] /\ Grows
      /\ \A b \in ToSet(Collections), d \in Accepted : Placed(b, d) => Placed(b, d)'
      /\ doc \in Accepted => Placed("lowzoom", doc)'
  BY <1>2, <1>3, <1>5, <1>6, <1>7, EnqueueIs
<1>9. StoresType'
  BY <1>1, <1>2, <1>8 DEF StoresType
<1>10. ThisExtract' = ThisExtract /\ Accepted' = Accepted
  BY <1>1 DEF ThisExtract, Accepted
<1>11. JobType'
  <2>1. mapJob' \in IngestJobs'
    BY <1>8, <1>10 DEF IngestJobs
  <2> QED
    BY <1>8, <2>1 DEF JobType
<1>12. NothingForgotten'
  <2>1. ASSUME NEW d \in Accepted
        PROVE  \/ d \in ToSet(left)
               \/ Placed(Home(d), d)' /\ (QualifiesForLowZoom(d) => Placed("lowzoom", d)')
    <3>1. Home(d) \in ToSet(Collections)
      BY <1>2, ExtractHolds
    <3>2. \/ d \in ToSet(mapJob.left)
          \/ Placed(Home(d), d) /\ (QualifiesForLowZoom(d) => Placed("lowzoom", d))
      BY <1>2, <1>3 DEF NothingForgotten
    <3>3. CASE Placed(Home(d), d) /\ (QualifiesForLowZoom(d) => Placed("lowzoom", d))
      BY <1>7, <1>8, <3>1, <3>3
    <3>4. CASE d = doc
      <4>1. Placed(Home(d), d)
        BY <1>1, <1>2, <1>3, <1>4, <3>4 DEF NothingForgotten
      <4> QED
        BY <1>8, <3>1, <3>4, <4>1
    <3>5. CASE d \in ToSet(left)
      BY <3>5
    <3> QED
      BY <1>4, <3>2, <3>3, <3>4, <3>5
  <2>2. \A d \in Accepted' : \/ d \in ToSet(mapJob'.left)
                             \/ Placed(Home(d), d)' /\ (QualifiesForLowZoom(d) => Placed("lowzoom", d)')
    BY <1>8, <1>10, <2>1
  <2> QED
    BY <1>8, <2>2 DEF NothingForgotten, Placed
<1>13. IngestStands'
  BY <1>1, <1>2, <1>8, StandsStay
<1> QED
  BY <1>8, <1>9, <1>11, <1>12, <1>13 DEF OsmInv, MergeStands

LEMMA FlushBucketKeeps == OsmInv /\ FlushBucket => OsmInv'
<1> SUFFICES ASSUME OsmInv, FlushBucket PROVE OsmInv'
  OBVIOUS
<1>1. /\ mapJob.at = "emit" /\ mapJob.left = <<>>
      /\ file' = file /\ osmMeta' = osmMeta /\ lowWhole' = lowWhole
  BY DEF FlushBucket
<1>2. StoresType /\ NothingForgotten /\ IngestStands /\ file \in DOMAIN Extracts
  BY DEF OsmInv, StoresType
<1>3. mapJob \in IngestJobs /\ Ingesting
  BY <1>1, JobsAre DEF OsmInv, Ingesting
<1>4. PICK i \in DOMAIN Collections :
        /\ osm' = BulkWrite(Collections[i], mapJob.pending[Collections[i]])
        /\ mapJob' = [mapJob EXCEPT !.pending[Collections[i]] = <<>>]
  BY DEF FlushBucket
<1> DEFINE c == Collections[i]
           list == mapJob.pending[c]
<1>5. c \in ToSet(Collections)
  BY BucketsAre
<1> HIDE DEF c
<1>6. list \in Seq(ThisExtract) /\ mapJob.pending \in [ToSet(Collections) -> Seq(ThisExtract)]
  BY <1>3, <1>5 DEF IngestJobs
<1>7. osm' = BulkWrite(c, list) /\ mapJob' = [mapJob EXCEPT !.pending[c] = <<>>]
  BY <1>4 DEF c
<1>8. /\ mapJob' \in IngestJobs /\ mapJob'.at = "emit" /\ mapJob'.left = <<>>
      /\ \A b \in ToSet(Collections) : b # c => mapJob'.pending[b] = mapJob.pending[b]
  <2>1. [mapJob.pending EXCEPT ![c] = <<>>] \in [ToSet(Collections) -> Seq(ThisExtract)]
    BY <1>5, <1>6, EmptySeq
  <2>2. mapJob' = [mapJob EXCEPT !.pending = [mapJob.pending EXCEPT ![c] = <<>>]]
    BY <1>7
  <2> QED
    BY <1>1, <1>3, <1>6, <2>1, <2>2 DEF IngestJobs
<1> HIDE DEF list
<1>9. /\ osm' \in [ToSet(Collections) -> Shelves] /\ Grows
      /\ \A b \in ToSet(Collections) : b # c => osm'[b] = osm[b]
      /\ \A d \in Accepted : d \in ToSet(list) => Shows(osm'[c][d.id], d)
  BY <1>2, <1>5, <1>6, <1>7, WriteStep
<1>10. ASSUME NEW b \in ToSet(Collections), NEW d \in Accepted, Placed(b, d) PROVE Placed(b, d)'
  <2>1. CASE b = c
    <3>1. d \in ToSet(list) \/ Shows(osm[c][d.id], d)
      BY <1>10, <2>1 DEF Placed, list
    <3>2. Shows(osm'[c][d.id], d)
      BY <1>5, <1>9, <3>1 DEF Grows, Kept
    <3> QED
      BY <2>1, <3>2 DEF Placed, Shows
  <2>2. CASE b # c
    BY <1>8, <1>9, <1>10, <2>2 DEF Placed, Shows
  <2> QED
    BY <2>1, <2>2
<1>11. StoresType'
  BY <1>1, <1>2, <1>9 DEF StoresType
<1>12. ThisExtract' = ThisExtract /\ Accepted' = Accepted
  BY <1>1 DEF ThisExtract, Accepted
<1>13. JobType'
  <2>1. mapJob' \in IngestJobs'
    BY <1>8, <1>12 DEF IngestJobs
  <2> QED
    BY <1>8, <2>1 DEF JobType
<1>14. NothingForgotten'
  <2>1. ASSUME NEW d \in Accepted
        PROVE  d \in ToSet(mapJob'.left) \/ (Placed(Home(d), d)' /\ (QualifiesForLowZoom(d) => Placed("lowzoom", d)'))
    <3>1. Home(d) \in ToSet(Collections) /\ "lowzoom" \in ToSet(Collections)
      BY <1>2, ExtractHolds
    <3>2. \/ d \in ToSet(mapJob.left)
          \/ Placed(Home(d), d) /\ (QualifiesForLowZoom(d) => Placed("lowzoom", d))
      BY <1>2, <1>3 DEF NothingForgotten
    <3> QED
      BY <1>1, <1>8, <1>10, <3>1, <3>2
  <2>2. \A d \in Accepted' :
          d \in ToSet(mapJob'.left) \/ (Placed(Home(d), d)' /\ (QualifiesForLowZoom(d) => Placed("lowzoom", d)'))
    BY <1>12, <2>1
  <2> QED
    BY <1>8, <2>2 DEF NothingForgotten, Placed
<1>15. IngestStands'
  BY <1>1, <1>2, <1>9, StandsStay
<1> QED
  BY <1>8, <1>11, <1>13, <1>14, <1>15 DEF OsmInv, MergeStands

LEMMA WriteIngestMetaKeeps == OsmInv /\ WriteIngestMeta => OsmInv'
<1> SUFFICES ASSUME OsmInv, WriteIngestMeta PROVE OsmInv'
  OBVIOUS
<1>1. /\ mapJob.at = "emit" /\ mapJob.left = <<>> /\ \A c \in ToSet(Collections) : mapJob.pending[c] = <<>>
      /\ osmMeta' = [pbfHash |-> file, docCount |-> CountRegionDocs] /\ mapJob' = Unemployed
      /\ file' = file /\ osm' = osm /\ lowWhole' = lowWhole
  BY DEF WriteIngestMeta
<1>2. StoresType /\ NothingForgotten /\ file \in DOMAIN Extracts
  BY DEF OsmInv, StoresType
<1>3. Ingesting
  BY <1>1 DEF Ingesting
<1>4. file \in 1 .. file
  BY <1>2, ExtractsAre
<1>5. osmMeta'.pbfHash = file
  BY <1>1
<1>6. StoresType'
  BY <1>1, <1>2, <1>4, <1>5 DEF StoresType
<1>7. mapJob'.at = "none"
  BY <1>1 DEF Unemployed
<1>8. \A d : d \notin ToSet(<<>>)
  BY EmptySeq DEF ToSet
<1>9. ASSUME NEW d \in Accepted
      PROVE  Shows(osm[Home(d)][d.id], d) /\ (QualifiesForLowZoom(d) => Shows(osm["lowzoom"][d.id], d))
  <2>1. Home(d) \in ToSet(Collections) /\ "lowzoom" \in ToSet(Collections)
    BY <1>2, ExtractHolds
  <2>2. Placed(Home(d), d) /\ (QualifiesForLowZoom(d) => Placed("lowzoom", d))
    BY <1>1, <1>2, <1>3, <1>8 DEF NothingForgotten
  <2> QED
    BY <1>1, <1>8, <2>1, <2>2 DEF Placed
<1>10. Accepted' = Accepted
  BY <1>1 DEF ThisExtract, Accepted
<1>11. IngestStands'
  BY <1>1, <1>9, <1>10 DEF IngestStands, Shows
<1> QED
  BY <1>1, <1>6, <1>7, <1>11 DEF OsmInv, JobType, NothingForgotten, Ingesting, MergeStands

LEMMA DropLowZoomKeeps == OsmInv /\ DropLowZoom => OsmInv'
<1> SUFFICES ASSUME OsmInv, DropLowZoom PROVE OsmInv'
  OBVIOUS
<1> DEFINE bare == [id \in DocIds |-> NoDoc]
<1>1. /\ osm' = [osm EXCEPT !["lowzoom"] = bare] /\ mapJob' = [at |-> "merge", from |-> "overview"]
      /\ lowWhole' = FALSE /\ file' = file /\ osmMeta' = osmMeta
  BY DEF DropLowZoom
<1>2. bare \in Shelves
  BY DEF Shelves
<1> HIDE DEF bare
<1>3. StoresType /\ IngestStands /\ file \in DOMAIN Extracts /\ osm \in [ToSet(Collections) -> Shelves]
  BY DEF OsmInv, StoresType
<1>4. StoresType'
  BY <1>1, <1>2, <1>3 DEF StoresType
<1>5. mapJob' \in MergeJobs /\ mapJob'.at = "merge" /\ mapJob'.from = "overview"
  BY <1>1 DEF MergeJobs
<1>6. Accepted' = Accepted /\ (Ingested' <=> Ingested)
  BY <1>1 DEF Accepted, ThisExtract, Ingested
<1>7. \A b \in ToSet(Buckets) : osm'[b] = osm[b]
  BY <1>1, <1>3, BucketsAre
<1>8. ASSUME Ingested, NEW d \in Accepted PROVE Shows(osm'[Home(d)][d.id], d)
  <2>1. Home(d) \in ToSet(Buckets)
    BY <1>3, ExtractHolds
  <2>2. Shows(osm[Home(d)][d.id], d)
    BY <1>3, <1>8 DEF IngestStands
  <2> QED
    BY <1>7, <2>1, <2>2
<1>9. IngestStands'
  BY <1>1, <1>6, <1>8 DEF IngestStands, Shows
<1> QED
  BY <1>1, <1>4, <1>5, <1>9 DEF OsmInv, JobType, NothingForgotten, Ingesting, MergeStands

LEMMA MergeIs ==
  ASSUME StoresType, MergeLowZoom, NEW c \in {"overview", "coastal"}, mapJob.from = c
  PROVE  /\ StoresType' /\ Accepted' = Accepted /\ (Ingested' <=> Ingested)
         /\ \A b \in ToSet(Buckets) : osm'[b] = osm[b]
         /\ \A d \in Accepted :
              /\ Shows(osm[c][d.id], d) /\ QualifiesForLowZoom(d) => Shows(osm'["lowzoom"][d.id], d)
              /\ osm[c][d.id] = NoDoc => osm'["lowzoom"][d.id] = osm["lowzoom"][d.id]
<1> DEFINE taken(id) == osm[c][id] # NoDoc /\ QualifiesForLowZoom(osm[c][id])
           merged == [id \in DocIds |-> IF taken(id) THEN osm[c][id] ELSE osm["lowzoom"][id]]
<1>1. osm' = [osm EXCEPT !["lowzoom"] = merged] /\ file' = file /\ osmMeta' = osmMeta
  BY DEF MergeLowZoom
<1>2. /\ file \in DOMAIN Extracts /\ osm \in [ToSet(Collections) -> Shelves]
      /\ c \in ToSet(Collections) /\ "lowzoom" \in ToSet(Collections) /\ ToSet(Buckets) \subseteq ToSet(Collections)
      /\ "lowzoom" \notin ToSet(Buckets)
  BY BucketsAre DEF StoresType
<1>3. merged \in Shelves
  <2>1. osm[c] \in Shelves /\ osm["lowzoom"] \in Shelves
    BY <1>2
  <2> QED
    BY <2>1 DEF Shelves
<1>4. \A id \in DocIds : merged[id] = IF taken(id) THEN osm[c][id] ELSE osm["lowzoom"][id]
  OBVIOUS
<1> HIDE DEF merged
<1>5. osm' \in [ToSet(Collections) -> Shelves] /\ osm'["lowzoom"] = merged
  BY <1>1, <1>2, <1>3
<1>6. StoresType'
  BY <1>1, <1>5 DEF StoresType
<1>7. Accepted' = Accepted /\ (Ingested' <=> Ingested)
  BY <1>1 DEF Accepted, ThisExtract, Ingested
<1>8. \A b \in ToSet(Buckets) : osm'[b] = osm[b]
  BY <1>1, <1>2
<1>9. ASSUME NEW d \in Accepted
      PROVE  /\ Shows(osm[c][d.id], d) /\ QualifiesForLowZoom(d) => Shows(osm'["lowzoom"][d.id], d)
             /\ osm[c][d.id] = NoDoc => osm'["lowzoom"][d.id] = osm["lowzoom"][d.id]
  <2>1. d.id \in DocIds
    BY <1>2, ExtractHolds
  <2>2. Shows(osm[c][d.id], d) /\ QualifiesForLowZoom(d) => taken(d.id)
    BY DEF Shows, QualifiesForLowZoom
  <2> QED
    BY <1>4, <1>5, <2>1, <2>2
<1> QED
  BY <1>6, <1>7, <1>8, <1>9

LEMMA MergeLowZoomKeeps == OsmInv /\ MergeLowZoom => OsmInv'
<1> SUFFICES ASSUME OsmInv, MergeLowZoom PROVE OsmInv'
  OBVIOUS
<1>1. /\ mapJob.at = "merge" /\ lowWhole' = (mapJob.from = "coastal")
      /\ mapJob' = IF mapJob.from = "overview" THEN [at |-> "merge", from |-> "coastal"] ELSE Unemployed
  BY DEF MergeLowZoom
<1>2. mapJob.from \in {"overview", "coastal"}
  BY <1>1, JobsAre DEF OsmInv, MergeJobs
<1>3. StoresType /\ IngestStands /\ MergeStands /\ file \in DOMAIN Extracts
  BY DEF OsmInv, StoresType
<1>4. PICK c \in {"overview", "coastal"} : mapJob.from = c
  BY <1>2
<1>5. /\ StoresType' /\ Accepted' = Accepted /\ (Ingested' <=> Ingested)
      /\ \A b \in ToSet(Buckets) : osm'[b] = osm[b]
      /\ \A d \in Accepted :
           /\ Shows(osm[c][d.id], d) /\ QualifiesForLowZoom(d) => Shows(osm'["lowzoom"][d.id], d)
           /\ osm[c][d.id] = NoDoc => osm'["lowzoom"][d.id] = osm["lowzoom"][d.id]
  BY <1>3, <1>4, MergeIs
<1>6. ASSUME Ingested, NEW d \in Accepted
      PROVE  Shows(osm[Home(d)][d.id], d) /\ Shows(osm'[Home(d)][d.id], d) /\ Home(d) \in ToSet(Buckets)
  <2>1. Home(d) \in ToSet(Buckets)
    BY <1>3, ExtractHolds
  <2>2. Shows(osm[Home(d)][d.id], d)
    BY <1>3, <1>6 DEF IngestStands
  <2> QED
    BY <1>5, <2>1, <2>2
<1>7. CASE c = "overview"
  <2>1. mapJob' = [at |-> "merge", from |-> "coastal"] /\ lowWhole' = FALSE
    BY <1>1, <1>4, <1>7
  <2>2. mapJob' \in MergeJobs /\ mapJob'.at = "merge" /\ mapJob'.from = "coastal"
    BY <2>1 DEF MergeJobs
  <2>3. IngestStands'
    BY <1>5, <1>6, <2>1 DEF IngestStands, Shows
  <2>4. ASSUME Ingested, NEW d \in Accepted, QualifiesForLowZoom(d), Home(d) = "overview"
        PROVE  Shows(osm'["lowzoom"][d.id], d)
    BY <1>5, <1>6, <1>7, <2>4
  <2>5. MergeStands'
    BY <1>5, <2>4 DEF MergeStands, Shows, Home, QualifiesForLowZoom
  <2> QED
    BY <1>5, <2>1, <2>2, <2>3, <2>5 DEF OsmInv, JobType, NothingForgotten, Ingesting
<1>8. CASE c = "coastal"
  <2>1. mapJob' = Unemployed /\ mapJob'.at = "none"
    BY <1>1, <1>4, <1>8 DEF Unemployed
  <2>2. ASSUME Ingested, NEW d \in Accepted, QualifiesForLowZoom(d), Home(d) \in {"overview", "coastal"}, Alone(d.id)'
        PROVE  Shows(osm'["lowzoom"][d.id], d)
    <3>1. CASE Home(d) = "coastal"
      BY <1>5, <1>6, <1>8, <2>2, <3>1
    <3>2. CASE Home(d) = "overview"
      <4>1. osm["overview"][d.id] # NoDoc
        BY <1>6, <2>2, <3>2 DEF Shows
      <4>2. Alone(d.id)
        BY <1>5, <2>2 DEF Alone
      <4>3. osm["coastal"][d.id] = NoDoc
        BY <4>1, <4>2, BucketsAre DEF Alone
      <4>4. Shows(osm["lowzoom"][d.id], d)
        BY <1>1, <1>3, <1>4, <1>8, <2>2, <3>2 DEF MergeStands
      <4> QED
        BY <1>5, <1>8, <2>2, <4>3, <4>4
    <3> QED
      BY <2>2, <3>1, <3>2
  <2>3. ASSUME Ingested, NEW d \in Accepted
        PROVE  /\ Shows(osm'[Home(d)][d.id], d)
               /\ QualifiesForLowZoom(d) /\ Home(d) \in {"overview", "coastal"} /\ Alone(d.id)' =>
                    Shows(osm'["lowzoom"][d.id], d)
    BY <1>6, <2>2, <2>3
  <2>4. IngestStands'
    BY <1>5, <2>3 DEF IngestStands, Shows, Alone
  <2> QED
    BY <1>5, <2>1, <2>4 DEF OsmInv, JobType, NothingForgotten, Ingesting, MergeStands
<1> QED
  BY <1>7, <1>8

LEMMA BackfillGeomLowKeeps == OsmInv /\ BackfillGeomLow => OsmInv'
<1> SUFFICES ASSUME OsmInv, BackfillGeomLow PROVE OsmInv'
  OBVIOUS
<1>1. /\ mapJob = Unemployed /\ mapJob' = mapJob /\ file' = file /\ osmMeta' = osmMeta /\ lowWhole' = lowWhole
  BY DEF BackfillGeomLow
<1>2. PICK c \in {"overview", "coastal"} : \E e \in DocsIn(c) :
        osm' = [osm EXCEPT ![c][e.id].low = LowGeomFor(e.kind, e.geometry.at)]
  BY DEF BackfillGeomLow
<1>3. StoresType /\ IngestStands /\ osm \in [ToSet(Collections) -> Shelves]
      /\ c \in ToSet(Collections) /\ osm[c] \in Shelves
  BY BucketsAre DEF OsmInv, StoresType
<1> DEFINE Given(e) == osm' = [osm EXCEPT ![c][e.id].low = LowGeomFor(e.kind, e.geometry.at)]
<1>4. PICK id \in DocIds, e \in StoredDocs : Given(e) /\ e = osm[c][id] /\ e # NoDoc
  <2>1. PICK e \in DocsIn(c) : Given(e)
    BY <1>2
  <2> HIDE DEF Given
  <2>2. PICK id \in DocIds : e = osm[c][id] /\ e # NoDoc
    BY DEF DocsIn
  <2>3. e \in StoredDocs
    BY <1>3, <2>2 DEF Shelves
  <2> QED
    BY <2>1, <2>2, <2>3
<1>5. e \in StoredDocs /\ e.id = id
  BY <1>3, <1>4 DEF Shelves
<1> DEFINE new == [e EXCEPT !.low = LowGeomFor(e.kind, e.geometry.at)]
<1>6. new \in StoredDocs /\ Shows(new, e)
  BY <1>5, StoredDocsAre
<1>7. osm' = [osm EXCEPT ![c] = [osm[c] EXCEPT ![id] = new]]
  <2>1. osm' = [osm EXCEPT ![c][id].low = LowGeomFor(e.kind, e.geometry.at)]
    BY <1>4, <1>5
  <2> QED
    BY <1>4, <2>1
<1> HIDE DEF new, Given
<1> DEFINE shelf == [osm[c] EXCEPT ![id] = new]
<1>8. new # NoDoc /\ new.id = id
  BY <1>5, <1>6 DEF Shows
<1>9. shelf \in Shelves /\ shelf[id] = new /\ \A i \in DocIds : i # id => shelf[i] = osm[c][i]
  <2>1. osm[c] \in [DocIds -> StoredDocs \cup {NoDoc}] /\ \A i \in DocIds : osm[c][i] # NoDoc => osm[c][i].id = i
    BY <1>3 DEF Shelves
  <2>2. shelf \in [DocIds -> StoredDocs \cup {NoDoc}] /\ shelf[id] = new /\ \A i \in DocIds : i # id => shelf[i] = osm[c][i]
    BY <1>6, <2>1
  <2> HIDE DEF shelf
  <2> QED
    BY <1>8, <2>1, <2>2 DEF Shelves
<1>10. Kept(osm[c], shelf)
  <2>1. ASSUME NEW d \in Accepted, Shows(osm[c][d.id], d) PROVE Shows(shelf[d.id], d)
    <3>1. d.id \in DocIds
      BY ExtractHolds, <1>3 DEF StoresType
    <3>2. CASE d.id = id
      BY <1>4, <1>6, <1>9, <2>1, <3>2, ShowsThrough
    <3>3. CASE d.id # id
      BY <1>9, <2>1, <3>1, <3>3
    <3> QED
      BY <3>2, <3>3
  <2>2. \A i \in DocIds : osm[c][i] # NoDoc => shelf[i] # NoDoc
    BY <1>8, <1>9
  <2> QED
    BY <2>1, <2>2 DEF Kept
<1> HIDE DEF shelf
<1>11. osm' \in [ToSet(Collections) -> Shelves] /\ osm'[c] = shelf /\ \A b \in ToSet(Collections) : b # c => osm'[b] = osm[b]
  BY <1>3, <1>7, <1>9 DEF shelf
<1>12. Grows
  <2>1. \A b \in ToSet(Collections) : Kept(osm[b], osm[b])
    BY DEF Kept
  <2> QED
    BY <1>10, <1>11, <2>1 DEF Grows
<1>13. IngestStands'
  BY <1>1, <1>3, <1>12, StandsStay
<1>14. StoresType'
  BY <1>1, <1>3, <1>11 DEF StoresType
<1>15. mapJob'.at = "none"
  BY <1>1 DEF Unemployed
<1> QED
  BY <1>1, <1>13, <1>14, <1>15 DEF OsmInv, JobType, NothingForgotten, Ingesting, MergeStands

LEMMA StopJobKeeps == OsmInv /\ StopJob => OsmInv'
<1> SUFFICES ASSUME OsmInv, StopJob PROVE OsmInv'
  OBVIOUS
<1>1. mapJob' = Unemployed /\ mapJob'.at = "none" /\ file' = file /\ osmMeta' = osmMeta /\ lowWhole' = lowWhole
  BY DEF StopJob, Unemployed
<1>2. StoresType /\ IngestStands /\ osm \in [ToSet(Collections) -> Shelves]
  BY DEF OsmInv, StoresType
<1>3. osm' \in [ToSet(Collections) -> Shelves] /\ Grows
  <2>1. CASE osm' = osm
    BY <1>2, <2>1 DEF Grows, Kept
  <2>2. CASE /\ mapJob.at \in {"emit", "copy"}
             /\ \E c \in ToSet(Collections) : \E k \in DOMAIN mapJob.pending[c] :
                  osm' = BulkWrite(c, <<mapJob.pending[c][k]>>)
    <3>1. mapJob \in IngestJobs
      BY <2>2, JobsAre DEF OsmInv, Ingesting
    <3>2. PICK c \in ToSet(Collections) : \E k \in DOMAIN mapJob.pending[c] :
            osm' = BulkWrite(c, <<mapJob.pending[c][k]>>)
      BY <2>2
    <3>3. mapJob.pending[c] \in Seq(ThisExtract)
      BY <3>1 DEF IngestJobs
    <3>4. PICK e \in ThisExtract : osm' = BulkWrite(c, <<e>>)
      <4>1. PICK k \in DOMAIN mapJob.pending[c] : osm' = BulkWrite(c, <<mapJob.pending[c][k]>>)
        BY <3>2
      <4>2. mapJob.pending[c][k] \in ThisExtract
        BY <3>3, ElementOfSeq, LenProperties
      <4> QED
        BY <4>1, <4>2
    <3>5. <<e>> \in Seq(ThisExtract)
      OBVIOUS
    <3> QED
      BY <1>2, <3>4, <3>5, WriteStep
  <2> QED
    BY <2>1, <2>2 DEF StopJob
<1>4. StoresType'
  BY <1>1, <1>2, <1>3 DEF StoresType
<1>5. IngestStands'
  BY <1>1, <1>2, <1>3, StandsStay
<1> QED
  BY <1>1, <1>4, <1>5 DEF OsmInv, JobType, NothingForgotten, Ingesting, MergeStands

LEMMA OsmStepKeeps == OsmInv /\ [OsmNext]_osmVars => OsmInv'
<1> SUFFICES ASSUME OsmInv, [OsmNext]_osmVars PROVE OsmInv'
  OBVIOUS
<1>1. CASE Download BY <1>1, DownloadKeeps
<1>2. CASE \E force \in BOOLEAN : BeginIngest(force) BY <1>2, BeginIngestKeeps
<1>3. CASE UpsertDoc BY <1>3, UpsertDocKeeps
<1>4. CASE CopyLow BY <1>4, CopyLowKeeps
<1>5. CASE FlushBucket BY <1>5, FlushBucketKeeps
<1>6. CASE WriteIngestMeta BY <1>6, WriteIngestMetaKeeps
<1>7. CASE DropLowZoom BY <1>7, DropLowZoomKeeps
<1>8. CASE MergeLowZoom BY <1>8, MergeLowZoomKeeps
<1>9. CASE BackfillGeomLow BY <1>9, BackfillGeomLowKeeps
<1>10. CASE StopJob BY <1>10, StopJobKeeps
<1>11. CASE UNCHANGED osmVars
  <2>1. file' = file /\ osm' = osm /\ osmMeta' = osmMeta /\ mapJob' = mapJob /\ lowWhole' = lowWhole
    BY <1>11 DEF osmVars
  <2>2. StoresType' /\ JobType'
    BY <2>1 DEF OsmInv, StoresType, JobType, IngestJobs, ThisExtract
  <2>3. Accepted' = Accepted /\ (Ingested' <=> Ingested) /\ (Ingesting' <=> Ingesting)
    BY <2>1 DEF Accepted, ThisExtract, Ingested, Ingesting
  <2>4. NothingForgotten'
    BY <2>1, <2>3 DEF OsmInv, NothingForgotten, Placed
  <2>5. IngestStands' /\ MergeStands'
    BY <2>1, <2>3 DEF OsmInv, IngestStands, MergeStands, Alone
  <2> QED
    BY <2>2, <2>4, <2>5 DEF OsmInv
<1> QED
  BY <1>1, <1>2, <1>3, <1>4, <1>5, <1>6, <1>7, <1>8, <1>9, <1>10, <1>11 DEF OsmNext

THEOREM OsmInvariant == OsmSpec => []OsmInv
<1> QED
  BY OsmStarts, OsmStepKeeps, PTL DEF OsmSpec

-----------------------------------------------------------------------------
(* What the tiles fetch.                                                   *)
LEMMA ZoomsAre ==
  ASSUME NEW z \in TileZooms
  PROVE  /\ z \in Nat /\ EffectiveQueryZoom(z) \in {11, 12}
         /\ z <= 11 => z \in {7, 8, 9, 11}
<1>1. z \in {7, 8, 9, 11, 12, 15}
  BY DEF TileZooms
<1>2. \A k \in Nat : k <= 11 => Max({11, k}) = 11
  BY DEF Max
<1>3. Max({11, 12}) = 12
  BY DEF Max
<1>4. CASE z = 15
  <2>1. z - 3 = 12
    BY <1>4
  <2> QED
    BY <1>3, <1>4, <2>1 DEF EffectiveQueryZoom
<1>5. CASE z # 15
  <2>1. z - 3 \in Nat /\ z - 3 <= 11
    BY <1>1, <1>5
  <2> QED
    BY <1>1, <1>2, <1>5, <2>1 DEF EffectiveQueryZoom
<1> QED
  BY <1>4, <1>5

LEMMA HomeIsQueried ==
  ASSUME NEW d \in AllDocs
  PROVE  /\ d.zoom \in Nat
         /\ d.zoom <= 11 => Home(d) \in {"overview", "coastal"}
         /\ \A zoom \in {11, 12} : d.zoom <= zoom => Home(d) \in ToSet(BucketsForQueryZoom(zoom))
<1>1. d.zoom \in Nat
  BY OsmAssumption
<1>2. d.zoom <= 11 => Home(d) \in {"overview", "coastal"}
  BY <1>1 DEF Home, BucketForMinZoom
<1>3. d.zoom <= 12 => Home(d) \in {"overview", "coastal", "detail"}
  BY <1>1 DEF Home, BucketForMinZoom
<1>4. BucketsForQueryZoom(11) = <<"overview", "coastal">> /\ BucketsForQueryZoom(12) = <<"overview", "coastal", "detail">>
  BY DEF BucketsForQueryZoom
<1>5. ToSet(<<"overview", "coastal">>) = {"overview", "coastal"}
  <2> DEFINE s == <<"overview", "coastal">>
  <2>1. DOMAIN s = {1, 2} /\ s[1] = "overview" /\ s[2] = "coastal"
    OBVIOUS
  <2> HIDE DEF s
  <2>2. ToSet(s) = {"overview", "coastal"}
    BY <2>1 DEF ToSet
  <2> QED
    BY <2>2 DEF s
<1>6. ToSet(<<"overview", "coastal", "detail">>) = {"overview", "coastal", "detail"}
  <2> DEFINE s == <<"overview", "coastal", "detail">>
  <2>1. DOMAIN s = {1, 2, 3} /\ s[1] = "overview" /\ s[2] = "coastal" /\ s[3] = "detail"
    OBVIOUS
  <2> HIDE DEF s
  <2>2. ToSet(s) = {"overview", "coastal", "detail"}
    BY <2>1 DEF ToSet
  <2> QED
    BY <2>2 DEF s
<1> QED
  BY <1>1, <1>2, <1>3, <1>4, <1>5, <1>6

LEMMA FetchedIs ==
  ASSUME StoresType, NEW c \in ToSet(Collections), NEW d \in Accepted, Shows(osm[c][d.id], d),
         NEW zoom \in Nat, d.zoom <= zoom, NEW classes, d.class \in classes
  PROVE  /\ osm[c][d.id] \in Fetched(c, Quarters, zoom, classes)
         /\ \E q \in Quarters : osm[c][d.id] \in Fetched(c, {q}, zoom, classes)
<1>1. d \in AllDocs /\ d.id \in DocIds
  BY ExtractHolds DEF StoresType
<1>2. PICK p \in ToSet(d.geometry.at) : p \in Int \X Int
  BY <1>1, OsmAssumption
<1>3. p[1] \in Int /\ p[2] \in Int /\ Centre[1] \in Int /\ Centre[2] \in Int
  BY <1>2, OsmAssumption
<1>4. PICK q \in Quarters : InQuarter(p, q)
  <2> DEFINE a == IF p[1] <= Centre[1] THEN "west" ELSE "east"
             b == IF p[2] <= Centre[2] THEN "south" ELSE "north"
  <2>1. <<a, b>> \in Quarters
    BY DEF Quarters
  <2>2. p[1] <= Centre[1] \/ p[1] >= Centre[1]
    BY <1>3
  <2>3. p[2] <= Centre[2] \/ p[2] >= Centre[2]
    BY <1>3
  <2>4. InQuarter(p, <<a, b>>)
    BY <2>2, <2>3 DEF InQuarter
  <2> QED
    BY <2>1, <2>4
<1> DEFINE e == osm[c][d.id]
<1>5. e \in DocsIn(c) /\ e.zoom <= zoom /\ e.class \in classes /\ p \in ToSet(e.geometry.at)
  BY <1>1, <1>2 DEF DocsIn, Shows
<1> HIDE DEF e
<1>6. e \in Fetched(c, Quarters, zoom, classes) /\ e \in Fetched(c, {q}, zoom, classes)
  BY <1>4, <1>5 DEF Fetched
<1> QED
  BY <1>6 DEF e

LEMMA OnlyThatOne ==
  ASSUME NEW id, InOneBucket(id)
  PROVE  Alone(id)
<1> DEFINE S == {c \in ToSet(Buckets) : osm[c][id] # NoDoc}
<1>1. IsFiniteSet(S)
  <2>1. IsFiniteSet({"overview", "coastal", "detail", "skip"})
    <3>1. IsFiniteSet(((({} \cup {"overview"}) \cup {"coastal"}) \cup {"detail"}) \cup {"skip"})
      BY FS_EmptySet, FS_AddElement
    <3>2. {"overview", "coastal", "detail", "skip"} = ((({} \cup {"overview"}) \cup {"coastal"}) \cup {"detail"}) \cup {"skip"}
      OBVIOUS
    <3> QED
      BY ONLY <3>1, <3>2
  <2> QED
    BY <2>1, BucketsAre, FS_Subset
<1>2. Cardinality(S) = 1
  BY DEF InOneBucket
<1> HIDE DEF S
<1>3. PICK x : S = {x}
  BY <1>1, <1>2, FS_Singleton
<1>4. \A c, b \in S : c = b
  BY <1>3
<1> QED
  BY <1>4 DEF S, Alone

LEMMA ServedOnTheTile ==
  ASSUME OsmInv, Ingested, NEW d \in Accepted, NEW z \in TileZooms, d.zoom <= EffectiveQueryZoom(z)
  PROVE  \E e \in RenderOSMTile(z) : e.id = d.id /\ e.geometry = d.geometry
<1> DEFINE zoom == EffectiveQueryZoom(z)
<1>1. zoom \in {11, 12} /\ zoom \in Nat
  BY ZoomsAre
<1>2. d \in AllDocs /\ Home(d) \in ToSet(Collections)
  BY ExtractHolds DEF OsmInv, StoresType
<1>3. Shows(osm[Home(d)][d.id], d)
  BY DEF OsmInv, IngestStands
<1>4. d.class \in AllClasses
  BY <1>2 DEF AllClasses
<1>5. d.zoom <= zoom
  OBVIOUS
<1>6. Home(d) \in ToSet(BucketsForQueryZoom(zoom))
  BY <1>1, <1>2, HomeIsQueried
<1> HIDE DEF zoom
<1>7. osm[Home(d)][d.id] \in Fetched(Home(d), Quarters, zoom, AllClasses)
  BY <1>1, <1>2, <1>3, <1>4, <1>5, FetchedIs DEF OsmInv
<1>8. osm[Home(d)][d.id] \in RenderOSMTile(z)
  BY <1>6, <1>7 DEF RenderOSMTile, zoom
<1> QED
  BY <1>3, <1>8 DEF Shows

LEMMA BandOfACopy ==
  ASSUME NEW e, NEW d, Shows(e, d), NEW z, OverviewBand(d, z)
  PROVE  OverviewBand(e, z)
BY DEF Shows, OverviewBand

(* A query for each quarter returns what the first of its buckets has.     *)
LEMMA FetchQuadHolds ==
  ASSUME NEW s, NEW z, NEW classes, NEW i \in DOMAIN s, NEW q \in Quarters,
         NEW e \in Fetched(s[i], {q}, z, classes),
         \A j \in 1 .. i - 1 : \A r \in Quarters : \A f \in Fetched(s[j], {r}, z, classes) : f.id # e.id
  PROVE  e \in FetchQuad(s, z, classes)
<1> DEFINE got(k) == UNION {Fetched(s[k], {r}, z, classes) : r \in Quarters}
           firsts(k) == {d \in got(k) : \A j \in 1 .. k - 1 : \A f \in got(j) : f.id # d.id}
<1>1. e \in got(i)
  OBVIOUS
<1>2. \A j \in 1 .. i - 1 : \A f \in got(j) : f.id # e.id
  OBVIOUS
<1>3. FetchQuad(s, z, classes) = UNION {firsts(k) : k \in DOMAIN s}
  BY Zenon DEF FetchQuad
<1> HIDE DEF got
<1>4. e \in firsts(i)
  BY <1>1, <1>2
<1> HIDE DEF firsts
<1> QED
  BY <1>3, <1>4

LEMMA ServedOnTheOverview ==
  ASSUME OsmInv, Ingested, NEW d \in Accepted, NEW z \in TileZooms, z <= 11, d.zoom <= z,
         d.class \in BandClasses, OverviewBand(d, z), InOneBucket(d.id),
         z <= 8 => QualifiesForLowZoom(d) /\ lowWhole
  PROVE  \E e \in RenderOverviewOSM(z) : e.id = d.id
<1>1. z \in {7, 8, 9, 11} /\ z \in Nat
  BY ZoomsAre
<1>2. /\ StoresType /\ d \in AllDocs /\ d.id \in DocIds /\ Home(d) \in ToSet(Collections)
      /\ "lowzoom" \in ToSet(Collections) /\ "overview" \in ToSet(Collections) /\ osm \in [ToSet(Collections) -> Shelves]
  BY ExtractHolds, BucketsAre DEF OsmInv, StoresType
<1>3. Home(d) \in {"overview", "coastal"}
  <2>1. d.zoom \in Nat
    BY <1>2, HomeIsQueried
  <2>2. d.zoom <= 11
    BY <1>1, <2>1
  <2> QED
    BY <1>2, <2>2, HomeIsQueried
<1>4. Alone(d.id)
  BY OnlyThatOne
<1>5. Shows(osm[Home(d)][d.id], d) /\ (z <= 8 => Shows(osm["lowzoom"][d.id], d))
  BY <1>3, <1>4 DEF OsmInv, IngestStands
<1>6. d.class \in AllClasses
  BY <1>2 DEF AllClasses
<1>7. CASE z <= 8
  <2> DEFINE e == osm["lowzoom"][d.id]
             s == <<"lowzoom">>
  <2>1. DOMAIN s = {1} /\ s[1] = "lowzoom"
    OBVIOUS
  <2>2. Shows(e, d)
    BY <1>5, <1>7
  <2>3. PICK q \in Quarters : e \in Fetched("lowzoom", {q}, z, AllClasses)
    BY <1>1, <1>2, <1>6, <2>2, FetchedIs
  <2> HIDE DEF e, s
  <2>4. e \in FetchQuad(s, z, AllClasses)
    <3>1. 1 .. 1 - 1 = {}
      OBVIOUS
    <3> QED
      BY <2>1, <2>3, <3>1, FetchQuadHolds
  <2>5. e \in RenderOverviewOSM(z)
    BY <1>7, <2>2, <2>4, BandOfACopy DEF RenderOverviewOSM, s
  <2> QED
    BY <2>2, <2>5 DEF Shows
<1>8. CASE ~(z <= 8)
  <2> DEFINE e == osm[Home(d)][d.id]
             s == <<"overview", "coastal">>
  <2>1. DOMAIN s = {1, 2} /\ s[1] = "overview" /\ s[2] = "coastal"
    OBVIOUS
  <2>2. Shows(e, d)
    BY <1>5
  <2>3. PICK q \in Quarters : e \in Fetched(Home(d), {q}, z, BandClasses)
    BY <1>1, <1>2, <2>2, FetchedIs
  <2>4. s = BucketsForQueryZoom(z)
    BY <1>1, <1>8 DEF BucketsForQueryZoom
  <2> HIDE DEF e, s
  <2>5. e \in FetchQuad(s, z, BandClasses)
    <3>1. CASE Home(d) = "overview"
      <4>1. 1 .. 1 - 1 = {}
        OBVIOUS
      <4> QED
        BY <2>1, <2>3, <3>1, <4>1, FetchQuadHolds
    <3>2. CASE Home(d) = "coastal"
      <4>1. 1 .. 2 - 1 = {1}
        OBVIOUS
      <4>2. osm["overview"][d.id] = NoDoc
        <5>1. osm["coastal"][d.id] # NoDoc
          BY <2>2, <3>2 DEF e, Shows
        <5> QED
          BY <1>4, <5>1, BucketsAre DEF Alone
      <4>3. ASSUME NEW q2 \in Quarters, NEW f \in Fetched("overview", {q2}, z, BandClasses) PROVE f.id # e.id
        <5>1. f \in DocsIn("overview")
          BY DEF Fetched
        <5>2. PICK id \in DocIds : f = osm["overview"][id] /\ f # NoDoc
          BY <5>1 DEF DocsIn
        <5>3. f.id = id
          BY <1>2, <5>2 DEF Shelves
        <5> QED
          BY <2>2, <4>2, <5>2, <5>3 DEF Shows
      <4> QED
        BY <2>1, <2>3, <3>2, <4>1, <4>3, FetchQuadHolds
    <3> QED
      BY <1>3, <3>1, <3>2
  <2>6. e \in RenderOverviewOSM(z)
    BY <1>8, <2>2, <2>4, <2>5, BandOfACopy DEF RenderOverviewOSM
  <2> QED
    BY <2>2, <2>6 DEF Shows
<1> QED
  BY <1>7, <1>8

LEMMA WhatStandsIsServed == OsmInv => SkippedExtractIsServed
<1> SUFFICES ASSUME OsmInv, mapJob = Unemployed, ShouldSkipIngest PROVE
      \A d \in {e \in ToSet(ExtractDocs[file]) : e.id \notin Quirky} : \A z \in TileZooms :
        /\ d.zoom <= EffectiveQueryZoom(z) =>
             \E e \in RenderOSMTile(z) : e.id = d.id /\ e.geometry = d.geometry
        /\ (/\ z <= 11 /\ d.zoom <= z /\ d.class \in BandClasses
            /\ OverviewBand(d, z) /\ InOneBucket(d.id)
            /\ z <= 8 => QualifiesForLowZoom(d) /\ lowWhole)
           => \E e \in RenderOverviewOSM(z) : e.id = d.id
  BY DEF SkippedExtractIsServed
<1>1. Ingested
  BY DEF ShouldSkipIngest, Ingested
<1>2. Accepted = {e \in ToSet(ExtractDocs[file]) : e.id \notin Quirky}
  BY DEF Accepted, ThisExtract
<1> QED
  BY <1>1, <1>2, ServedOnTheTile, ServedOnTheOverview

(* An extract that a run of mapsync skips is served.                       *)
THEOREM SkippedIsServed == OsmSpec => []SkippedExtractIsServed
<1> QED
  BY OsmInvariant, WhatStandsIsServed, PTL
=============================================================================
