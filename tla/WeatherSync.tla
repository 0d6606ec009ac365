---------------------------- MODULE WeatherSync ----------------------------
(***************************************************************************)
(* The forecasts: weathersync downloads each forecast hour of a model's    *)
(* newest run (a cycle), decodes it to a file, packs the file into a gzip  *)
(* sibling, and copies the sibling to the collection the charts are served *)
(* from (weather/weathersync.go, weather/noaa_weather_cache.go,            *)
(* weather/weather_models.go, weather/store/store.go).  The periodic pass  *)
(* and those of sync_now run beside each other and meet in fetchMu.  A     *)
(* forecast is the cycle it is of; times are hours.                        *)
(***************************************************************************)
EXTENDS Integers, Sequences, FiniteSets, FiniteSetsExt

CONSTANTS
  WeatherModels,  \* the models: their name, CycleHours, PublishLagH, MinFh, MaxFh, StepFh
  MaxFH,          \* the operator's cap on the forecast hour
  Passes,         \* the periodic pass and those of sync_now
  FirstHour,      \* when the service first runs
  LastHour,       \* bound: the last hour of the clock
  Published,      \* what upstream publishes, in order: [cycle, fh, part]
  MaxMishaps,     \* bound: failed downloads, writes and stores, and restarts
  NoForecast

VARIABLES
  model,    \* the model followed
  wxClock,  \* time.Now()
  out,      \* how much of Published is out
  stash,    \* raw-ecmwf: the [cycle, fh] kept as downloaded
  wxFile,   \* the decoded file of each forecast hour
  wxGz,     \* its gzip sibling
  recent,   \* the forecast hours whose file is at most weatherStaleAfter old
  grid,     \* the collection: [cycle, gzip] of each forecast hour
  wxPass,   \* the passes under way
  mishaps

weatherVars == <<model, wxClock, out, stash, wxFile, wxGz, recent, grid, wxPass, mishaps>>

-----------------------------------------------------------------------------
(* MostRecentCycle: the runs that should be out by now, a model having     *)
(* some at the same hours of every day; and the four newest of them, which *)
(* WalkLatestCycle tries one after the other (PreviousCycle).              *)
Due ==
  LET now == wxClock - model.publishLag
      days == (now \div 24) - 2 .. now \div 24
  IN  {c \in {24 * d + h : d \in days, h \in model.cycleHours} : c <= now}

Walk == {c \in Due : Cardinality({later \in Due : later > c}) < 4}

(* The hours of the sync loop, and the one a request is answered with.     *)
SyncedHours ==
  LET last == IF MaxFH > 0 /\ MaxFH < model.maxFh THEN MaxFH ELSE model.maxFh
  IN  {fh \in model.minFh .. last : (fh - model.minFh) % model.step = 0}

SnapFh(n) ==
  LET clamped == Max({model.minFh, Min({n, model.maxFh})})
  IN  (clamped \div model.step) * model.step

Uploaded == {Published[k] : k \in 1 .. out}

(* The files of a cycle a download needs: ICON's second is not looked for  *)
(* until the walk has settled on a cycle by the first, ECMWF's are both    *)
(* read inside the walk and kept.                                          *)
InWalk == IF model.name = "icon" THEN {"u"} ELSE {"u", "v"}
Found(c, fh) ==
  \/ \A part \in InWalk : [cycle |-> c, fh |-> fh, part |-> part] \in Uploaded
  \/ <<c, fh>> \in stash
Complete(c, fh) == \A part \in {"u", "v"} : [cycle |-> c, fh |-> fh, part |-> part] \in Uploaded
Obtainable(c, fh) == Found(c, fh) /\ (model.name = "icon" => Complete(c, fh))

-----------------------------------------------------------------------------
AtRest == [at |-> "idle"]

WeatherInit ==
  /\ model \in WeatherModels
  /\ wxClock = FirstHour /\ out = 0 /\ stash = {}
  /\ wxFile = [fh \in SyncedHours |-> NoForecast]
  /\ wxGz = [fh \in SyncedHours |-> NoForecast]
  /\ recent = {}
  /\ grid = [fh \in SyncedHours |-> NoForecast]
  /\ wxPass = [p \in Passes |-> AtRest]
  /\ mishaps = 0

(* runLoop's timer fires, or sync_now is called.  The label written to the *)
(* collection is the cycle due now, whatever is downloaded.                *)
SyncWeatherOnce(p) ==
  /\ wxPass[p].at = "idle"
  /\ wxPass' = [wxPass EXCEPT ![p] = [at |-> "refresh", fh |-> Min(SyncedHours)]]
  /\ UNCHANGED <<model, wxClock, out, stash, wxFile, wxGz, recent, grid, mishaps>>

(* The loop's continue: on to the next forecast hour.                      *)
NextHour(p) ==
  LET left == {fh \in SyncedHours : fh > wxPass[p].fh}
  IN  [wxPass EXCEPT ![p] = IF left = {} THEN AtRest ELSE [at |-> "refresh", fh |-> Min(left)]]

At(p, stage) == [wxPass EXCEPT ![p].at = stage]
FetchMuFree == \A p \in Passes : wxPass[p].at # "gzip"

(* refreshNow's second look, under the mutex.                              *)
Fresh(fh) == fh \in recent

ShortCircuit(p) ==
  /\ wxPass[p].at = "refresh" /\ FetchMuFree
  /\ Fresh(wxPass[p].fh)
  /\ wxPass' = At(p, "read")
  /\ UNCHANGED <<model, wxClock, out, stash, wxFile, wxGz, recent, grid, mishaps>>

(* The walk finds a run; it is decoded and renamed over the file.  A       *)
(* candidate that fails to download is passed over for an older one.       *)
RefreshNow(p) ==
  LET fh == wxPass[p].fh IN
  /\ wxPass[p].at = "refresh" /\ FetchMuFree /\ ~Fresh(fh)
  /\ \E c \in Walk :
       LET overlooked == Cardinality({later \in Walk : later > c /\ Found(later, fh)}) IN
       /\ Obtainable(c, fh)
       /\ mishaps + overlooked <= MaxMishaps
       /\ mishaps' = mishaps + overlooked
       /\ wxFile' = [wxFile EXCEPT ![fh] = c]
       /\ stash' = IF model.name = "ecmwf" THEN stash \cup {<<c, fh>>} ELSE stash
  /\ recent' = recent \cup {fh}
  /\ wxPass' = At(p, "gzip")
  /\ UNCHANGED <<model, wxClock, out, wxGz, grid>>

(* No candidate downloads; or the second file of the one found is not out. *)
RefreshFails(p) ==
  LET fh == wxPass[p].fh
      found == {c \in Walk : Found(c, fh)}
  IN
  /\ wxPass[p].at = "refresh" /\ FetchMuFree /\ ~Fresh(fh)
  /\ \/ /\ found # {} => ~Obtainable(Max(found), fh)
        /\ mishaps' = mishaps
     \/ mishaps < MaxMishaps /\ mishaps' = mishaps + 1
  /\ wxPass' = NextHour(p)
  /\ UNCHANGED <<model, wxClock, out, stash, wxFile, wxGz, recent, grid>>

(* Mutant: the sibling is written once.                                    *)
PackOnce(fh) == IF wxGz[fh] # NoForecast THEN wxGz[fh] ELSE wxFile[fh]
(* writeGzip packs the file as it is now.                                  *)
Pack(fh) == wxFile[fh]

WriteGzip(p) ==
  /\ wxPass[p].at = "gzip"
  /\ wxFile[wxPass[p].fh] # NoForecast
  /\ wxGz' = [wxGz EXCEPT ![wxPass[p].fh] = Pack(wxPass[p].fh)]
  /\ wxPass' = At(p, "read")
  /\ UNCHANGED <<model, wxClock, out, stash, wxFile, recent, grid, mishaps>>

(* "Failures here are non-fatal": the older sibling stays.                 *)
GzipFails(p) ==
  /\ wxPass[p].at = "gzip"
  /\ mishaps < MaxMishaps /\ mishaps' = mishaps + 1
  /\ wxPass' = At(p, "read")
  /\ UNCHANGED <<model, wxClock, out, stash, wxFile, wxGz, recent, grid>>

(* readWeatherPayload: the sibling, or else, also when it cannot be read,  *)
(* the file as it is.                                                      *)
ReadWeatherPayload(p) ==
  LET fh == wxPass[p].fh
      Store(payload, packed) ==
        wxPass' = [wxPass EXCEPT ![p] = [at |-> "store", fh |-> fh, payload |-> payload, gzip |-> packed]]
      unreadable == IF wxGz[fh] = NoForecast THEN 0 ELSE 1
  IN
  /\ wxPass[p].at = "read"
  /\ \/ /\ wxGz[fh] # NoForecast /\ mishaps' = mishaps
        /\ Store(wxGz[fh], TRUE)
     \/ /\ mishaps + unreadable <= MaxMishaps /\ mishaps' = mishaps + unreadable
        /\ IF wxFile[fh] = NoForecast THEN wxPass' = NextHour(p) ELSE Store(wxFile[fh], FALSE)
  /\ UNCHANGED <<model, wxClock, out, stash, wxFile, wxGz, recent, grid>>

(* A file that is not packed may be too large for a document.              *)
Upsert(p) ==
  /\ wxPass[p].at = "store"
  /\ \/ /\ grid' = [grid EXCEPT ![wxPass[p].fh] = wxPass[p].payload]
        /\ mishaps' = mishaps
     \/ /\ ~wxPass[p].gzip
        /\ UNCHANGED <<grid, mishaps>>
     \/ /\ mishaps < MaxMishaps /\ mishaps' = mishaps + 1
        /\ grid' = grid
  /\ wxPass' = NextHour(p)
  /\ UNCHANGED <<model, wxClock, out, stash, wxFile, wxGz, recent>>

(* The service is closed or dies, and starts again.                        *)
Reopen ==
  /\ mishaps < MaxMishaps /\ mishaps' = mishaps + 1
  /\ \E p \in Passes : wxPass[p] # AtRest
  /\ wxPass' = [p \in Passes |-> AtRest]
  /\ UNCHANGED <<model, wxClock, out, stash, wxFile, wxGz, recent, grid>>

-----------------------------------------------------------------------------
(* Upstream publishes; hours pass, and files grow old.                     *)
Upload ==
  /\ out < Len(Published) /\ Published[out + 1].cycle <= wxClock
  /\ out' = out + 1
  /\ UNCHANGED <<model, wxClock, stash, wxFile, wxGz, recent, grid, wxPass, mishaps>>

HoursPass ==
  /\ wxClock' \in {wxClock, LastHour}
  /\ recent' = {}
  /\ UNCHANGED <<model, out, stash, wxFile, wxGz, grid, wxPass, mishaps>>

(* cleanOldFiles, of a file that has not been written for 60 days; a pass  *)
(* takes minutes.                                                          *)
CleanOldFiles(fh) ==
  /\ fh \notin recent
  /\ \A p \in Passes : ~(wxPass[p] # AtRest /\ wxPass[p].fh = fh)
  /\ \/ wxFile' = [wxFile EXCEPT ![fh] = NoForecast] /\ UNCHANGED <<wxGz, stash>>
     \/ wxGz' = [wxGz EXCEPT ![fh] = NoForecast] /\ UNCHANGED <<wxFile, stash>>
     \/ \E c \in Due : stash' = stash \ {<<c, fh>>}
        /\ UNCHANGED <<wxFile, wxGz>>
  /\ UNCHANGED <<model, wxClock, out, recent, grid, wxPass, mishaps>>

PassStep(p) ==
  \/ ShortCircuit(p) \/ RefreshNow(p) \/ RefreshFails(p)
  \/ WriteGzip(p) \/ GzipFails(p) \/ ReadWeatherPayload(p) \/ Upsert(p)

WeatherNext ==
  \/ \E p \in Passes : SyncWeatherOnce(p) \/ PassStep(p)
  \/ Reopen \/ Upload \/ HoursPass
  \/ \E fh \in SyncedHours : CleanOldFiles(fh)

(* The timer and the passes run; upstream publishes; time passes.          *)
WeatherFairness ==
  /\ \A p \in Passes : WF_weatherVars(SyncWeatherOnce(p)) /\ WF_weatherVars(PassStep(p))
  /\ WF_weatherVars(Upload) /\ WF_weatherVars(HoursPass)

WeatherSpec == WeatherInit /\ [][WeatherNext]_weatherVars /\ WeatherFairness

-----------------------------------------------------------------------------
(* What serveModel answers a request for forecast hour n with.             *)
Served(n) == grid[SnapFh(n)]

NewestOut(fh) ==
  LET got == {c \in Walk : Obtainable(c, fh)}
  IN  IF got = {} THEN NoForecast ELSE Max(got)

(* Whatever failed before, and whatever siblings were left behind by runs  *)
(* whose packing failed, a request is in the end answered with the newest  *)
(* run there is ("readWeatherPayload returns ... the gzipped sibling when  *)
(* present", weathersync.go:248-250; "once failures stop" is this module's *)
(* bound on them).                                                         *)
ForecastCatchesUp ==
  <>[](\A n \in 0 .. Max(SyncedHours) : Served(n) = NewestOut(SnapFh(n)))
=============================================================================
