----------------------------- MODULE ChartTiles -----------------------------
(***************************************************************************)
(* One tile of the chart server and the copies of it: the database it is   *)
(* rendered from, the server's tile files with their cleaner, a browser    *)
(* that revalidates by ETag, the prewarm sweep (render/handlers.go,        *)
(* tilecache.go, prewarm.go, enc.go).  The tile is of one layer: "chart",  *)
(* the charts with the OSM detail over them, or "osm", the OSM alone.      *)
(***************************************************************************)
EXTENDS Naturals

CONSTANTS
  MaxEdition,  \* bound: ingests that change the cells behind the tile
  MaxRules,    \* bound: versions of the render rules deployed
  NoTile

ASSUME TilesAssumption ==
  MaxEdition \in Nat /\ MaxRules \in Nat \ {0}

VARIABLES
  layer,    \* the tile's layer
  edition,  \* the edition in the database; 0: no cell downloaded yet
  rules,    \* ENCRenderRulesVersion and OSMRenderRulesVersion of this build
  tileFile, \* the tile's files, by the rules in their cache key
  render,   \* what the handler, and the sweep, is rendering
  browser,  \* the browser's copy
  quiet,    \* no request for prewarmIdleWindow
  sweep     \* the prewarm: "todo", "busy" or "done" with the tile

tileVars == <<layer, edition, rules, tileFile, render, browser, quiet, sweep>>

Renderers == {"handler", "prewarm"}
Keys == 1 .. MaxRules

(* tileCacheKey and tileETag: of the rules (the options and coordinates of *)
(* the tile do not change).                                                *)
CacheKey == rules
TileETag == CacheKey

(* What a tile shows: an edition of the chart, and OSM detail, none, or    *)
(* none because the query failed.                                          *)
OsmOutcomes == {"failed", "blank", "ink"}

NotRendering == [at |-> "idle"]

TilesInit ==
  /\ layer \in {"chart", "osm"} /\ edition = 0 /\ rules = 1
  /\ tileFile = [k \in Keys |-> NoTile]
  /\ render = [r \in Renderers |-> NotRendering]
  /\ browser = NoTile
  /\ quiet = FALSE /\ sweep = "todo"

-----------------------------------------------------------------------------
(* What a response lets others keep: not an empty chart, though one drawn  *)
(* over the land tint without the detail the query failed to give; and not *)
(* an OSM tile whose query failed.  The tile files keep no empty tile of   *)
(* either layer.                                                           *)
Cacheable(pixels) ==
  IF layer = "osm" THEN pixels.osm # "failed" ELSE pixels.edition > 0 \/ pixels.osm = "ink"

Filed(pixels) == IF layer = "osm" THEN pixels.osm = "ink" ELSE Cacheable(pixels)

SetTileCacheHeaders(pixels) == [etag |-> TileETag, pixels |-> pixels, fresh |-> TRUE]

(* Mutant: a hit renews the file's time.                                   *)
HitRenewing ==
  /\ browser' = SetTileCacheHeaders(tileFile[CacheKey].pixels)
  /\ tileFile' = [tileFile EXCEPT ![CacheKey].aged = FALSE]
  /\ UNCHANGED render

(* Get: a hit leaves the file's time alone.                                *)
Hit ==
  /\ browser' = SetTileCacheHeaders(tileFile[CacheKey].pixels)
  /\ UNCHANGED <<tileFile, render>>

NotModified ==
  /\ browser' = [browser EXCEPT !.fresh = TRUE]
  /\ UNCHANGED <<tileFile, render>>

(* handleTile, handleOSMTile: the ETag is compared first, then the tile    *)
(* file is looked for, then the tile is rendered.  Every request is noted. *)
Request ==
  /\ ~(browser # NoTile /\ browser.fresh)
  /\ render["handler"] = NotRendering
  /\ IF browser # NoTile /\ browser.etag = TileETag THEN NotModified
     ELSE IF tileFile[CacheKey] # NoTile THEN Hit
     ELSE /\ render' = [render EXCEPT !["handler"] = [at |-> "query"]]
          /\ UNCHANGED <<tileFile, browser>>
  /\ quiet' = FALSE
  /\ UNCHANGED <<layer, edition, rules, sweep>>

(* RenderMergedTile and renderOSMTile: the charts and the OSM detail are   *)
(* queried side by side; without the detail the chart is drawn alone,      *)
(* without the charts there is no tile.                                    *)
Render(r) ==
  /\ render[r].at = "query"
  /\ \E osm \in OsmOutcomes :
        render' = [render EXCEPT ![r] = [at |-> "put", pixels |->
                     [edition |-> IF layer = "osm" THEN 0 ELSE edition, osm |-> osm]]]
  /\ UNCHANGED <<layer, edition, rules, tileFile, browser, quiet, sweep>>

RenderFails(r) ==
  /\ render[r].at = "query" /\ layer = "chart"
  /\ render' = [render EXCEPT ![r] = NotRendering]
  /\ sweep' = IF r = "prewarm" THEN "done" ELSE sweep
  /\ UNCHANGED <<layer, edition, rules, tileFile, browser, quiet>>

(* Put: a temporary file of its own, renamed; it may fail, also because    *)
(* the cleaner prunes the directory under it.                              *)
Put(pixels) ==
  \/ UNCHANGED tileFile
  \/ /\ Filed(pixels)
     /\ tileFile' = [tileFile EXCEPT ![CacheKey] = [pixels |-> pixels, aged |-> FALSE]]

Respond ==
  /\ render["handler"].at = "put"
  /\ Put(render["handler"].pixels)
  /\ browser' = IF Cacheable(render["handler"].pixels)
                THEN SetTileCacheHeaders(render["handler"].pixels) ELSE NoTile
  /\ render' = [render EXCEPT !["handler"] = NotRendering]
  /\ UNCHANGED <<layer, edition, rules, quiet, sweep>>

-----------------------------------------------------------------------------
(* prewarmLoop: the tile is rendered when it has no file and no request    *)
(* has come for a while, and filed by the rule of handleTile.              *)
PrewarmStart ==
  /\ sweep = "todo" /\ layer = "chart"
  /\ IF tileFile[CacheKey] # NoTile
     THEN sweep' = "done" /\ UNCHANGED render
     ELSE /\ quiet
          /\ sweep' = "busy"
          /\ render' = [render EXCEPT !["prewarm"] = [at |-> "query"]]
  /\ UNCHANGED <<layer, edition, rules, tileFile, browser, quiet>>

PrewarmPut ==
  /\ render["prewarm"].at = "put"
  /\ Put(render["prewarm"].pixels)
  /\ render' = [render EXCEPT !["prewarm"] = NotRendering]
  /\ sweep' = "done"
  /\ UNCHANGED <<layer, edition, rules, browser, quiet>>

GoQuiet ==
  /\ ~quiet /\ quiet' = TRUE
  /\ UNCHANGED <<layer, edition, rules, tileFile, render, browser, sweep>>

-----------------------------------------------------------------------------
(* Time: a copy passes tileMaxAge, a file passes the cleaner's age.        *)
Expire ==
  /\ browser # NoTile /\ browser.fresh
  /\ browser' = [browser EXCEPT !.fresh = FALSE]
  /\ UNCHANGED <<layer, edition, rules, tileFile, render, quiet, sweep>>

(* The browser drops its copy, or another browser comes.                   *)
Forget ==
  /\ browser # NoTile /\ browser' = NoTile
  /\ UNCHANGED <<layer, edition, rules, tileFile, render, quiet, sweep>>

Age(k) ==
  /\ tileFile[k] # NoTile /\ ~tileFile[k].aged
  /\ tileFile' = [tileFile EXCEPT ![k].aged = TRUE]
  /\ UNCHANGED <<layer, edition, rules, render, browser, quiet, sweep>>

(* cleanOlderThan, a file at a time.                                       *)
Clean(k) ==
  /\ tileFile[k] # NoTile /\ tileFile[k].aged
  /\ tileFile' = [tileFile EXCEPT ![k] = NoTile]
  /\ UNCHANGED <<layer, edition, rules, render, browser, quiet, sweep>>

(* An ingest changes the cells; a deployment starts over, perhaps with     *)
(* other rules.                                                            *)
Ingest ==
  /\ edition < MaxEdition /\ edition' = edition + 1
  /\ UNCHANGED <<layer, rules, tileFile, render, browser, quiet, sweep>>

NewENCHandlers ==
  /\ rules < MaxRules /\ rules' = rules + 1
  /\ render' = [r \in Renderers |-> NotRendering]
  /\ quiet' = FALSE /\ sweep' = "todo"
  /\ UNCHANGED <<layer, edition, tileFile, browser>>

TilesNext ==
  \/ Request \/ Respond \/ Expire \/ Forget
  \/ \E r \in Renderers : Render(r) \/ RenderFails(r)
  \/ PrewarmStart \/ PrewarmPut \/ GoQuiet
  \/ \E k \in Keys : Age(k) \/ Clean(k)
  \/ Ingest \/ NewENCHandlers

TilesSpec == TilesInit /\ [][TilesNext]_tileVars

(* Renders end (their queries have deadlines), copies and files age, the   *)
(* cleaner runs, and a browser that shows the place asks again.            *)
BrowserSteps == Request \/ Respond \/ Expire \/ Render("handler")

TilesFairness ==
  /\ \A k \in Keys : WF_tileVars(Age(k)) /\ WF_tileVars(Clean(k))
  /\ WF_tileVars(BrowserSteps)

-----------------------------------------------------------------------------
(* A tile file that time has overtaken goes, even one that is asked for    *)
(* all the time: one of an earlier edition, and a chart filed as complete  *)
(* though its OSM detail failed (tileCache.Get, cleanOlderThan).           *)
StaleFile(k) ==
  /\ layer = "chart" /\ tileFile[k] # NoTile
  /\ tileFile[k].pixels.edition < edition \/ tileFile[k].pixels.osm = "failed"

StaleTileAgesOut == \A k \in Keys : StaleFile(k) ~> ~StaleFile(k)

(* A browser that keeps asking comes to show the cells that are in the     *)
(* database: the ETag "changes exactly when the rendered pixels would",    *)
(* and revalidating is "picking up a fresh render after the cells behind a *)
(* tile are updated" (handlers.go:72-83).                                  *)
BrowserBehind == layer = "chart" /\ browser # NoTile /\ browser.pixels.edition < edition

BrowserCatchesUp == BrowserBehind ~> ~BrowserBehind
=============================================================================
