----------------------------- MODULE MCServices -----------------------------
(***************************************************************************)
(* The services beside navigation on small instances.  A behaviour is of   *)
(* one service; the others stay as they start.                             *)
(***************************************************************************)
EXTENDS WmsCache, ChartTiles, ChartProxy, SavedRoutes, LegacyMigration, WeatherSync,
  OsmIngest, RouteExport

VARIABLE service

servicesVars ==
  <<wmsVars, tileVars, proxyVars, savedVars, raw, weatherVars, osmVars, exportVars, service>>

-----------------------------------------------------------------------------
(* One machine at a dock whose routes are under those of the fleet.        *)
Above == [l \in {"dock", "fleet"} |-> IF l = "dock" THEN "fleet" ELSE "top"]
Berth == [m \in {"m1"} |-> "dock"]
FleetRoutes == << [id |-> "i0", name |-> "a", size |-> 1] >>

(* Two runs of the forecast of the hour at hand; ICON and ECMWF have two   *)
(* files of each, and ECMWF's come out later.                              *)
Gfs ==
  [name |-> "gfs", cycleHours |-> {0, 6, 12, 18}, publishLag |-> 4,
   minFh |-> 0, maxFh |-> 6, step |-> 3]
Icon == [Gfs EXCEPT !.name = "icon"]
Ecmwf == [Gfs EXCEPT !.name = "ecmwf", !.publishLag = 7]
ThreeModels == {Gfs, Icon, Ecmwf}
TwoRuns ==
  << [cycle |-> 24, fh |-> 0, part |-> "u"], [cycle |-> 24, fh |-> 0, part |-> "v"],
     [cycle |-> 30, fh |-> 0, part |-> "u"], [cycle |-> 30, fh |-> 0, part |-> "v"] >>

(* A wood of two ways whose zoom is lowered and raised again, a town that  *)
(* moves, a road that runs out of the extract and a building that crosses  *)
(* itself.                                                                 *)
Wood(zoom) == [class |-> "landuse", zoom |-> zoom, rank |-> 0]
FirstExtract ==
  [nodes |-> << [id |-> 1, at |-> <<0, 0>>, tags |-> Untagged],
                [id |-> 2, at |-> <<4, 0>>, tags |-> Untagged],
                [id |-> 3, at |-> <<4, 4>>, tags |-> Untagged],
                [id |-> 4, at |-> <<2, 1>>, tags |-> [class |-> "place", zoom |-> 7, rank |-> 1]] >>,
   ways |-> << [id |-> 1, nodes |-> <<1, 2, 3>>, tags |-> Untagged],
               [id |-> 2, nodes |-> <<1, 3>>, tags |-> Untagged],
               [id |-> 3, nodes |-> <<1, 4, 3, 9>>, tags |-> [class |-> "road", zoom |-> 11, rank |-> 3]],
               [id |-> 4, nodes |-> <<1, 2, 1, 3, 1>>, tags |-> [class |-> "building", zoom |-> 14, rank |-> 0]] >>,
   relations |-> << [id |-> 1, type |-> "multipolygon", ways |-> << <<1, "outer">>, <<2, "outer">> >>,
                     tags |-> Wood(7)] >>]
NextExtract == [FirstExtract EXCEPT !.nodes[3].at = <<4, 3>>, !.relations[1].tags = Wood(9)]
LastExtract == [NextExtract EXCEPT !.nodes[4].at = <<0, 3>>, !.relations[1].tags = Wood(7)]
ThreeExtracts == <<FirstExtract, NextExtract, LastExtract>>
QuirkyDocs == {<<"way", 4>>}
TileCentre == <<2, 2>>

(* Two waypoints to a message and four to a route: goals with nothing left,*)
(* one message or two, full or not, and one too many; two of one length.   *)
Followed(wps, idx, state) ==
  [NewGoal("route", "", wps, idx, FALSE, 1) EXCEPT !.state = state]
SomeGoals ==
  {NoGoal, Followed(<<1, 2>>, 0, "canceled")}
  \cup {Followed(<<1, 2, 3, 4, 5>>, idx, "active") : idx \in {0, 1, 4}}
  \cup {Followed(<<4, 3, 2>>, 0, "suspended"), Followed(<<2, 1>>, 0, "active")}

-----------------------------------------------------------------------------
(* A service at rest: nothing of it is due.                                *)
TilesAtRest ==
  /\ layer = "chart" /\ edition = 0 /\ rules = 1
  /\ tileFile = [k \in Keys |-> NoTile] /\ browser = NoTile
  /\ render = [r \in Renderers |-> [at |-> "off"]]
  /\ quiet = FALSE /\ sweep = "done"

WeatherAtRest ==
  /\ model = Gfs
  /\ wxClock = LastHour /\ out = Len(Published) /\ stash = {}
  /\ wxFile = [fh \in SyncedHours |-> NoForecast]
  /\ wxGz = [fh \in SyncedHours |-> NoForecast]
  /\ recent = {}
  /\ grid = [fh \in SyncedHours |-> NewestOut(fh)]
  /\ wxPass = [p \in Passes |-> [at |-> "off"]]
  /\ mishaps = MaxMishaps

ServicesInit ==
  /\ service \in {"wms", "tiles", "proxy", "saved", "legacy", "weather", "osm", "export"}
  /\ WmsInit /\ ProxyInit /\ SavedInit /\ LegacyInit /\ OsmInit /\ ExportInit
  /\ IF service = "tiles" THEN TilesInit ELSE TilesAtRest
  /\ IF service = "weather" THEN WeatherInit ELSE WeatherAtRest

ServicesNext ==
  /\ \/ /\ service = "wms" /\ WmsNext
        /\ UNCHANGED <<tileVars, proxyVars, savedVars, raw, weatherVars, osmVars, exportVars>>
     \/ /\ service = "tiles" /\ TilesNext
        /\ UNCHANGED <<wmsVars, proxyVars, savedVars, raw, weatherVars, osmVars, exportVars>>
     \/ /\ service = "proxy" /\ ProxyNext
        /\ UNCHANGED <<wmsVars, tileVars, savedVars, raw, weatherVars, osmVars, exportVars>>
     \/ /\ service = "saved" /\ SavedNext
        /\ UNCHANGED <<wmsVars, tileVars, proxyVars, raw, weatherVars, osmVars, exportVars>>
     \/ /\ service = "legacy" /\ LegacyNext
        /\ UNCHANGED <<wmsVars, tileVars, proxyVars, savedVars, weatherVars, osmVars, exportVars>>
     \/ /\ service = "weather" /\ WeatherNext
        /\ UNCHANGED <<wmsVars, tileVars, proxyVars, savedVars, raw, osmVars, exportVars>>
     \/ /\ service = "osm" /\ OsmNext
        /\ UNCHANGED <<wmsVars, tileVars, proxyVars, savedVars, raw, weatherVars, exportVars>>
     \/ /\ service = "export" /\ ExportNext
        /\ UNCHANGED <<wmsVars, tileVars, proxyVars, savedVars, raw, weatherVars, osmVars>>
  /\ UNCHANGED service

ServicesSpec ==
  /\ ServicesInit /\ [][ServicesNext]_servicesVars
  /\ WmsFairness /\ TilesFairness /\ WeatherFairness
=============================================================================
