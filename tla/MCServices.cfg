SPECIFICATION ServicesSpec
CONSTANTS
  Tiles = {t1}
  Handlers = {f1}
  Slots = {p1}
  Refreshers = {r1}
  TileSize = 6
  MaxBytes = 5
  Nothing = Nothing
  MaxEdition = 2
  MaxRules = 2
  NoTile = NoTile
  Servers = {s1, s2, s3}
  NoServer = NoServer
  Locations = {"dock", "fleet"}
  ParentLocation <- Above
  NoLocation = "top"
  Inherited <- FleetRoutes
  Machines = {"m1"}
  LocationOf <- Berth
  RouteIds = {"i0", "i1"}
  RouteNames = {"a", "b"}
  RouteSizes = {1, 2}
  RoutesMaxBytes = 3
  MaxOther = 1
  NoGoal = NoGoal
  Places = {p1, p2}
  MaxLegacy = 5
  WeatherModels <- ThreeModels
  MaxFH = 2
  Passes = {"loop", "now"}
  FirstHour = 30
  LastHour = 37
  Published <- TwoRuns
  MaxMishaps = 1
  NoForecast = NoForecast
  Untagged = Untagged
  MaxRingVertices = 9
  LowGeomTolerance = 1
  NoGeometry = NoGeometry
  Extracts <- ThreeExtracts
  BatchSize = 2
  Quirky <- QuirkyDocs
  LowZoomMinSpan = 3
  Centre <- TileCentre
  MaxStops = 2
  NoDoc = NoDoc
  FastPacketMaxBytes = 40
  WpListHeaderBytes = 6
  WpBytes = 16
  MaxN2KWaypoints = 4
  Exporters = {n1, n2}
  Waypoints = {1, 2, 3, 4, 5}
  GoalsExported <- SomeGoals
INVARIANTS
  TornOnlyAfterStray ForwardedOnce AcknowledgedStays MigrationKeepsTheRoute SkippedExtractIsServed
  TransferIsWhole
PROPERTIES
  FollowersReleased StaleTileAgesOut ForecastCatchesUp
CHECK_DEADLOCK FALSE
