SPECIFICATION RouterSpec
CONSTANTS
  Width = 4
  Height = 3
  SearchCharts <- SmallCharts
  SearchStops <- ByTheMiddle
  Options <- Boat
  SnapReach = 2
  NoCell = NoCell
  KeepWaypoints = TRUE
  MaxWaypoints = 8
  MaxPoints = 4
  MaxAnchors = 2
  SectionConcurrency = 2
  MaxJoinStraightenings = 2
  MaxTightWaterRefinements = 1
  MaxLandRepairs = 2
  MaxLandRepairPasses = 2
  Unplanned = Unplanned
  Drafts = {1, 3}
  GateWidth = 5
  DedupReach = 2
  Wall = 7
  SegmentBlocks = 6
  Levels = {1, 2}
  Pressures = {0, 1, 2, 3, 4}
  ExtremumRadius = 1
  ExtremumMinOffset = 2
INVARIANT PathIsConnected
CHECK_DEADLOCK FALSE
