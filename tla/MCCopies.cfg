SPECIFICATION CopiesSpec
CONSTANTS
  NoGoal = NoGoal
  p1 = p1
  p2 = p2
  Clients = {web, phone}
  Web = {web}
  Points = {p1, p2}
  StartRoute <- TwoWaypoints
  StartIndex = 0
  Sailing = TRUE
  Slots = {1}
  MaxWps = 2
  MaxEdits = 2
  MaxFailures = 2
  Sensors = {"movement_sensor", "depth_sensor", "route_sensor"}
  ReportedPicks <- TwoPicks
  DisplayConfigs <- OneConfig
  Machine = {"gps", "ais", "mast"}
  Reporters = {"browser"}
  Displays = {"tv", "phone"}
  MaxGen = 2
  MaxUpsets = 1
  Unset = Unset
  Torn = Torn
  NavHandle = NavHandle
PROPERTIES ViewsConverge PickComesInForce
