SPECIFICATION StudySpec
CONSTANTS
  NoGoal = NoGoal
  NoName = NoName
  Nearest = Nearest
  p1 = p1
  p2 = p2
  a = a
  b = b
  c1 = c1
  c2 = c2
  Points = {p1, p2}
  Names = {a, b}
  Callers = {c1, c2}
  Targets = {p1, p2}
  Routes <- NamedStops
  SavedRoutes <- ThreeStops
  RouteOptions <- AllOptions
  Plans <- Plan
  MaxStamp = 3
  MaxLap = 1
INVARIANTS LocationsUnique GoalWellFormed IInv
PROPERTIES ProgressIsJudged SuspensionHolds FinishedIsFinal WaitersReleased
