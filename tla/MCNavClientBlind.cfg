SPECIFICATION Spec
CONSTANTS
  NoGoal = NoGoal
  p1 = p1
  p2 = p2
  p3 = p3
  Clients = {web}
  Web = {web}
  Points = {p1, p2, p3}
  StartRoute <- TwoWaypoints
  StartIndex = 1
  Sailing = FALSE
  Slots = {1, 2}
  MaxWps = 3
  MaxEdits = 1
  MaxFailures = 1
PROPERTY ReachedStaysOnRecord
