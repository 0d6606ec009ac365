SPECIFICATION Spec
CONSTANTS
  NoGoal = NoGoal
  p1 = p1
  p2 = p2
  p3 = p3
  Clients = {web, phone}
  Web = {web}
  Points = {p1, p2}
  StartRoute <- TwoWaypoints
  StartIndex = 0
  Sailing = TRUE
  Slots = {s1, s2}
  MaxWps = 2
  MaxEdits = 2
  MaxFailures = 1
INVARIANT ReachedWasReached
SYMMETRY Symmetry
CONSTRAINT FewUpsets
