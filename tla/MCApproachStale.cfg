SPECIFICATION Spec
CONSTANTS
  NoGoal = NoGoal
  Nowhere = Nowhere
  OffLeg = OffLeg
  Dist <- ChartDist
  Along <- ChartAlong
  Waters <- Chart
  Courses <- Short
  Loops <- Once
  MaxLap = 2
PROPERTY PassedOnThisApproach
