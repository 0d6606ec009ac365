SPECIFICATION EditSpec
CONSTANTS
  NoGoal = NoGoal
  Nowhere = Nowhere
  OffLeg = OffLeg
  Dist <- ChartDist
  Along <- ChartAlong
  Waters <- Chart
  Courses <- Bends
  Loops <- OnceOrRound
  MaxLap = 2
PROPERTIES PassedOnThisApproach RejoinIsConfirmed RejoinProvesMoving
