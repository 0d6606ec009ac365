SPECIFICATION FairSpec
CONSTANTS
  Releases <- TwoReleases
  Runners = {loop, now}
  MaxParser = 2
  MaxFailures = 2
  Nil = Nil
INVARIANTS
  CurrentIsLoaded
PROPERTIES
  EventuallyLoaded
