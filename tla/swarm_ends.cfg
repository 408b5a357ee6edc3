SPECIFICATION FairSpec
CONSTANTS
  Lane <- ThreeLanes
  Graphs <- AllGraphs
  LockRequired <- Second
  Advisory <- LastTwo
  Reused <- First
  Capacity = 2
  MaxInFlight = 3
  MaxAttempts = 2
  CanStop = FALSE
  CanExpire = TRUE
  MaxRefusals = 0
  MaxFaults = 1
PROPERTIES
  SwarmEnds
  RefinesOrderedWork
CHECK_DEADLOCK FALSE
