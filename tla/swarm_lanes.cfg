SPECIFICATION Spec
CONSTANTS
  Lane <- ThreeLanes
  Graphs <- AllGraphs
  LockRequired <- LastTwo
  Advisory <- Second
  Reused <- NoLane
  Capacity = 2
  MaxInFlight = 3
  MaxAttempts = 2
  CanStop = TRUE
  CanExpire = TRUE
  MaxRefusals = 1
  MaxFaults = 1
INVARIANTS
  TypeOK
  RunnerHoldsLock
  ResultsMatchDag
  LocksAreGivenBack
  SlotsAreUsed
PROPERTIES
  ResultsAreFrozen
CHECK_DEADLOCK FALSE
