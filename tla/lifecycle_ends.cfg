SPECIFICATION RestoredSpec
CONSTANTS
  root = root
  leaf = leaf
  f1 = f1
  f2 = f2
  k1 = k1
  k2 = k2
  None = None
  Task <- Couple
  Parent <- CoupleParent
  Funnel <- OneFunnel
  Caller <- OneCaller
  Home <- AtHome
  Duty <- Alone
  Asks <- Core
  Restored <- ByF1
  MaxRev = 4
  MaxGen = 1
  MaxClock = 0
  MaxFaults = 1
  MaxCrashes = 1
INVARIANTS
 CacheIsCommitted
 FirstGenerationIsReadable
PROPERTIES
  SubmitsReturn
  FailureReachesChildren
\* Callers stop at MaxRev.
CHECK_DEADLOCK FALSE
