SPECIFICATION Spec
CONSTANTS
  root = root
  leaf = leaf
  f1 = f1
  f2 = f2
  k1 = k1
  k2 = k2
  None = None
  Task <- Couple
  Parent <- CoupleParent
  Funnel <- TwoFunnels
  Caller <- TwoCallers
  Home <- Apart
  Duty <- Visitor
  Asks <- Ending
  Restored = {}
  MaxRev = 4
  MaxGen = 2
  MaxClock = 1
  MaxFaults = 0
  MaxCrashes = 0
INVARIANTS
  TypeOK
  EndedParentHasNoLiveChild
PROPERTIES
  RefinesTaskGenerations
\* Callers stop at MaxRev.
CHECK_DEADLOCK FALSE
