SPECIFICATION Spec
CONSTANTS
  root = root
  leaf = leaf
  f1 = f1
  f2 = f2
  k1 = k1
  k2 = k2
  None = None
  Task <- Couple
  Parent <- CoupleParent
  Funnel <- OneFunnel
  Caller <- OneCaller
  Home <- AtHome
  Duty <- Alone
  Asks <- Core
  Restored = {}
  MaxRev = 9
  MaxGen = 2
  MaxClock = 0
  MaxFaults = 0
  MaxCrashes = 0
INVARIANTS
  JournaledTaskIsReadable
\* Callers stop at MaxRev.
CHECK_DEADLOCK FALSE
