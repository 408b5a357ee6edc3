SPECIFICATION Spec
CONSTANTS
  a = a
  b = b
  c = c
  p1 = p1
  p2 = p2
  Actor <- TwoActors
  Reconciler <- OnlyB
  Admin <- OnlyB
  Process <- TwoProcesses
  Home <- Apart
  LeaseMs = 1
  FenceMs = 1
  None = None
  Corrupt = Corrupt
  MaxTime = 2
  MaxToken = 2
  MaxCrashes = 1
INVARIANTS
  LiveClaimIsLease
  LeaseHasAKeeper
PROPERTIES
  LeaseEndsByItsOwner
  RefinesFencedLease
\* The clock and the token stop at their bounds.
CHECK_DEADLOCK FALSE
