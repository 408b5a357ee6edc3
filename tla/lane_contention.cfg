SPECIFICATION FairSpec
CONSTANTS
  a = a
  b = b
  c = c
  p1 = p1
  p2 = p2
  Actor <- ThreeActors
  Reconciler <- Nobody
  Admin <- Nobody
  Process <- TwoProcesses
  Home <- TogetherAndApart
  LeaseMs = 1
  FenceMs = 1
  None = None
  Corrupt = Corrupt
  MaxTime = 3
  MaxToken = 2
  MaxCrashes = 0
INVARIANTS
  TypeOK
  LiveClaimIsRecognised
  NothingLeftBehind
\* The clock and the token stop at their bounds.
CHECK_DEADLOCK FALSE
PROPERTIES
  EveryCallReturns
