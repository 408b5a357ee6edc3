SPECIFICATION Spec
CONSTANTS
  r1 = r1
  a = a
  b = b
  m1 = m1
  m2 = m2
  c1 = c1
  Resource <- OneResource
  Owner <- Owners
  Timeout <- Timeouts
  Engine <- TwoEngines
  Cleaner <- OneCleaner
  NoRow = NoRow
  MaxTime = 3
  MaxToken = 2
  MaxClaims = 2
INVARIANTS
  TypeOK
  LiveClaimIsHeld
  OnlyHolderPassesFencing
  GenerationCoversLease
SYMMETRY ProcessSymmetry
PROPERTIES
  UnexpiredLeaseEndsByItsTuple
  RefinesFencedLease
\* The clock and the token counters stop at their bounds.
CHECK_DEADLOCK FALSE
