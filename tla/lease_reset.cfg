SPECIFICATION Spec
CONSTANTS
  r1 = r1
  a = a
  b = b
  m1 = m1
  m2 = m2
  c1 = c1
  Resource <- OneResource
  Owner <- Owners
  Timeout <- OneTimeout
  Engine <- OneEngine
  Cleaner <- NoProcess
  NoRow = NoRow
  MaxTime = 2
  MaxToken = 2
  MaxClaims = 2
PROPERTIES
  FencingTokenMonotonicity
\* The clock and the token counters stop at their bounds.
CHECK_DEADLOCK FALSE
