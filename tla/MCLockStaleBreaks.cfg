\* Three programs that share a pid, two of which go on after an exception; the
\* operator only removes rows that nobody stands behind any more.
SPECIFICATION Spec
CONSTANTS
  b1 = b1
  b2 = b2
  b3 = b3
  Backends = {b1, b2, b3}
  PidOf <- SamePid
  Retrying = {b1, b2}
  BreakPolicy = "stale"
  MaxPolls = 2
  MaxNested = 1
  NoRow = NoRow
SYMMETRY Symmetric
CHECK_DEADLOCK FALSE
INVARIANTS
  TypeOK
  MutualExclusion
PROPERTY
  StaleRowStays
