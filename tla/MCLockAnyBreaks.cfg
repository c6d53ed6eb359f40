\* Three programs with pids of their own, all of which may retry after an
\* exception, and an operator who removes live rows too.
SPECIFICATION FairSpec
CONSTANTS
  b1 = b1
  b2 = b2
  b3 = b3
  Backends = {b1, b2, b3}
  PidOf <- OwnPid
  Retrying = {b1, b2, b3}
  BreakPolicy = "any"
  MaxPolls = 1
  MaxNested = 1
  NoRow = NoRow
CHECK_DEADLOCK FALSE
PROPERTIES
  NoForeignRelease
  LockCallEnds
