\* One of two programs catches the exception of its lock() block and calls
\* lock() again on the same backend object.
SPECIFICATION Spec
CONSTANTS
  b1 = b1
  b2 = b2
  Backends = {b1, b2}
  PidOf <- OwnPid
  Retrying = {b1}
  BreakPolicy = "never"
  MaxPolls = 1
  MaxNested = 0
  NoRow = NoRow
CHECK_DEADLOCK FALSE
INVARIANT
  NoConcurrentMigrations
