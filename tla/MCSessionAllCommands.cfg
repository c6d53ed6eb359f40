\* All kinds of command line, on a database where the log waits for the next
\* commit (PostgreSQL), with a migration that is not atomic, one whose file
\* cannot be executed, and a hook that runs outside a transaction.
SPECIFICATION FairSpec
CONSTANTS
  m1 = m1
  m2 = m2
  m3 = m3
  hook = hook
  s1 = s1
  s2 = s2
  Backends = {s1, s2}
  PidOf <- SamePid
  BreakPolicy = "stale"
  MaxPolls = 0
  NoRow = NoRow
  Files <- ThreeFiles
  Hooks <- OneHook
  Depends <- Chain
  Broken = {m2}
  Atomic = {m1, m2}
  LogAutocommit = FALSE
  Commands <- AllCommandLines
  NoRevision = NoRevision
CHECK_DEADLOCK FALSE
INVARIANTS
  AuditTrail
  FilenameOrder
PROPERTIES
  SelectedGetApplied
  WritesUnderLock
