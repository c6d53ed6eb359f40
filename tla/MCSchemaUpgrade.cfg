\* Two commands and a program that uses the library without a lock find tables
\* of any version, on databases with and without transactional DDL.
SPECIFICATION FairSpec
CONSTANTS
  c1 = c1
  c2 = c2
  c3 = c3
  Backends = {c1, c2, c3}
  PidOf <- SamePid
  BreakPolicy = "stale"
  MaxPolls = 0
  NoRow = NoRow
  Locked = {c1, c2}
  Ids = {m1, m2}
  m1 = m1
  m2 = m2
  Databases = {TRUE, FALSE}
  NoWork = NoWork
CHECK_DEADLOCK FALSE
INVARIANTS
  TypeOK
  HistoryIsSomewhere
  UpgradeIsAtomic
  NoConflict
  CurrentStaysCurrent
PROPERTIES
  ReadsWholeHistory
  CallEnds
