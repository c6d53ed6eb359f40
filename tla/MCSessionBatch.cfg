\* All commands in batch mode, with and without --revision, on a database where
\* statements outside a transaction are durable at once (SQLite); the steps of
\* m3 are not atomic.
SPECIFICATION Spec
CONSTANTS
  m1 = m1
  m2 = m2
  m3 = m3
  hook = hook
  s1 = s1
  s2 = s2
  s3 = s3
  Backends = {s1, s2, s3}
  PidOf <- SamePid
  BreakPolicy = "stale"
  MaxPolls = 0
  NoRow = NoRow
  Files <- ThreeFiles
  Hooks <- NoHooks
  Depends <- Chain
  Broken = {}
  Atomic = {m1, m2}
  LogAutocommit = TRUE
  Commands <- AllKinds
  NoRevision = NoRevision
SYMMETRY Symmetric
CHECK_DEADLOCK FALSE
INVARIANTS
  TypeOK
  EffectMatchesTable
  SelectionStaysTrue
PROPERTY
  HistorySpec
