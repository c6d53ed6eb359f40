\* yoyo rollback --batch --all of migrations with dependencies.
SPECIFICATION Spec
CONSTANTS
  m1 = m1
  m2 = m2
  m3 = m3
  hook = hook
  s1 = s1
  s2 = s2
  Backends = {s1, s2}
  PidOf <- SamePid
  BreakPolicy = "never"
  MaxPolls = 0
  NoRow = NoRow
  Files <- ThreeFiles
  Hooks <- NoHooks
  Depends <- Chain
  Broken = {}
  Atomic = {m1, m2, m3}
  LogAutocommit = TRUE
  Commands <- AllCommands
  NoRevision = NoRevision
SYMMETRY Symmetric
CHECK_DEADLOCK FALSE
INVARIANT
  DependencyClosed
