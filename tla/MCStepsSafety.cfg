\* A nested group between two steps in a transaction, with every choice of
\* ignore_errors, and four steps and nested groups outside one, on databases
\* with and without transactional DDL, where the first step may find its table.
SPECIFICATION Spec
CONSTANTS
  a = a
  b = b
  c = c
  d = d
  g = g
  h = h
  Cases <- SafeCases
  ForceChoices = {TRUE, FALSE}
  Preexisting = {a}
  LockRow = LockRow
  TableRow = TableRow
INVARIANTS
  TypeOK
  FailureLeavesNoTrace
  CrashLeavesNoTrace
  OnlySkippedAreMissing
  IgnoredErrorsDoNotStop
  RollbackUndoesTopLevel
PROPERTY
  LockRowReleased
