\* A group of steps that may run twice, rolled back.
SPECIFICATION Spec
CONSTANTS
  a = a
  b = b
  c = c
  d = d
  g = g
  h = h
  Cases <- GroupCase
  ForceChoices = {FALSE}
  Preexisting = {}
  LockRow = LockRow
  TableRow = TableRow
INVARIANT
  RollbackUndoes
