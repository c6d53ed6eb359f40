\* Steps outside a transaction; the first may find its table there.
SPECIFICATION Spec
CONSTANTS
  a = a
  b = b
  c = c
  d = d
  g = g
  h = h
  Cases <- IgnoringCases
  ForceChoices = {FALSE}
  Preexisting = {a}
  LockRow = LockRow
  TableRow = TableRow
INVARIANT
  FailureKeepsWhatWasThere
