\* A developer with an editor and one without add three migrations behind the
\* number 97.
SPECIFICATION Spec
CONSTANTS
  d1 = d1
  d2 = d2
  Developers = {d1, d2}
  Batch = {d2}
  Existing <- Last97
  MaxFiles = 4
  Temporary = Temporary
CHECK_DEADLOCK FALSE
INVARIANTS
  TypeOK
  CreationOrderKept
  DirectoryIsClosed
  NeverCircular
PROPERTY
  NamesRise
