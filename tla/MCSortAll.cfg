\* Every dependency graph on four migrations, with and without cycles.
SPECIFICATION Spec
CONSTANTS
  m1 = m1
  m2 = m2
  m3 = m3
  m4 = m4
  Migrations = {m1, m2, m3, m4}
  Graphs <- AllGraphs
  Lists <- SomeLists
CHECK_DEADLOCK FALSE
INVARIANTS
  TypeOK
  DependenciesFirst
  Permutation
  RaisesOnCycles
  AgreesWithOperator
