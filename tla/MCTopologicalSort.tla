-------------------------- MODULE MCTopologicalSort --------------------------
(***************************************************************************)
(* Instances of TopologicalSort for TLC.                                   *)
(***************************************************************************)
EXTENDS TopologicalSort

CONSTANTS m1, m2, m3, m4

\* Every graph on the four migrations; only m1 may depend on itself.
AllGraphs ==
  {D \in [Migrations -> SUBSET Migrations] :
     \A m \in Migrations \ {m1} : m \notin D[m]}

\* All four of them, and a list that lacks a dependency.
SomeLists == {<<m1, m2, m3, m4>>, <<m1, m2, m3>>}
==============================================================================
