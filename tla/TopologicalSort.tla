--------------------------- MODULE TopologicalSort ---------------------------
(***************************************************************************)
(* The function topological_sort of yoyo/migrations.py, turn by turn of    *)
(* its loops, on any list and any dependency graph.  DependencyOrder has   *)
(* the same function as an operator, for the modules that call it.         *)
(***************************************************************************)
EXTENDS DependencyOrder

CONSTANTS
  Migrations,
  Graphs,     \* the dependency graphs to sort by
  Lists       \* the lists to sort

ASSUME SortAssumption ==
  /\ Graphs \subseteq [Migrations -> SUBSET Migrations]
  /\ Lists \subseteq Seq(Migrations)
  /\ \A list \in Lists : IsInjective(list)

VARIABLES
  depends,    \* the dependencies of every migration
  input,      \* the argument migration_list
  L, S,       \* the sorted list and the queue of migrations to append to it
  edges,      \* the edges that are left in forward_edges and backward_edges
  pos,        \* how much of the input has been searched for the rest
  pc

vars == <<depends, input, L, S, edges, pos, pc>>

Members == ToSet(input)

\* Mutant: a dependency that is not in the list has an edge too.
EdgesUnfiltered ==
  {e \in Migrations \X Members : e[1] \in depends[e[2]]}

\* forward_edges as it is built: <<d, m>> when m depends on d.
Edges == {e \in Members \X Members : e[1] \in depends[e[2]]}

HasEdge(m) == \E e \in Edges : m \in {e[1], e[2]}

EdgesInto(E, m) == {e \in E : e[2] = m}

TypeOK ==
  /\ depends \in Graphs
  /\ input \in Lists
  /\ L \in Seq(Members) /\ S \in Seq(Members)
  /\ edges \subseteq Edges
  /\ pos \in 1..(Len(input) + 1)
  /\ pc \in {"pop", "children", "rest", "returned", "raised"}

Init ==
  /\ depends \in Graphs
  /\ input \in Lists
  /\ L = <<>>
  /\ \E roots \in SetToSeqs({m \in Members : HasEdge(m)
                                        /\ EdgesInto(Edges, m) = {}}) : S = roots
  /\ edges = Edges
  /\ pos = 1
  /\ pc = "pop"

-----------------------------------------------------------------------------
\* n, the migration whose edges are being removed.
Current == L[Len(L)]

\* while S: the first of the queue is next in the sorted list.
Pop ==
  /\ pc = "pop" /\ S # <<>>
  /\ L' = Append(L, Head(S))
  /\ S' = Tail(S)
  /\ pc' = "children"
  /\ UNCHANGED <<depends, input, edges, pos>>

\* Mutant: a successor is queued for each of its edges.
RemoveEdgeQueueing ==
  /\ pc = "children"
  /\ \E i \in DOMAIN input :
       /\ <<Current, input[i]>> \in edges
       /\ edges' = edges \ {<<Current, input[i]>>}
       /\ S' = Append(S, input[i])
  /\ UNCHANGED <<depends, input, L, pos, pc>>

\* One turn of the for loop over forward_edges[n], which has the order of the
\* input: a successor without other edges joins the queue.
RemoveEdge ==
  /\ pc = "children"
  /\ \E i \in DOMAIN input :
       /\ <<Current, input[i]>> \in edges
       /\ \A j \in 1..(i-1) : <<Current, input[j]>> \notin edges
       /\ edges' = edges \ {<<Current, input[i]>>}
       /\ S' = IF EdgesInto(edges', input[i]) = {} THEN Append(S, input[i])
               ELSE S
  /\ UNCHANGED <<depends, input, L, pos, pc>>

EndFor ==
  /\ pc = "children"
  /\ \A m \in Members : <<Current, m>> \notin edges
  /\ pc' = "pop"
  /\ UNCHANGED <<depends, input, L, S, edges, pos>>

\* Mutant: an edge that is left is no reason to raise.
EndWhileUnchecked ==
  /\ pc = "pop" /\ S = <<>>
  /\ pc' = "rest"
  /\ UNCHANGED <<depends, input, L, S, edges, pos>>

\* The queue is empty: an edge that is left is part of a cycle, or behind one.
EndWhile ==
  /\ pc = "pop" /\ S = <<>>
  /\ pc' = IF edges = {} THEN "rest" ELSE "raised"
  /\ UNCHANGED <<depends, input, L, S, edges, pos>>

\* Mutant: what is skipped is taken out of the list that is being searched.
AppendRestSkipping ==
  /\ pc = "rest" /\ pos <= Len(input)
  /\ L' = IF HasEdge(input[pos]) THEN L ELSE Append(L, input[pos])
  /\ pos' = IF HasEdge(input[pos]) THEN pos + 2 ELSE pos + 1
  /\ UNCHANGED <<depends, input, S, edges, pc>>

\* The migrations that are not in to_toposort follow in their own order.
AppendRest ==
  /\ pc = "rest" /\ pos <= Len(input)
  /\ L' = IF HasEdge(input[pos]) THEN L ELSE Append(L, input[pos])
  /\ pos' = pos + 1
  /\ UNCHANGED <<depends, input, S, edges, pc>>

Return ==
  /\ pc = "rest" /\ pos > Len(input)
  /\ pc' = "returned"
  /\ UNCHANGED <<depends, input, L, S, edges, pos>>

Next == Pop \/ RemoveEdge \/ EndFor \/ EndWhile \/ AppendRest \/ Return

Spec == Init /\ [][Next]_vars

-----------------------------------------------------------------------------
\* No migration is put into the sorted list before those it depends on: not
\* even while the list grows, and whether or not the graph has cycles.
DependenciesFirst ==
  \A i \in DOMAIN L : \A d \in depends[L[i]] \cap Members :
    \E j \in 1..(i-1) : L[j] = d

\* A list that is returned has every migration of the input once.
Permutation ==
  pc = "returned" => IsInjective(L) /\ ToSet(L) = Members

\* BadMigration is raised for circular dependencies only: some migrations of
\* the input each depend on another of them.
RaisesOnCycles ==
  pc = "raised" =>
    \E C \in SUBSET Members \ {{}} : \A m \in C : depends[m] \cap C # {}

\* The operator of DependencyOrder has the same results.
AgreesWithOperator ==
  /\ pc = "returned" => L \in TopologicalSorts(depends, input)
  /\ pc \in {"returned", "raised"} =>
       (pc = "raised") = Circular(depends, input)
==============================================================================
