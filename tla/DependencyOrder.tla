--------------------------- MODULE DependencyOrder ---------------------------
(***************************************************************************)
(* The order of migrations: ancestors, descendants and topological_sort of *)
(* yoyo/migrations.py.  A dependency graph D maps every migration to the   *)
(* set its __depends__ names; a list of migrations is a sequence without   *)
(* repetitions.                                                            *)
(***************************************************************************)
EXTENDS Naturals, FiniteSets, SequencesExt

\* All that migration m depends on, directly or not, in a list or not: the
\* least set that has what m and its own members depend on.
Ancestors(D, m) ==
  {a \in DOMAIN D :
     \A S \in SUBSET DOMAIN D :
       (\A x \in S \cup {m} : D[x] \subseteq S) => a \in S}

\* What depends on m, directly or through members of the population only.
Descendants(D, m, population) ==
  {x \in population :
     \A S \in SUBSET population :
       (\A y \in population : D[y] \cap (S \cup {m}) # {} => y \in S)
       => x \in S} \ {m}

\* x comes before y in the list.
Precedes(list, x, y) ==
  \E i, j \in DOMAIN list : i < j /\ list[i] = x /\ list[j] = y

\* The members of a list that are in P, in the order of the list.
Only(list, P) ==
  LET kept[n \in 0..Len(list)] ==
        IF n = 0 THEN <<>>
        ELSE IF list[n] \in P THEN Append(kept[n-1], list[n])
        ELSE kept[n-1]
  IN  kept[Len(list)]

-----------------------------------------------------------------------------
\* The edges topological_sort keeps join two members of the list.
Preds(D, list, m) == D[m] \cap ToSet(list)

Succs(D, list, m) == Only(list, {x \in ToSet(list) : m \in D[x]})

\* to_toposort: the members of the list that have an edge.
InGraph(D, list) ==
  {m \in ToSet(list) : Preds(D, list, m) # {} \/ Succs(D, list, m) # <<>>}

\* The orders the deque S may start with: to_toposort is a set, so the roots
\* come in any order.
RootOrders(D, list) ==
  SetToSeqs({m \in InGraph(D, list) : Preds(D, list, m) = {}})

\* Mutant: the successors go to the front of S.
VisitDepthFirst(D, list, st) ==
  LET n == Head(st.S)
      L == Append(st.L, n)
      freed == Only(Succs(D, list, n),
                    {m \in ToSet(list) : Preds(D, list, m) \subseteq ToSet(L)})
  IN  [L |-> L, S |-> freed \o Tail(st.S)]

\* One turn of the while loop: the first of the queue S goes to the end of L,
\* and the successors it was the last to hold back go to the end of S.
Visit(D, list, st) ==
  LET n == Head(st.S)
      L == Append(st.L, n)
      freed == Only(Succs(D, list, n),
                    {m \in ToSet(list) : Preds(D, list, m) \subseteq ToSet(L)})
  IN  [L |-> L, S |-> Tail(st.S) \o freed]

\* The list L when S is empty, from the given initial S: there are not more
\* turns than migrations.
Visited(D, list, roots) ==
  LET turn[n \in 0..Len(list)] ==
        IF n = 0 THEN [L |-> <<>>, S |-> roots]
        ELSE LET st == turn[n-1]
             IN  IF st.S = <<>> THEN st ELSE Visit(D, list, st)
  IN  turn[Len(list)].L

\* An edge is left when S is empty: topological_sort raises BadMigration.
Circular(D, list) ==
  \E roots \in RootOrders(D, list) :
    ToSet(Visited(D, list, roots)) # InGraph(D, list)

\* Mutant: the rest of the list comes from a set as well.
UnstableSorts(D, list) ==
  {Visited(D, list, roots) \o rest :
     roots \in RootOrders(D, list),
     rest \in SetToSeqs(ToSet(list) \ InGraph(D, list))}

\* What topological_sort may return: the part of the list that has edges, and
\* behind it the rest in the order it had.
TopologicalSorts(D, list) ==
  LET rest == Only(list, ToSet(list) \ InGraph(D, list))
  IN  {Visited(D, list, roots) \o rest : roots \in RootOrders(D, list)}
==============================================================================
