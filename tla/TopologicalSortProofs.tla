------------------------ MODULE TopologicalSortProofs ------------------------
(***************************************************************************)
(* Theorems about topological_sort: for every list of migrations and every *)
(* dependency graph, cyclic ones included, what it returns is in an order  *)
(* that respects dependencies and loses and repeats nothing.               *)
(***************************************************************************)
EXTENDS TopologicalSort, DependencyOrderProofs

(***************************************************************************)
(* The queue and the sorted list hold the migrations that have no edge     *)
(* left that leads to them, and each of those once; an edge is only ever   *)
(* removed when its source is in the sorted list.                          *)
(***************************************************************************)
RemovedBehindSource ==
  \A e \in Edges \ edges : e[1] \in ToSet(L)

NoEdgeIn ==
  \A m \in ToSet(L) \cup ToSet(S) : EdgesInto(edges, m) = {}

\* While a for loop runs, n is in the sorted list.
ForLoopPlaced == pc = "children" => L # <<>>

Ordered ==
  \A i \in DOMAIN L : \A e \in Edges :
    e[2] = L[i] => \E j \in 1..(i-1) : L[j] = e[1]

\* An edge out of a migration of the sorted list is left only for the one
\* whose edges are being removed.
SourcesDone ==
  \A e \in edges : e[1] \in ToSet(L) => pc = "children" /\ e[1] = Current

SortInv ==
  RemovedBehindSource /\ NoEdgeIn /\ ForLoopPlaced /\ Ordered /\ SourcesDone

\* Nothing is in the queue and the list twice.
Once ==
  /\ IsInjective(L) /\ IsInjective(S)
  /\ ToSet(L) \cap ToSet(S) = {}

\* What has an edge waits for one of them, is in the queue or is in the list.
Accounted ==
  \A m \in Members : HasEdge(m) =>
    m \in ToSet(L) \cup ToSet(S) \/ EdgesInto(edges, m) # {}

\* Besides these, the list only has what the last loop has reached.
RestReached ==
  /\ pc \notin {"rest", "returned"} =>
       pos = 1 /\ \A m \in ToSet(L) : HasEdge(m)
  /\ \A m \in ToSet(S) : HasEdge(m)
  /\ pc \in {"rest", "returned"} =>
       /\ edges = {} /\ S = <<>>
       /\ \A m \in ToSet(L) :
            HasEdge(m) \/ \E i \in DOMAIN input : i < pos /\ m = input[i]
       /\ \A i \in DOMAIN input : i < pos => input[i] \in ToSet(L)
  /\ pc = "returned" => pos > Len(input)

RaisedForEdges == pc = "raised" => S = <<>> /\ edges # {}

ListInv == Once /\ Accounted /\ RestReached /\ RaisedForEdges

-----------------------------------------------------------------------------
LEMMA InputType ==
  ASSUME TypeOK
  PROVE  /\ input \in Seq(Migrations) /\ input \in Seq(Members)
         /\ IsInjective(input)
         /\ DOMAIN input = 1..Len(input) /\ Len(input) \in Nat
         /\ Members \subseteq Migrations
<1>1. input \in Seq(Migrations) /\ IsInjective(input)
  BY SortAssumption DEF TypeOK
<1>2. /\ DOMAIN input = 1..Len(input) /\ Len(input) \in Nat
      /\ \A i \in 1..Len(input) : input[i] \in Members
      /\ Members \subseteq Migrations
  BY <1>1, MembersOfSeq DEF Members
<1>3. input \in Seq(Members)
  BY <1>1, <1>2
<1> QED
  BY <1>1, <1>2, <1>3

LEMMA InitInv == Init => TypeOK /\ SortInv /\ ListInv
<1> SUFFICES ASSUME Init
             PROVE  TypeOK /\ SortInv /\ ListInv
  OBVIOUS
<1> DEFINE R == {m \in Members : HasEdge(m) /\ EdgesInto(Edges, m) = {}}
<1>1. input \in Seq(Migrations)
  BY SortAssumption DEF Init
<1>2. PICK roots \in SetToSeqs(R) : S = roots
  BY DEF Init
<1>3. S \in Seq(R) /\ ToSet(S) = R /\ IsInjective(S)
  BY <1>1, <1>2, RootOrder DEF Members
<1>4. L = <<>> /\ ToSet(L) = {} /\ L \in Seq(Members) /\ IsInjective(L)
  BY DEF Init, ToSet, IsInjective
<1>5. S \in Seq(Members)
  BY <1>3
<1>6. edges = Edges /\ pos = 1 /\ pc = "pop"
  BY DEF Init
<1>7. TypeOK
  BY <1>4, <1>5, <1>6 DEF Init, TypeOK
<1>8. SortInv
  BY <1>3, <1>4, <1>6 DEF SortInv, RemovedBehindSource, NoEdgeIn, ForLoopPlaced,
     Ordered, SourcesDone
<1>9. ListInv
  <2>1. Once
    BY <1>3, <1>4 DEF Once
  <2>2. Accounted
    BY <1>3, <1>6 DEF Accounted
  <2>3. RestReached
    BY <1>3, <1>4, <1>6 DEF RestReached
  <2> QED
    BY <1>6, <2>1, <2>2, <2>3 DEF ListInv, RaisedForEdges
<1> QED
  BY <1>7, <1>8, <1>9

\* What no step changes.
LEMMA Constant ==
  ASSUME [Next]_vars
  PROVE  /\ input' = input /\ depends' = depends
         /\ Members' = Members /\ Edges' = Edges
         /\ \A m : HasEdge(m)' <=> HasEdge(m)
<1>1. input' = input /\ depends' = depends
  BY DEF Next, vars, Pop, RemoveEdge, EndFor, EndWhile, AppendRest, Return
<1>2. Members' = Members /\ Edges' = Edges
  BY <1>1 DEF Members, Edges
<1> QED
  BY <1>1, <1>2 DEF HasEdge

LEMMA TypeStep == TypeOK /\ [Next]_vars => TypeOK'
<1> SUFFICES ASSUME TypeOK, [Next]_vars
             PROVE  TypeOK'
  OBVIOUS
<1> USE Constant, InputType
<1>1. CASE Pop
  BY <1>1, HeadTailMembers, AppendMembers DEF Pop, TypeOK
<1>2. CASE RemoveEdge
  <2>1. PICK i \in DOMAIN input :
          /\ edges' = edges \ {<<Current, input[i]>>}
          /\ S' = IF EdgesInto(edges', input[i]) = {} THEN Append(S, input[i])
                  ELSE S
    BY <1>2 DEF RemoveEdge
  <2>2. input[i] \in Members
    BY MembersOfSeq DEF Members
  <2>3. S' \in Seq(Members)
    BY <2>1, <2>2 DEF TypeOK
  <2> QED
    BY <1>2, <2>1, <2>3 DEF RemoveEdge, TypeOK
<1>3. CASE EndFor
  BY <1>3 DEF EndFor, TypeOK
<1>4. CASE EndWhile
  BY <1>4 DEF EndWhile, TypeOK
<1>5. CASE AppendRest
  <2>1. pos \in DOMAIN input /\ input[pos] \in Members
    BY <1>5, MembersOfSeq DEF AppendRest, TypeOK, Members
  <2>2. L' \in Seq(Members)
    BY <1>5, <2>1 DEF AppendRest, TypeOK
  <2> QED
    BY <1>5, <2>1, <2>2 DEF AppendRest, TypeOK
<1>6. CASE Return
  BY <1>6 DEF Return, TypeOK
<1>7. CASE UNCHANGED vars
  BY <1>7 DEF vars, TypeOK
<1> QED
  BY <1>1, <1>2, <1>3, <1>4, <1>5, <1>6, <1>7 DEF Next

-----------------------------------------------------------------------------
LEMMA SortStep == TypeOK /\ SortInv /\ [Next]_vars => SortInv'
<1> SUFFICES ASSUME TypeOK, SortInv, [Next]_vars
             PROVE  SortInv'
  OBVIOUS
<1> USE Constant
<1>1. CASE Pop
  <2> DEFINE n == Head(S)
  <2>1. /\ n \in Members /\ L \in Seq(Members)
        /\ ToSet(S) = {n} \cup ToSet(S')
        /\ ToSet(L') = ToSet(L) \cup {n}
        /\ DOMAIN L = 1..Len(L) /\ Len(L) \in Nat
        /\ DOMAIN L' = 1..(Len(L) + 1) /\ Len(L') = Len(L) + 1
        /\ \A i \in 1..Len(L) : L'[i] = L[i]
        /\ L'[Len(L) + 1] = n
        /\ edges' = edges /\ pc = "pop" /\ pc' = "children"
    BY <1>1, HeadTailMembers, AppendMembers, MembersOfSeq DEF Pop, TypeOK
  <2>2. Current' = n
    BY <2>1 DEF Current
  <2>3. RemovedBehindSource' /\ NoEdgeIn'
    BY <2>1 DEF SortInv, RemovedBehindSource, NoEdgeIn, EdgesInto
  <2>4. ForLoopPlaced'
    BY <2>1 DEF ForLoopPlaced
  <2>5. SourcesDone'
    BY <2>1, <2>2 DEF SortInv, SourcesDone
  <2>6. ASSUME NEW i \in DOMAIN L', NEW e \in Edges, e[2] = L'[i]
        PROVE  \E j \in 1..(i-1) : L'[j] = e[1]
    <3>1. CASE i \in DOMAIN L
      BY <2>1, <2>6, <3>1 DEF SortInv, Ordered
    <3>2. CASE i = Len(L) + 1
      <4>1. e \notin edges
        BY <2>1, <2>6, <3>2 DEF SortInv, NoEdgeIn, EdgesInto
      <4>2. PICK j \in DOMAIN L : L[j] = e[1]
        BY <4>1 DEF SortInv, RemovedBehindSource, ToSet
      <4> QED
        BY <2>1, <3>2, <4>2
    <3> QED
      BY <2>1, <3>1, <3>2
  <2>7. Ordered'
    BY <2>6 DEF Ordered
  <2> QED
    BY <2>3, <2>4, <2>5, <2>7 DEF SortInv
<1>2. CASE RemoveEdge
  <2>1. PICK i \in DOMAIN input :
          /\ <<Current, input[i]>> \in edges
          /\ edges' = edges \ {<<Current, input[i]>>}
          /\ S' = IF EdgesInto(edges', input[i]) = {} THEN Append(S, input[i])
                  ELSE S
    BY <1>2 DEF RemoveEdge
  <2>2. L' = L /\ pc = "children" /\ pc' = pc /\ Current' = Current
    BY <1>2 DEF RemoveEdge, Current
  <2>3. input[i] \in Members
    BY InputType, MembersOfSeq DEF Members
  <2>4. Current \in ToSet(L)
    BY <2>2, MembersOfSeq DEF SortInv, ForLoopPlaced, Current, TypeOK
  <2>5. RemovedBehindSource'
    BY <2>1, <2>2, <2>4 DEF SortInv, RemovedBehindSource
  <2>6. \A m \in ToSet(S') :
          m \in ToSet(S) \/ EdgesInto(edges', m) = {}
    <3>1. ToSet(Append(S, input[i])) = ToSet(S) \cup {input[i]}
      BY <2>3, AppendMembers DEF TypeOK
    <3>2. CASE EdgesInto(edges', input[i]) = {}
      <4>1. S' = Append(S, input[i])
        BY <2>1, <3>2
      <4> QED
        BY <3>1, <3>2, <4>1
    <3>3. CASE EdgesInto(edges', input[i]) # {}
      BY <2>1, <3>3
    <3> QED
      BY <3>2, <3>3
  <2>7. NoEdgeIn'
    BY <2>1, <2>2, <2>6 DEF SortInv, NoEdgeIn, EdgesInto
  <2>8. SourcesDone'
    BY <2>1, <2>2 DEF SortInv, SourcesDone
  <2> QED
    BY <2>2, <2>5, <2>7, <2>8 DEF SortInv, ForLoopPlaced, Ordered
<1>3. CASE EndFor
  <2>1. /\ L' = L /\ S' = S /\ edges' = edges /\ pc' = "pop"
        /\ \A m \in Members : <<Current, m>> \notin edges
    BY <1>3 DEF EndFor
  <2>2. SourcesDone'
    BY <2>1 DEF SortInv, SourcesDone, TypeOK, Edges
  <2> QED
    BY <2>1, <2>2 DEF SortInv, RemovedBehindSource, NoEdgeIn, ForLoopPlaced,
       Ordered
<1>4. CASE EndWhile
  BY <1>4 DEF EndWhile, SortInv, RemovedBehindSource, NoEdgeIn, ForLoopPlaced,
     Ordered, SourcesDone
<1>5. CASE AppendRest
  <2>1. pos \in DOMAIN input /\ input[pos] \in Members
    BY <1>5, InputType, MembersOfSeq DEF AppendRest, TypeOK, Members
  <2>2. /\ S' = S /\ edges' = edges /\ pc' = pc /\ pc = "rest"
        /\ L' = IF HasEdge(input[pos]) THEN L ELSE Append(L, input[pos])
    BY <1>5 DEF AppendRest
  <2>3. CASE HasEdge(input[pos])
    BY <2>2, <2>3 DEF SortInv, RemovedBehindSource, NoEdgeIn, ForLoopPlaced,
       Ordered, SourcesDone
  <2>4. CASE ~ HasEdge(input[pos])
    <3>1. /\ ToSet(L') = ToSet(L) \cup {input[pos]}
          /\ DOMAIN L = 1..Len(L) /\ Len(L) \in Nat
          /\ DOMAIN L' = 1..(Len(L) + 1)
          /\ \A i \in 1..Len(L) : L'[i] = L[i]
          /\ L'[Len(L) + 1] = input[pos]
      BY <2>1, <2>2, <2>4, AppendMembers, MembersOfSeq DEF TypeOK
    <3>2. \A e \in Edges : e[1] # input[pos] /\ e[2] # input[pos]
      BY <2>4 DEF HasEdge
    <3>3. RemovedBehindSource' /\ NoEdgeIn' /\ ForLoopPlaced' /\ SourcesDone'
      BY <2>2, <3>1, <3>2 DEF SortInv, RemovedBehindSource, NoEdgeIn, EdgesInto,
         ForLoopPlaced, SourcesDone, TypeOK
    <3>4. Ordered'
      BY <3>1, <3>2 DEF SortInv, Ordered
    <3> QED
      BY <3>3, <3>4 DEF SortInv
  <2> QED
    BY <2>3, <2>4
<1>6. CASE Return
  BY <1>6 DEF Return, SortInv, RemovedBehindSource, NoEdgeIn, ForLoopPlaced,
     Ordered, SourcesDone
<1>7. CASE UNCHANGED vars
  BY <1>7 DEF vars, SortInv, RemovedBehindSource, NoEdgeIn, ForLoopPlaced,
     Ordered, SourcesDone, Current
<1> QED
  BY <1>1, <1>2, <1>3, <1>4, <1>5, <1>6, <1>7 DEF Next

LEMMA ListStep == TypeOK /\ SortInv /\ ListInv /\ [Next]_vars => ListInv'
<1> SUFFICES ASSUME TypeOK, SortInv, ListInv, [Next]_vars
             PROVE  ListInv'
  OBVIOUS
<1> USE Constant
<1>1. CASE Pop
  <2> DEFINE n == Head(S)
  <2>1. /\ n \in Members /\ n \in ToSet(S)
        /\ ToSet(S) = {n} \cup ToSet(S')
        /\ IsInjective(S') /\ n \notin ToSet(S')
        /\ ToSet(L') = ToSet(L) \cup {n}
        /\ edges' = edges /\ pos' = pos /\ pc = "pop" /\ pc' = "children"
    BY <1>1, HeadTailMembers, AppendMembers DEF Pop, TypeOK, ListInv, Once
  <2>2. IsInjective(L')
    BY <1>1, <2>1, AppendOnce DEF Pop, TypeOK, ListInv, Once
  <2>3. Once'
    BY <2>1, <2>2 DEF ListInv, Once
  <2>4. Accounted'
    BY <2>1 DEF ListInv, Accounted
  <2>5. RestReached'
    BY <2>1 DEF ListInv, RestReached
  <2> QED
    BY <2>1, <2>3, <2>4, <2>5 DEF ListInv, RaisedForEdges
<1>2. CASE RemoveEdge
  <2>1. PICK i \in DOMAIN input :
          /\ <<Current, input[i]>> \in edges
          /\ edges' = edges \ {<<Current, input[i]>>}
          /\ S' = IF EdgesInto(edges', input[i]) = {} THEN Append(S, input[i])
                  ELSE S
    BY <1>2 DEF RemoveEdge
  <2> DEFINE m == input[i]
  <2>2. L' = L /\ pos' = pos /\ pc = "children" /\ pc' = pc
    BY <1>2 DEF RemoveEdge
  <2>3. m \in Members
    BY InputType, MembersOfSeq DEF Members
  <2>4. m \notin ToSet(L) \cup ToSet(S)
    BY <2>1 DEF SortInv, NoEdgeIn, EdgesInto
  <2>5. HasEdge(m)
    BY <2>1 DEF TypeOK, HasEdge
  <2>6. \A x : x # m => EdgesInto(edges', x) = EdgesInto(edges, x)
    BY <2>1 DEF EdgesInto
  <2>7. CASE EdgesInto(edges', m) = {}
    <3>1. ToSet(S') = ToSet(S) \cup {m} /\ IsInjective(S')
      BY <2>1, <2>3, <2>4, <2>7, AppendMembers, AppendOnce
      DEF TypeOK, ListInv, Once
    <3>2. Once' /\ Accounted' /\ RestReached'
      BY <2>2, <2>4, <2>5, <2>6, <3>1
      DEF ListInv, Once, Accounted, RestReached
    <3> QED
      BY <2>2, <3>2 DEF ListInv, RaisedForEdges
  <2>8. CASE EdgesInto(edges', m) # {}
    <3>1. S' = S
      BY <2>1, <2>8
    <3>2. Once' /\ Accounted' /\ RestReached'
      BY <2>2, <2>6, <2>8, <3>1 DEF ListInv, Once, Accounted, RestReached
    <3> QED
      BY <2>2, <3>2 DEF ListInv, RaisedForEdges
  <2> QED
    BY <2>7, <2>8
<1>3. CASE EndFor
  BY <1>3 DEF EndFor, ListInv, Once, Accounted, RestReached, RaisedForEdges
<1>4. CASE EndWhile
  <2>1. /\ L' = L /\ S' = S /\ S = <<>> /\ edges' = edges /\ pos' = pos
        /\ pc = "pop" /\ pc' = IF edges = {} THEN "rest" ELSE "raised"
    BY <1>4 DEF EndWhile
  <2>2. \A i \in DOMAIN input : ~ i < 1
    BY InputType
  <2> QED
    BY <2>1, <2>2 DEF ListInv, Once, Accounted, RestReached, RaisedForEdges
<1>5. CASE AppendRest
  <2>1. pos \in DOMAIN input /\ input[pos] \in Members
    BY <1>5, InputType, MembersOfSeq DEF AppendRest, TypeOK, Members
  <2>2. /\ S' = S /\ edges' = edges /\ pc' = pc /\ pc = "rest"
        /\ pos' = pos + 1
        /\ L' = IF HasEdge(input[pos]) THEN L ELSE Append(L, input[pos])
        /\ edges = {} /\ S = <<>>
    BY <1>5 DEF AppendRest, ListInv, RestReached
  <2>3. \A i \in DOMAIN input : i < pos + 1 <=> i < pos \/ i = pos
    BY <2>1, InputType
  <2>4. CASE HasEdge(input[pos])
    <3>1. input[pos] \in ToSet(L)
      BY <2>1, <2>2, <2>4 DEF ListInv, Accounted, EdgesInto, ToSet
    <3> QED
      BY <2>1, <2>2, <2>3, <2>4, <3>1
      DEF ListInv, Once, Accounted, RestReached, RaisedForEdges
  <2>5. CASE ~ HasEdge(input[pos])
    <3>1. input[pos] \notin ToSet(L)
      BY <2>1, <2>2, <2>5, InputType DEF ListInv, RestReached, IsInjective
    <3>2. ToSet(L') = ToSet(L) \cup {input[pos]} /\ IsInjective(L')
      BY <2>1, <2>2, <2>5, <3>1, AppendMembers, AppendOnce
      DEF TypeOK, ListInv, Once
    <3>3. ToSet(S) = {}
      BY <2>2 DEF ToSet
    <3>4. Once' /\ Accounted'
      BY <2>2, <3>2, <3>3 DEF ListInv, Once, Accounted
    <3>5. RestReached'
      BY <2>1, <2>2, <2>3, <3>2, <3>3 DEF ListInv, RestReached
    <3> QED
      BY <2>2, <3>4, <3>5 DEF ListInv, RaisedForEdges
  <2> QED
    BY <2>4, <2>5
<1>6. CASE Return
  BY <1>6, InputType DEF Return, TypeOK, ListInv, Once, Accounted, RestReached,
     RaisedForEdges
<1>7. CASE UNCHANGED vars
  BY <1>7 DEF vars, ListInv, Once, Accounted, RestReached, RaisedForEdges
<1> QED
  BY <1>1, <1>2, <1>3, <1>4, <1>5, <1>6, <1>7 DEF Next

-----------------------------------------------------------------------------
THEOREM SortInvariant == Spec => [](TypeOK /\ SortInv /\ ListInv)
BY InitInv, TypeStep, SortStep, ListStep, PTL DEF Spec

\* The type invariant of topological_sort, for every list and every graph.
THEOREM TypeCorrect == Spec => []TypeOK
BY SortInvariant, PTL

\* Whatever the graph and the order of the list, no migration comes before one
\* it depends on, neither in the result nor in a list that is being built.
THEOREM DependenciesFirstHolds == Spec => []DependenciesFirst
<1>1. TypeOK /\ SortInv => DependenciesFirst
  <2> SUFFICES ASSUME TypeOK, SortInv,
                      NEW i \in DOMAIN L, NEW d \in depends[L[i]] \cap Members
               PROVE  \E j \in 1..(i-1) : L[j] = d
    BY DEF DependenciesFirst
  <2>1. L[i] \in Members
    BY MembersOfSeq DEF TypeOK
  <2>2. <<d, L[i]>> \in Edges
    BY <2>1 DEF Edges
  <2> QED
    BY <2>2 DEF SortInv, Ordered
<1> QED
  BY <1>1, SortInvariant, PTL

\* A list that topological_sort returns has every migration of its argument,
\* once each, and no other.
THEOREM PermutationHolds == Spec => []Permutation
<1>1. TypeOK /\ ListInv => Permutation
  <2> SUFFICES ASSUME TypeOK, ListInv, pc = "returned"
               PROVE  IsInjective(L) /\ ToSet(L) = Members
    BY DEF Permutation
  <2>1. ToSet(L) \subseteq Members
    BY MembersOfSeq DEF TypeOK
  <2>2. \A i \in DOMAIN input : i < pos
    BY InputType DEF TypeOK, ListInv, RestReached
  <2>3. Members \subseteq ToSet(L)
    BY <2>2 DEF ListInv, RestReached, Members, ToSet
  <2> QED
    BY <2>1, <2>3 DEF ListInv, Once
<1> QED
  BY <1>1, SortInvariant, PTL

\* BadMigration is never raised for a list that can be sorted: the targets of
\* the edges that are left each depend on another of them.
THEOREM RaisesOnCyclesHolds == Spec => []RaisesOnCycles
<1>1. TypeOK /\ SortInv /\ ListInv => RaisesOnCycles
  <2> SUFFICES ASSUME TypeOK, SortInv, ListInv, pc = "raised"
               PROVE  \E C \in SUBSET Members \ {{}} :
                        \A m \in C : depends[m] \cap C # {}
    BY DEF RaisesOnCycles
  <2> DEFINE C == {m \in Members : EdgesInto(edges, m) # {}}
  <2>1. edges # {} /\ ToSet(S) = {}
    BY DEF ListInv, RaisedForEdges, ToSet
  <2>2. \A e \in edges : e \in Edges /\ e[1] \in Members /\ e[2] \in Members
    BY DEF TypeOK, Edges
  <2>3. C # {}
    BY <2>1, <2>2 DEF EdgesInto
  <2>4. ASSUME NEW m \in C
        PROVE  depends[m] \cap C # {}
    <3>1. PICK e \in edges : e[2] = m
      BY DEF EdgesInto
    <3>2. e[1] \in depends[m] /\ HasEdge(e[1])
      BY <2>2, <3>1 DEF Edges, HasEdge
    <3>3. e[1] \notin ToSet(L)
      BY DEF SortInv, SourcesDone
    <3>4. e[1] \in C
      BY <2>1, <2>2, <3>2, <3>3 DEF ListInv, Accounted
    <3> QED
      BY <3>2, <3>4
  <2> QED
    BY <2>3, <2>4
<1> QED
  BY <1>1, SortInvariant, PTL

-----------------------------------------------------------------------------
(***************************************************************************)
(* The loops go where the operator TopologicalSorts goes: between two      *)
(* turns of the while loop L and S are what the function turn of Visited   *)
(* has there, during a turn the queue has gained those successors whose    *)
(* edge is removed and whose other edges are gone, and behind the loop the *)
(* list is what the operator makes of the part that has been searched.     *)
(***************************************************************************)
\* The successors of n that have joined the queue in this turn.
Queued ==
  {m \in Members : <<Current, m>> \in Edges \ edges /\ EdgesInto(edges, m) = {}}

AtTurn(turn, n) ==
  \/ pc = "pop" /\ L = turn[n].L /\ S = turn[n].S
  \/ /\ pc = "children"
     /\ turn[n].S # <<>>
     /\ L = Append(turn[n].L, Head(turn[n].S))
     /\ \E q : IsPart(q, input, Queued) /\ S = Tail(turn[n].S) \o q

InTurn(turn, n, roots) ==
  /\ IsLoop(turn, depends, input, roots)
  /\ Visited(depends, input, roots) = turn[Len(input)].L
  /\ AtTurn(turn, n)

InLoop ==
  pc \in {"pop", "children"} =>
    \E roots \in RootOrders(depends, input), n \in 0..Len(input) :
      \E turn : InTurn(turn, n, roots)

\* The edges of a migration are removed in the order of the input.
RemovedInOrder ==
  pc = "children" =>
    \A x, y \in Members :
      <<Current, x>> \in Edges \ edges /\ <<Current, y>> \in edges =>
        Precedes(input, x, y)

\* What the loop over the input has reached of the rest.
Reached == {input[i] : i \in {j \in DOMAIN input : j < pos}}

Rest == {m \in Members : ~HasEdge(m)}

BehindLoop(v) ==
  /\ pc = "raised" => L = v
  /\ pc \in {"rest", "returned"} =>
       /\ ToSet(v) = InGraph(depends, input)
       /\ \E r : IsPart(r, input, Reached \cap Rest) /\ L = v \o r

AfterLoop ==
  pc \in {"rest", "returned", "raised"} =>
    \E roots \in RootOrders(depends, input) :
      BehindLoop(Visited(depends, input, roots))

AgreeInv == InLoop /\ RemovedInOrder /\ AfterLoop

LEMMA GraphOfInput ==
  ASSUME TypeOK
  PROVE  /\ IsGraph(depends, Migrations)
         /\ \A m \in Members : Preds(depends, input, m) =
                              {p \in Members : <<p, m>> \in Edges}
         /\ \A m \in Members : HasEdge(m) <=> m \in InGraph(depends, input)
         /\ InGraph(depends, input) \subseteq Members
         /\ Members \ InGraph(depends, input) = Rest
<1>1. IsGraph(depends, Migrations) /\ input \in Seq(Migrations)
  BY SortAssumption, InputType DEF TypeOK, IsGraph
<1>2. \A m \in Members : Preds(depends, input, m) =
                         {p \in Members : <<p, m>> \in Edges}
  BY DEF Preds, Edges, Members
<1>3. InGraph(depends, input) \subseteq Members
  BY DEF InGraph, Members
<1>4. ASSUME NEW m \in Members, HasEdge(m)
      PROVE  m \in InGraph(depends, input)
  <2>1. PICK e \in Edges : m \in {e[1], e[2]}
    BY <1>4 DEF HasEdge
  <2>2. e[1] \in Members /\ e[2] \in Members /\ e[1] \in depends[e[2]]
    BY DEF Edges
  <2>3. /\ e[1] \in InGraph(depends, input)
        /\ e[2] \in InGraph(depends, input)
    BY <1>1, <2>2, EdgeInGraph DEF Members
  <2> QED
    BY <2>1, <2>3
<1>5. ASSUME NEW m \in InGraph(depends, input)
      PROVE  HasEdge(m)
  <2>1. m \in Members
    BY <1>3
  <2>2. CASE Preds(depends, input, m) # {}
    BY <1>2, <2>1, <2>2 DEF HasEdge
  <2>3. CASE Succs(depends, input, m) # <<>>
    <3> DEFINE A == {x \in ToSet(input) : m \in depends[x]}
    <3>1. Only(input, A) # <<>>
      BY <2>3 DEF Succs
    <3>2. Only(input, A) \in Seq(ToSet(input) \cap A)
      <4> HIDE DEF A
      <4> QED
        BY <1>1, OnlyMembers
    <3>3. PICK x \in ToSet(input) \cap A : TRUE
      <4> HIDE DEF A
      <4> QED
        BY <3>1, <3>2
    <3>4. <<m, x>> \in Edges
      BY <2>1, <3>3 DEF Edges, Members
    <3> QED
      BY <3>4 DEF HasEdge
  <2> QED
    BY <2>2, <2>3 DEF InGraph
<1>6. Members \ InGraph(depends, input) = Rest
  BY <1>4, <1>5 DEF Rest
<1> QED
  BY <1>1, <1>2, <1>3, <1>4, <1>5, <1>6

LEMMA InitAgrees == Init => AgreeInv
<1> SUFFICES ASSUME Init PROVE AgreeInv
  OBVIOUS
<1> DEFINE R == {m \in Members : HasEdge(m) /\ EdgesInto(Edges, m) = {}}
           R2 == {m \in InGraph(depends, input) : Preds(depends, input, m) = {}}
<1>1. TypeOK /\ SortInv /\ ListInv
  BY InitInv
<1>2. /\ pc = "pop" /\ L = <<>> /\ S \in SetToSeqs(R)
      /\ input \in Seq(Migrations)
  BY <1>1, InputType DEF Init
<1>3. R = R2
  <2>1. \A m \in Members :
          EdgesInto(Edges, m) = {} <=> Preds(depends, input, m) = {}
    <3> TAKE m \in Members
    <3>1. Preds(depends, input, m) = {p \in Members : <<p, m>> \in Edges}
      BY <1>1, GraphOfInput
    <3>2. \A e \in Edges : e[1] \in Members /\ e = <<e[1], e[2]>>
      BY DEF Edges
    <3> QED
      BY <3>1, <3>2 DEF EdgesInto
  <2> QED
    BY <1>1, <2>1, GraphOfInput
<1>4. S \in RootOrders(depends, input)
  BY <1>2, <1>3 DEF RootOrders
<1> HIDE DEF R, R2
<1>5. S \in Seq(InGraph(depends, input)) /\ IsGraph(depends, Migrations)
  BY <1>1, <1>2, <1>4, GraphOfInput, LoopStarts
<1>6. PICK turn : /\ IsLoop(turn, depends, input, S)
                  /\ Visited(depends, input, S) = turn[Len(input)].L
  BY <1>2, <1>5, VisitedLoops
<1>7. InTurn(turn, 0, S)
  BY <1>2, <1>6 DEF InTurn, AtTurn, IsLoop
<1>8. 0 \in 0..Len(input)
  BY <1>2
<1>9. InLoop
  BY <1>4, <1>7, <1>8 DEF InLoop
<1> QED
  BY <1>2, <1>9 DEF AgreeInv, RemovedInOrder, AfterLoop

\* In the loop there is a turn.
LEMMA TurnOfLoop ==
  ASSUME TypeOK, NEW roots \in RootOrders(depends, input),
         NEW n \in 0..Len(input), NEW turn, InTurn(turn, n, roots)
  PROVE  /\ turn[n].L \in Seq(Members) /\ turn[n].S \in Seq(Members)
         /\ turn[n].S # <<>> => n < Len(input)
<1>1. IsGraph(depends, Migrations) /\ InGraph(depends, input) \subseteq Members
  BY GraphOfInput
<1>2. turn[n].S # <<>> => n < Len(input)
  BY <1>1, InputType, LoopRuns DEF InTurn
<1>3. turn[n].L \in Seq(Members) /\ turn[n].S \in Seq(Members)
  <2>1. /\ turn[n].L \in Seq(InGraph(depends, input))
        /\ turn[n].S \in Seq(InGraph(depends, input))
    BY DEF InTurn, IsLoop
  <2> QED
    BY <1>1, <2>1
<1> QED
  BY <1>2, <1>3

LEMMA PopAgrees ==
  ASSUME TypeOK, SortInv, ListInv, AgreeInv, Pop
  PROVE  AgreeInv'
<1>1. /\ pc = "pop" /\ S # <<>> /\ L' = Append(L, Head(S)) /\ S' = Tail(S)
      /\ pc' = "children" /\ edges' = edges
  BY DEF Pop
<1>2. PICK roots \in RootOrders(depends, input), n \in 0..Len(input) :
        \E turn : InTurn(turn, n, roots)
  BY <1>1 DEF AgreeInv, InLoop
<1> PICK turn : InTurn(turn, n, roots)
  BY <1>2
<1>3. L = turn[n].L /\ S = turn[n].S
  BY <1>1 DEF InTurn, AtTurn
<1>4. Current' = Head(S) /\ Head(S) \in ToSet(S)
  BY <1>1, AppendMembers, HeadTailMembers DEF Current, TypeOK
<1>5. \A x : <<Current', x>> \notin Edges \ edges
  BY <1>4 DEF SortInv, RemovedBehindSource, ListInv, Once
<1>6. Queued' = {}
  BY <1>1, <1>5, Constant DEF Queued, Next
<1>7. RemovedInOrder'
  BY <1>1, <1>5, Constant DEF RemovedInOrder, Next
<1>8. S' = Tail(turn[n].S) \o <<>>
  BY <1>1, <1>3 DEF TypeOK
<1>9. input' = input /\ depends' = depends
  BY DEF Pop
<1>10. IsPart(<<>>, input', Queued')
  BY <1>6, NothingIsPart
<1>11. InTurn(turn, n, roots)'
  BY <1>1, <1>3, <1>8, <1>9, <1>10 DEF InTurn, AtTurn
<1>12. InLoop'
  BY <1>9, <1>11 DEF InLoop
<1> QED
  BY <1>1, <1>7, <1>12 DEF AgreeInv, AfterLoop

LEMMA RemoveAgrees ==
  ASSUME TypeOK, SortInv, AgreeInv, RemoveEdge
  PROVE  AgreeInv'
<1>1. PICK i \in DOMAIN input :
        /\ <<Current, input[i]>> \in edges
        /\ \A j \in 1..(i-1) : <<Current, input[j]>> \notin edges
        /\ edges' = edges \ {<<Current, input[i]>>}
        /\ S' = IF EdgesInto(edges', input[i]) = {} THEN Append(S, input[i])
                ELSE S
  BY DEF RemoveEdge
<1> DEFINE m == input[i]
<1>2. /\ pc = "children" /\ pc' = pc /\ L' = L /\ Current' = Current
      /\ input' = input /\ depends' = depends
  BY DEF RemoveEdge, Current
<1>3. Members' = Members /\ Edges' = Edges
  BY Constant DEF Next
<1>4. m \in Members /\ edges \subseteq Edges
  BY InputType DEF TypeOK
<1>5. /\ input \in Seq(Migrations) /\ IsInjective(input)
      /\ DOMAIN input = 1..Len(input) /\ Len(input) \in Nat
  BY InputType
<1>6. Queued' = IF EdgesInto(edges', m) = {} THEN Queued \cup {m} ELSE Queued
  <2>1. \A x : x # m => EdgesInto(edges', x) = EdgesInto(edges, x)
    BY <1>1 DEF EdgesInto
  <2>2. \A x : <<Current, x>> \in Edges \ edges' <=>
                <<Current, x>> \in Edges \ edges \/ x = m
    BY <1>1, <1>4
  <2>3. m \notin Queued
    BY <1>1 DEF Queued
  <2> HIDE DEF m
  <2> QED
    BY <1>2, <1>3, <1>4, <2>1, <2>2, <2>3 DEF Queued
<1>7. \A x \in Queued : Precedes(input, x, m)
  BY <1>1, <1>2, <1>4 DEF Queued, AgreeInv, RemovedInOrder
<1>8. m \notin Queued
  BY <1>1 DEF Queued
<1>9. RemovedInOrder'
  <2> SUFFICES ASSUME NEW x \in Members, NEW y \in Members,
                      <<Current, x>> \in Edges \ edges', <<Current, y>> \in edges'
               PROVE  Precedes(input, x, y)
    BY <1>2, <1>3 DEF RemovedInOrder
  <2>1. CASE x # m
    BY <1>1, <1>2, <2>1 DEF AgreeInv, RemovedInOrder
  <2>2. CASE x = m
    <3>1. PICK j \in DOMAIN input : input[j] = y
      BY DEF Members, ToSet
    <3>2. j # i /\ ~(j \in 1..(i-1))
      BY <1>1, <3>1
    <3>3. i < j
      BY <1>5, <3>1, <3>2
    <3> QED
      BY <2>2, <3>1, <3>3 DEF Precedes
  <2> QED
    BY <2>1, <2>2
<1>10. PICK roots \in RootOrders(depends, input), n \in 0..Len(input) :
         \E turn : InTurn(turn, n, roots)
  BY <1>2 DEF AgreeInv, InLoop
<1> PICK turn : InTurn(turn, n, roots)
  BY <1>10
<1>11. /\ turn[n].S # <<>> /\ L = Append(turn[n].L, Head(turn[n].S))
       /\ \E q : IsPart(q, input, Queued) /\ S = Tail(turn[n].S) \o q
  BY <1>2 DEF InTurn, AtTurn
<1>12. PICK q : IsPart(q, input, Queued) /\ S = Tail(turn[n].S) \o q
  BY <1>11
<1>13. q \in Seq(Members) /\ Tail(turn[n].S) \in Seq(Members)
  BY <1>11, <1>12, TurnOfLoop, HeadTailMembers DEF IsPart, Members
<1>14. \E r : IsPart(r, input, Queued') /\ S' = Tail(turn[n].S) \o r
  <2>1. CASE EdgesInto(edges', m) = {}
    <3>1. IsPart(Append(q, m), input, Queued \cup {m})
      BY <1>4, <1>5, <1>7, <1>8, <1>12, PartGrows DEF Members
    <3>2. S' = Tail(turn[n].S) \o Append(q, m)
      <4>1. S' = Append(Tail(turn[n].S) \o q, m)
        BY <1>1, <1>12, <2>1
      <4>2. AppendsToSecond(Tail(turn[n].S), q, m)
        <5> HIDE DEF m
        <5> QED
          BY <1>4, <1>13, AppendBehind
      <4> QED
        BY <4>1, <4>2 DEF AppendsToSecond
    <3> QED
      BY <1>6, <2>1, <3>1, <3>2
  <2>2. CASE EdgesInto(edges', m) # {}
    BY <1>1, <1>6, <1>12, <2>2
  <2> QED
    BY <2>1, <2>2
<1>15. AtTurn(turn, n)'
  BY <1>2, <1>11, <1>14 DEF AtTurn
<1>16. InTurn(turn, n, roots)'
  BY <1>2, <1>15 DEF InTurn
<1>17. InLoop'
  BY <1>2, <1>16 DEF InLoop
<1> QED
  BY <1>2, <1>9, <1>17 DEF AgreeInv, AfterLoop

LEMMA EndForAgrees ==
  ASSUME TypeOK, SortInv, AgreeInv, EndFor
  PROVE  AgreeInv'
<1>1. /\ pc = "children" /\ pc' = "pop"
      /\ \A m \in Members : <<Current, m>> \notin edges
      /\ L' = L /\ S' = S /\ input' = input /\ depends' = depends
  BY DEF EndFor
<1>2. PICK roots \in RootOrders(depends, input), n \in 0..Len(input) :
        \E turn : InTurn(turn, n, roots)
  BY <1>1 DEF AgreeInv, InLoop
<1> PICK turn : InTurn(turn, n, roots)
  BY <1>2
<1> DEFINE st == turn[n]
<1>3. /\ st.S # <<>> /\ L = Append(st.L, Head(st.S))
      /\ \E q : IsPart(q, input, Queued) /\ S = Tail(st.S) \o q
  BY <1>1 DEF InTurn, AtTurn
<1>4. st.L \in Seq(Members) /\ st.S \in Seq(Members) /\ n < Len(input)
  BY <1>3, TurnOfLoop
<1>5. Head(st.S) \in Members /\ Current = Head(st.S)
  <2>1. Head(st.S) \in Members
    BY <1>3, <1>4, HeadTailMembers
  <2> HIDE DEF st
  <2> QED
    BY <1>3, <1>4, <2>1 DEF Current
<1>6. Queued = FreedBy(depends, input, Head(st.S), L)
  <2> SUFFICES ASSUME NEW x \in Members
               PROVE  x \in Queued <=>
                        /\ Current \in depends[x]
                        /\ Preds(depends, input, x) \subseteq ToSet(L)
    BY <1>5 DEF Queued, FreedBy, Members
  <2>1. <<Current, x>> \in Edges \ edges <=> Current \in depends[x]
    BY <1>1, <1>5 DEF Edges
  <2>2. Preds(depends, input, x) = {p \in Members : <<p, x>> \in Edges}
    BY GraphOfInput
  <2>3. ASSUME EdgesInto(edges, x) = {}
        PROVE  Preds(depends, input, x) \subseteq ToSet(L)
    <3> SUFFICES ASSUME NEW p \in Members, <<p, x>> \in Edges
                 PROVE  p \in ToSet(L)
      BY <2>2
    <3>1. <<p, x>> \notin edges
      BY <2>3 DEF EdgesInto
    <3> QED
      BY <3>1 DEF SortInv, RemovedBehindSource
  <2>4. ASSUME Preds(depends, input, x) \subseteq ToSet(L), NEW e \in edges,
               e[2] = x
        PROVE  FALSE
    <3>1. e[1] \in Members /\ e = <<e[1], x>> /\ e \in Edges
      BY <2>4 DEF TypeOK, Edges
    <3>2. e[1] \in ToSet(L)
      BY <2>2, <2>4, <3>1
    <3>3. e[1] = Current
      BY <3>2 DEF SortInv, SourcesDone
    <3> QED
      BY <1>1, <2>4, <3>1, <3>3
  <2> QED
    BY <2>1, <2>3, <2>4 DEF Queued, EdgesInto
<1>7. IsGraph(depends, Migrations) /\ input \in Seq(Migrations)
      /\ IsInjective(input) /\ Len(input) \in Nat
  BY GraphOfInput, InputType
<1>8. PICK freed :
        /\ Visit(depends, input, st) = [L |-> L, S |-> Tail(st.S) \o freed]
        /\ IsPart(freed, input, Queued)
  <2> HIDE DEF st
  <2> QED
    BY <1>3, <1>6, <1>7, VisitQueues
<1>9. S = Tail(st.S) \o freed
  BY <1>3, <1>7, <1>8, SamePart
<1>10. n + 1 \in 1..Len(input) /\ n + 1 \in 0..Len(input) /\ (n + 1) - 1 = n
  BY <1>4, <1>7
<1>11. turn[n + 1] = [L |-> L, S |-> S]
  <2>1. turn[n + 1] = IF st.S = <<>> THEN st ELSE Visit(depends, input, st)
    BY <1>10 DEF InTurn, IsLoop
  <2> QED
    BY <1>3, <1>8, <1>9, <2>1
<1>12. AtTurn(turn, n + 1)'
  BY <1>1, <1>11 DEF AtTurn
<1>13. InTurn(turn, n + 1, roots)'
  BY <1>1, <1>12 DEF InTurn
<1>14. InLoop'
  BY <1>1, <1>10, <1>13 DEF InLoop
<1> QED
  BY <1>1, <1>14 DEF AgreeInv, RemovedInOrder, AfterLoop

LEMMA EndWhileAgrees ==
  ASSUME TypeOK, SortInv, ListInv, AgreeInv, EndWhile
  PROVE  AgreeInv'
<1>1. /\ pc = "pop" /\ S = <<>>
      /\ pc' = IF edges = {} THEN "rest" ELSE "raised"
      /\ L' = L /\ input' = input /\ depends' = depends /\ pos' = pos
  BY DEF EndWhile
<1>2. PICK roots \in RootOrders(depends, input), n \in 0..Len(input) :
        \E turn : InTurn(turn, n, roots)
  BY <1>1 DEF AgreeInv, InLoop
<1> PICK turn : InTurn(turn, n, roots)
  BY <1>2
<1> PICK v : v = Visited(depends, input, roots)
  OBVIOUS
<1>3. L = v
  <2>1. turn[n].S = <<>> /\ L = turn[n].L
    BY <1>1 DEF InTurn, AtTurn
  <2>2. turn[Len(input)] = turn[n]
    BY <2>1, InputType, LoopStops DEF InTurn
  <2> QED
    BY <2>1, <2>2 DEF InTurn
<1>4. ASSUME edges = {}
      PROVE  ToSet(v) = InGraph(depends, input)
  <2>1. ToSet(S) = {} /\ \A m : EdgesInto(edges, m) = {}
    BY <1>1, <1>4 DEF ToSet, EdgesInto
  <2>2. \A m \in Members : HasEdge(m) => m \in ToSet(L)
    BY <2>1 DEF ListInv, Accounted
  <2>3. \A m \in ToSet(L) : m \in Members /\ HasEdge(m)
    BY <1>1, MembersOfSeq DEF TypeOK, ListInv, RestReached
  <2>4. \A m \in Members : HasEdge(m) <=> m \in InGraph(depends, input)
    BY GraphOfInput
  <2>5. InGraph(depends, input) \subseteq Members
    BY GraphOfInput
  <2> QED
    BY <1>3, <2>2, <2>3, <2>4, <2>5
<1>5. \E r : IsPart(r, input', (Reached \cap Rest)') /\ L = v \o r
  <2>1. pos = 1
    BY <1>1 DEF ListInv, RestReached
  <2>2. Reached' = {}
    BY <1>1, <2>1, InputType DEF Reached
  <2>3. L = v \o <<>>
    BY <1>3 DEF TypeOK
  <2> QED
    BY <2>2, <2>3, NothingIsPart
<1>6. BehindLoop(v)'
  BY <1>1, <1>3, <1>4, <1>5 DEF BehindLoop
<1>7. AfterLoop'
  BY <1>1, <1>6 DEF AfterLoop
<1> QED
  BY <1>1, <1>7 DEF AgreeInv, InLoop, RemovedInOrder

LEMMA RestAgrees ==
  ASSUME TypeOK, ListInv, AgreeInv, AppendRest
  PROVE  AgreeInv'
<1>1. /\ pc = "rest" /\ pc' = pc /\ pos' = pos + 1
      /\ L' = IF HasEdge(input[pos]) THEN L ELSE Append(L, input[pos])
      /\ input' = input /\ depends' = depends
  BY DEF AppendRest
<1> DEFINE m == input[pos]
<1>2. /\ pos \in DOMAIN input /\ m \in Members
      /\ input \in Seq(Migrations) /\ IsInjective(input)
      /\ \A i \in DOMAIN input : i \in Nat
  <2>1. pos \in DOMAIN input
    BY InputType DEF AppendRest, TypeOK
  <2> QED
    BY <2>1, InputType, MembersOfSeq DEF Members
<1>3. PICK roots \in RootOrders(depends, input) :
        BehindLoop(Visited(depends, input, roots))
  BY <1>1 DEF AgreeInv, AfterLoop
<1> PICK v : v = Visited(depends, input, roots)
  OBVIOUS
<1>4. PICK r : IsPart(r, input, Reached \cap Rest) /\ L = v \o r
  BY <1>1, <1>3 DEF BehindLoop
<1>5. v \in Seq(InGraph(depends, input)) /\ r \in Seq(Members)
  BY <1>2, <1>4, GraphOfInput, VisitedFacts DEF IsPart, Members
<1>6. v \in Seq(Members)
  BY <1>5, GraphOfInput
<1>7. Reached' = Reached \cup {m}
  <2>1. \A i \in DOMAIN input : i < pos + 1 <=> i < pos \/ i = pos
    BY <1>2
  <2> QED
    BY <1>1, <1>2, <2>1 DEF Reached
<1>8. Rest' = Rest /\ (m \in Rest <=> ~HasEdge(m))
  BY <1>2, Constant DEF Rest, Next
<1>9. m \notin Reached /\ \A x \in Reached : Precedes(input, x, m)
  BY <1>2 DEF Reached, IsInjective, Precedes
<1> HIDE DEF m
<1>10. \E q : IsPart(q, input', (Reached \cap Rest)') /\ L' = v \o q
  <2>1. CASE HasEdge(m)
    <3>1. (Reached \cap Rest)' = Reached \cap Rest
      BY <1>7, <1>8, <2>1
    <3> QED
      BY <1>1, <1>4, <2>1, <3>1 DEF m
  <2>2. CASE ~HasEdge(m)
    <3>1. (Reached \cap Rest)' = (Reached \cap Rest) \cup {m}
      BY <1>7, <1>8, <2>2
    <3>2. IsPart(Append(r, m), input, (Reached \cap Rest) \cup {m})
      BY <1>2, <1>4, <1>9, PartGrows DEF Members
    <3>3. L' = v \o Append(r, m)
      <4>1. L' = Append(v \o r, m)
        BY <1>1, <1>4, <2>2 DEF m
      <4>2. AppendsToSecond(v, r, m)
        BY <1>2, <1>5, <1>6, AppendBehind
      <4> QED
        BY <4>1, <4>2 DEF AppendsToSecond
    <3> QED
      BY <1>1, <3>1, <3>2, <3>3
  <2> QED
    BY <2>1, <2>2
<1>11. BehindLoop(v)'
  BY <1>1, <1>3, <1>10 DEF BehindLoop
<1>12. AfterLoop'
  BY <1>1, <1>11 DEF AfterLoop
<1> QED
  BY <1>1, <1>12 DEF AgreeInv, InLoop, RemovedInOrder

LEMMA AgreeStep ==
  TypeOK /\ SortInv /\ ListInv /\ AgreeInv /\ [Next]_vars => AgreeInv'
<1> SUFFICES ASSUME TypeOK, SortInv, ListInv, AgreeInv, [Next]_vars
             PROVE  AgreeInv'
  OBVIOUS
<1>1. CASE Return
  <2>1. /\ pc = "rest" /\ pc' = "returned"
        /\ L' = L /\ input' = input /\ depends' = depends /\ pos' = pos
    BY <1>1 DEF Return
  <2>2. (Reached \cap Rest)' = Reached \cap Rest
    BY <2>1, Constant DEF Reached, Rest
  <2> QED
    BY <2>1, <2>2 DEF AgreeInv, InLoop, RemovedInOrder, AfterLoop, BehindLoop
<1>2. CASE UNCHANGED vars
  <2>1. /\ pc' = pc /\ L' = L /\ S' = S /\ input' = input
        /\ depends' = depends /\ pos' = pos /\ edges' = edges
    BY <1>2 DEF vars
  <2>2. /\ Rest' = Rest /\ Reached' = Reached /\ Current' = Current
        /\ Members' = Members /\ Edges' = Edges
    BY <2>1, Constant DEF Reached, Rest, Current
  <2>3. Queued' = Queued
    BY <2>1, <2>2 DEF Queued
  <2>4. InLoop'
    BY <2>1, <2>3 DEF AgreeInv, InLoop, InTurn, AtTurn
  <2>5. RemovedInOrder'
    BY <2>1, <2>2 DEF AgreeInv, RemovedInOrder
  <2>6. AfterLoop'
    BY <2>1, <2>2 DEF AgreeInv, AfterLoop, BehindLoop
  <2> QED
    BY <2>4, <2>5, <2>6 DEF AgreeInv
<1> QED
  BY <1>1, <1>2, PopAgrees, RemoveAgrees, EndForAgrees, EndWhileAgrees,
     RestAgrees DEF Next

\* The loops of topological_sort return a result of the operator, and raise
\* exactly when it says that there is a circle: for every list, every graph and
\* every order the roots may have in their set.
THEOREM AgreesWithOperatorHolds == Spec => []AgreesWithOperator
<1>1. TypeOK /\ SortInv /\ ListInv /\ AgreeInv => AgreesWithOperator
  <2> SUFFICES ASSUME TypeOK, SortInv, ListInv, AgreeInv,
                      pc \in {"returned", "raised"}
               PROVE  /\ pc = "returned" => L \in TopologicalSorts(depends, input)
                      /\ (pc = "raised") = Circular(depends, input)
    BY DEF AgreesWithOperator
  <2>1. PICK roots \in RootOrders(depends, input) :
          BehindLoop(Visited(depends, input, roots))
    BY DEF AgreeInv, AfterLoop
  <2> DEFINE v == Visited(depends, input, roots)
  <2>2. /\ IsGraph(depends, Migrations) /\ input \in Seq(Migrations)
        /\ IsInjective(input)
    BY GraphOfInput, InputType
  <2>3. CASE pc = "returned"
    <3>1. PICK r : IsPart(r, input, Reached \cap Rest) /\ L = v \o r
      BY <2>1, <2>3 DEF BehindLoop
    <3>2. Reached = Members
      <4>1. \A i \in DOMAIN input : i < pos
        BY <2>3, InputType DEF TypeOK, ListInv, RestReached
      <4> QED
        BY <4>1 DEF Reached, Members, ToSet
    <3> DEFINE P == ToSet(input) \ InGraph(depends, input)
    <3>3. Reached \cap Rest = ToSet(input) \cap P
      BY <3>2, GraphOfInput DEF Rest, Members
    <3>4. r = Only(input, P)
      <4> HIDE DEF P
      <4> QED
        BY <2>2, <3>1, <3>3, OnlyKeepsPart, SamePart
    <3>5. L \in TopologicalSorts(depends, input)
      BY <3>1, <3>4 DEF TopologicalSorts
    <3>6. ToSet(v) = InGraph(depends, input)
      BY <2>1, <2>3 DEF BehindLoop
    <3>7. ~Circular(depends, input)
      BY <2>2, <3>6, NoCircle, NotCircular
    <3> QED
      BY <2>3, <3>5, <3>7 DEF Circular
  <2>4. CASE pc = "raised"
    <3>1. L = v
      BY <2>1, <2>4 DEF BehindLoop
    <3>2. PICK e \in edges : TRUE
      BY <2>4 DEF ListInv, RaisedForEdges
    <3>3. e \in Edges /\ e[1] \in Members
      BY DEF TypeOK, Edges
    <3>4. e[1] \notin ToSet(L)
      BY <2>4 DEF SortInv, SourcesDone
    <3>5. HasEdge(e[1])
      BY <3>3 DEF HasEdge
    <3>6. e[1] \in InGraph(depends, input)
      BY <3>3, <3>5, GraphOfInput
    <3>7. Circular(depends, input)
      BY <3>1, <3>4, <3>6 DEF Circular
    <3> QED
      BY <2>4, <3>7 DEF Circular
  <2> QED
    BY <2>3, <2>4
<1> QED
  BY <1>1, SortInvariant, InitAgrees, AgreeStep, PTL DEF Spec
==============================================================================
