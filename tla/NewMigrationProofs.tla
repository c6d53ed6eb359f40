------------------------- MODULE NewMigrationProofs --------------------------
(***************************************************************************)
(* Theorems about yoyo new, for any developers and any migrations that are *)
(* there already: what a migration depends on is beside it, the names rise *)
(* up to 99, no circle of dependencies arises, and a migration comes       *)
(* behind everything its developer had read.                               *)
(***************************************************************************)
EXTENDS NewMigration, DependencyOrderProofs

-----------------------------------------------------------------------------
(* Names and numbers.                                                      *)

LEMMA TenthGrows ==
  ASSUME NEW a \in Nat, NEW b \in Nat, a <= b
  PROVE  a \div 10 \in Nat /\ a \div 10 <= b \div 10
OBVIOUS

\* The order of names is a total one.
LEMMA NamesAreOrdered ==
  ASSUME NEW f \in Names, NEW g \in Names, NEW h \in Names
  PROVE  /\ ~NameLess(f, f)
         /\ NameLess(f, g) /\ NameLess(g, h) => NameLess(f, h)
         /\ f # g => NameLess(f, g) \/ NameLess(g, f)
<1>1. /\ Number(f) \in Nat /\ f[2] \in Int
      /\ Number(g) \in Nat /\ g[2] \in Int
      /\ Number(h) \in Nat /\ h[2] \in Int
      /\ Number(f) = Number(g) /\ f[2] = g[2] => f = g
  BY DEF Names, Number
<1> QED
  BY <1>1, TenthGrows DEF NameLess

Before(S, f) == {g \in S : NameLess(g, f)}

\* In the order of the names, fewer of them come before an earlier one.
LEMMA FewerBefore ==
  ASSUME NEW S \in SUBSET Names, IsFiniteSet(S),
         NEW f \in S, NEW g \in S, NameLess(f, g)
  PROVE  Cardinality(Before(S, f)) < Cardinality(Before(S, g))
<1>1. Before(S, f) \subseteq Before(S, g)
  BY NamesAreOrdered DEF Before
<1>2. f \in Before(S, g) /\ f \notin Before(S, f)
  BY NamesAreOrdered DEF Before
<1>3. IsFiniteSet(Before(S, f)) /\ IsFiniteSet(Before(S, g))
  BY FS_Subset DEF Before
<1>4. /\ Cardinality(Before(S, f)) \in Nat /\ Cardinality(Before(S, g)) \in Nat
  BY <1>3, FS_CardinalityType
<1>5. /\ Cardinality(Before(S, f)) <= Cardinality(Before(S, g))
      /\ Cardinality(Before(S, f)) # Cardinality(Before(S, g))
  BY <1>1, <1>2, <1>3, FS_Subset
<1> QED
  BY <1>4, <1>5

\* read_migrations lists each of the files, once.
LEMMA SortedMembers ==
  ASSUME NEW S \in SUBSET Names, IsFiniteSet(S)
  PROVE  /\ Sorted(S) \in Seq(S)
         /\ ToSet(Sorted(S)) = S
         /\ IsInjective(Sorted(S))
<1> DEFINE n == Cardinality(S)
           rank == [f \in S |-> Cardinality(Before(S, f)) + 1]
<1>1. n \in Nat
  BY FS_CardinalityType
<1>2. ASSUME NEW f \in S
      PROVE  /\ Cardinality(Before(S, f)) \in Nat
             /\ Cardinality(Before(S, f)) < n
  <2>1. Before(S, f) \subseteq S /\ f \notin Before(S, f)
    BY NamesAreOrdered DEF Before
  <2>2. IsFiniteSet(Before(S, f))
    BY <2>1, FS_Subset
  <2>3. Cardinality(Before(S, f)) \in Nat
    BY <2>2, FS_CardinalityType
  <2>4. Cardinality(Before(S, f)) <= n /\ Cardinality(Before(S, f)) # n
    BY <2>1, FS_Subset
  <2> QED
    BY <1>1, <2>3, <2>4
<1>3. rank \in [S -> 1..n]
  BY <1>1, <1>2
<1>4. ASSUME NEW f \in S, NEW g \in S, rank[f] = rank[g]
      PROVE  f = g
  <2>1. Cardinality(Before(S, f)) = Cardinality(Before(S, g))
    BY <1>2, <1>4
  <2>2. ~NameLess(f, g) /\ ~NameLess(g, f)
    BY <1>2, <2>1, FewerBefore
  <2> QED
    BY <2>2, NamesAreOrdered
<1>5. rank \in Injection(S, 1..n)
  BY <1>3, <1>4 DEF Injection, IsInjective
<1>6. IsFiniteSet(1..n) /\ Cardinality(1..n) = n
  BY <1>1, FS_Interval
<1>7. rank \in Surjection(S, 1..n)
  BY <1>5, <1>6, FS_Injection
<1>8. \A i \in 1..n : \E f \in S : rank[f] = i
  BY <1>7 DEF Surjection
<1>9. ASSUME NEW i \in 1..n
      PROVE  Sorted(S)[i] \in S /\ rank[Sorted(S)[i]] = i
  <2>1. PICK f \in S : rank[f] = i
    BY <1>8
  <2>2. Cardinality(Before(S, f)) = i - 1
    BY <1>2, <2>1
  <2>3. Sorted(S)[i] = CHOOSE g \in S : Cardinality(Before(S, g)) = i - 1
    BY DEF Sorted, Before
  <2>4. /\ Sorted(S)[i] \in S
        /\ Cardinality(Before(S, Sorted(S)[i])) = i - 1
    BY <2>2, <2>3
  <2> QED
    BY <2>4
<1>10. Sorted(S) \in Seq(S) /\ DOMAIN Sorted(S) = 1..n
  <2>1. Sorted(S) = [i \in 1..n |->
                       CHOOSE f \in S : Cardinality(Before(S, f)) = i - 1]
    BY DEF Sorted, Before
  <2> DEFINE file(i) == CHOOSE f \in S : Cardinality(Before(S, f)) = i - 1
  <2> HIDE DEF file, rank
  <2>2. Sorted(S) = [i \in 1..n |-> file(i)]
    BY <2>1 DEF file
  <2>3. Sorted(S) \in [1..n -> S]
    BY <1>9, <2>2
  <2> QED
    BY <1>1, <2>3
<1> HIDE DEF rank, n
<1>11. IsInjective(Sorted(S))
  BY <1>9, <1>10 DEF IsInjective
<1>12. ToSet(Sorted(S)) = S
  <2>1. ASSUME NEW f \in S PROVE f \in ToSet(Sorted(S))
    <3>1. rank[f] \in 1..n
      BY <1>3
    <3>2. Sorted(S)[rank[f]] = f
      BY <1>4, <1>9, <3>1
    <3> QED
      BY <1>10, <3>1, <3>2 DEF ToSet
  <2> QED
    BY <1>9, <1>10, <2>1 DEF ToSet
<1> QED
  BY <1>10, <1>11, <1>12

\* The numbers that make_filename tries, one after the other.
LEMMA NumbersTried ==
  ASSUME NEW numbers \in Seq(Nat)
  PROVE  \E number : /\ number[0] = 1
                     /\ \A n \in 1..Len(numbers) :
                          number[n] = Later(number[n-1], numbers[n])
                     /\ NumberBehind(numbers) = number[Len(numbers)]
<1> DEFINE k == Len(numbers)
           G == [n \in 1..k |-> [m \in Nat |-> Later(m, numbers[n])]]
           Def(f) == f = [n \in 0..k |->
                            IF n = 0 THEN 1 ELSE Later(f[n-1], numbers[n])]
<1>1. k \in Nat
  OBVIOUS
<1>2. G \in [1..k -> [Nat -> Nat]]
  BY DEF Later
<1>3. PICK f : IsRun(f, k, Nat, 1, G)
  <2> HIDE DEF k, G
  <2> QED
    BY <1>1, <1>2, Recursion
<1>4. ASSUME NEW n \in 1..k
      PROVE  f[n] = Later(f[n-1], numbers[n])
  <2>1. n-1 \in 0..k /\ f[n-1] \in Nat
    BY <1>1, <1>3 DEF IsRun
  <2> QED
    BY <1>3, <2>1 DEF IsRun
<1>5. Def(f)
  <2>1. \A n \in 0..k :
          f[n] = IF n = 0 THEN 1 ELSE Later(f[n-1], numbers[n])
    <3> TAKE n \in 0..k
    <3>1. CASE n = 0
      BY <1>3, <3>1 DEF IsRun
    <3>2. CASE n # 0
      <4>1. n \in 1..k
        BY <3>2
      <4> QED
        BY <1>4, <3>2, <4>1
    <3> QED
      BY <3>1, <3>2
  <2> QED
    BY <1>3, <2>1 DEF IsRun
<1> DEFINE g == CHOOSE g : Def(g)
<1>6. Def(g)
  BY <1>5
<1>7. NumberBehind(numbers) = g[k]
  BY DEF NumberBehind
<1> HIDE DEF g
<1>8. g[0] = 1 /\ \A n \in 1..k : g[n] = Later(g[n-1], numbers[n])
  <2>1. \A n \in 0..k :
          g[n] = IF n = 0 THEN 1 ELSE Later(g[n-1], numbers[n])
    BY <1>6
  <2>2. 0 \in 0..k /\ \A n \in 1..k : n \in 0..k /\ n # 0
    BY <1>1
  <2> QED
    BY <2>1, <2>2
<1> QED
  BY <1>7, <1>8

\* The number of a new migration passes those of the list, where they are
\* below 99.
LEMMA NumberPasses ==
  ASSUME NEW numbers \in Seq(Nat)
  PROVE  /\ NumberBehind(numbers) \in Nat
         /\ (\A i \in 1..Len(numbers) : numbers[i] < 99) =>
              /\ NumberBehind(numbers) <= 99
              /\ \A i \in 1..Len(numbers) : numbers[i] < NumberBehind(numbers)
<1> DEFINE k == Len(numbers)
           Small == \A i \in 1..k : numbers[i] < 99
<1>1. k \in Nat
  OBVIOUS
<1>2. PICK number : /\ number[0] = 1
                    /\ \A n \in 1..k :
                         number[n] = Later(number[n-1], numbers[n])
                    /\ NumberBehind(numbers) = number[k]
  BY NumbersTried
<1> DEFINE T == {n \in 0..k :
                   /\ number[n] \in Nat
                   /\ Small => /\ number[n] <= 99
                               /\ \A i \in 1..n : numbers[i] < number[n]}
<1>3. 0 \in T
  BY <1>1, <1>2
<1>4. ASSUME NEW n \in 1..k, n-1 \in T
      PROVE  n \in T
  <2>1. n \in 0..k /\ numbers[n] \in Nat /\ number[n-1] \in Nat
    BY <1>1, <1>4
  <2>2. number[n] = Later(number[n-1], numbers[n])
    BY <1>2
  <2>3. number[n] \in Nat
    BY <2>1, <2>2 DEF Later
  <2>4. ASSUME Small
        PROVE  number[n] <= 99 /\ \A i \in 1..n : numbers[i] < number[n]
    <3>1. /\ number[n-1] <= 99 /\ \A i \in 1..(n-1) : numbers[i] < number[n-1]
      BY <1>4, <2>4
    <3>2. numbers[n] < 99
      BY <2>4
    <3>3. number[n] <= 99 /\ number[n-1] <= number[n] /\ numbers[n] < number[n]
      BY <2>1, <2>2, <3>1, <3>2 DEF Later, StringLeq
    <3>4. \A i \in 1..(n-1) : numbers[i] < number[n]
      <4> TAKE i \in 1..(n-1)
      <4>1. numbers[i] \in Nat /\ numbers[i] < number[n-1]
        BY <3>1
      <4> QED
        BY <2>1, <2>3, <3>3, <4>1
    <3>5. \A i \in 1..n : i = n \/ i \in 1..(n-1)
      OBVIOUS
    <3> QED
      BY <3>3, <3>4, <3>5
  <2> QED
    BY <2>1, <2>3, <2>4
<1> HIDE DEF T
<1>5. k \in T
  <2>1. \A n \in 0..k : n \in T
    BY <1>1, <1>3, <1>4, UpTo
  <2> QED
    BY <1>1, <2>1
<1> QED
  BY <1>2, <1>5 DEF T

\* A finite set of numbers has a greatest and a least member.
LEMMA Extremes ==
  ASSUME NEW S \in SUBSET Int, IsFiniteSet(S), S # {}
  PROVE  /\ Max(S) \in Int /\ \A y \in S : y <= Max(S)
         /\ Min(S) \in Int /\ \A y \in S : Min(S) <= y
<1>1. PICK k \in Nat : ExistsBijection(1..k, S)
  BY FS_NatBijection
<1>2. PICK f : f \in [1..k -> S] /\ \A y \in S : \E i \in 1..k : f[i] = y
  BY <1>1 DEF ExistsBijection, Bijection, Injection, Surjection
<1> DEFINE Bounds(n) ==
             \E i, j \in 1..k : \A m \in 1..n : f[i] <= f[m] /\ f[m] <= f[j]
           T == {n \in 0..k : n = 0 \/ Bounds(n)}
<1>3. 0 \in T
  OBVIOUS
<1>4. ASSUME NEW n \in 1..k, n-1 \in T
      PROVE  n \in T
  <2>1. n \in 0..k /\ \A m \in 1..n : m \in 1..k /\ (m = n \/ m \in 1..(n-1))
    OBVIOUS
  <2>2. \A m \in 1..k : f[m] \in Int
    BY <1>2
  <2>3. CASE n = 1
    <3>1. \A m \in 1..n : m = n
      BY <2>3
    <3>2. f[n] <= f[n]
      BY <2>2
    <3>3. \A m \in 1..n : f[n] <= f[m] /\ f[m] <= f[n]
      BY <3>1, <3>2
    <3> QED
      BY <2>1, <3>3
  <2>4. CASE n # 1
    <3>1. n-1 # 0
      BY <2>4
    <3>2. PICK i, j \in 1..k : \A m \in 1..(n-1) : f[i] <= f[m] /\ f[m] <= f[j]
      BY <1>4, <3>1
    <3> DEFINE low == IF f[i] <= f[n] THEN i ELSE n
               high == IF f[n] <= f[j] THEN j ELSE n
    <3>3. low \in 1..k /\ high \in 1..k
      OBVIOUS
    <3>4. \A m \in 1..n : f[low] <= f[m] /\ f[m] <= f[high]
      BY <2>1, <2>2, <3>2
    <3>5. Bounds(n)
      BY <3>3, <3>4
    <3> QED
      BY <2>1, <3>5
  <2> QED
    BY <2>3, <2>4
<1> HIDE DEF T
<1>5. k \in T /\ k # 0
  <2>1. \A n \in 0..k : n \in T
    BY <1>3, <1>4, UpTo
  <2>2. PICK y \in S : \E i \in 1..k : f[i] = y
    BY <1>2
  <2> QED
    BY <2>1, <2>2
<1>6. PICK i, j \in 1..k : \A m \in 1..k : f[i] <= f[m] /\ f[m] <= f[j]
  BY <1>5 DEF T
<1>7. /\ f[i] \in S /\ \A y \in S : f[i] <= y
      /\ f[j] \in S /\ \A y \in S : f[j] >= y
  BY <1>2, <1>6
<1>8. Max(S) \in S /\ \A y \in S : Max(S) >= y
  BY <1>7 DEF Max
<1>9. Min(S) \in S /\ \A y \in S : Min(S) =< y
  BY <1>7 DEF Min
<1> QED
  BY <1>8, <1>9
-----------------------------------------------------------------------------
(* The invariant.                                                          *)

\* A migration depends on some of what its developer had read, which is there
\* still, since nothing removes a migration.
Directory ==
  /\ IsFiniteSet(DOMAIN files)
  /\ DOMAIN files \subseteq Names
  /\ Existing \subseteq DOMAIN files
  /\ \A f \in DOMAIN files :
       /\ files[f].state \in {"empty", "complete", "broken"}
       /\ files[f].depends \subseteq files[f].known
       /\ files[f].known \subseteq DOMAIN files
       /\ f \notin files[f].known

\* Of what a developer has read, what is not a head is named by another of it.
\* The name that is chosen is a new one, until the file is there.
Developer(d) ==
  /\ phase[d] \in {"idle", "reading", "editing", "naming", "saving",
                   "writing", "ended"}
  /\ listed[d] \in Seq(read[d])
  /\ heads[d] \subseteq read[d]
  /\ read[d] \subseteq DOMAIN files
  /\ temp[d] => d \notin Batch
  /\ \A x \in read[d] :
       x \in heads[d] \/ \E y \in read[d] : x \in files[y].depends
  /\ phase[d] \notin {"saving", "writing"} => name[d] = Temporary
  /\ phase[d] = "saving" => name[d] \in Names \ DOMAIN files
  /\ phase[d] = "writing" =>
       name[d] \in DOMAIN files /\ files[name[d]] = File({}, "empty", read[d])

NamesDiffer ==
  \A d, e \in Developers : d # e /\ name[d] = name[e] => name[d] = Temporary

\* Every developer has a value of each of the variables.
AreFunctions ==
  /\ phase = [d \in Developers |-> phase[d]]
  /\ listed = [d \in Developers |-> listed[d]]
  /\ read = [d \in Developers |-> read[d]]
  /\ heads = [d \in Developers |-> heads[d]]
  /\ temp = [d \in Developers |-> temp[d]]
  /\ broken \in [Developers -> BOOLEAN]
  /\ name = [d \in Developers |-> name[d]]

TypeInv ==
  /\ AreFunctions
  /\ Directory
  /\ \A d \in Developers : Developer(d)
  /\ NamesDiffer

\* Among any migrations there is one that nobody who made another of them had
\* read, and one whose developer had read none of them.
Ordered ==
  \A U \in SUBSET DOMAIN files : U # {} =>
    /\ \E m \in U : \A y \in U : m \notin files[y].known
    /\ \E m \in U : files[m].known \cap U = {}

\* A migration that is written depends, directly or through others, on all
\* that its developer had read.
Reaching ==
  \A f \in DOMAIN files :
    files[f].state # "empty" => files[f].known \subseteq Ancestors(Depends, f)

NewInv == TypeInv /\ Ordered /\ Reaching

-----------------------------------------------------------------------------
(* Steps.                                                                  *)

\* A step of the program of one developer.
StepOf(d) ==
  \/ Read(d) \/ Load(d) \/ FailToLoad(d) \/ FillTemplate(d)
  \/ Edit(d) \/ FailToEdit(d) \/ SaveBroken(d) \/ Quit(d)
  \/ ChooseName(d) \/ Rename(d) \/ OpenFile(d) \/ WriteFile(d)
  \/ Kill(d)

\* What a developer has stays as it is.
Rests(d) ==
  /\ phase'[d] = phase[d] /\ listed'[d] = listed[d] /\ read'[d] = read[d]
  /\ heads'[d] = heads[d] /\ temp'[d] = temp[d] /\ broken'[d] = broken[d]
  /\ name'[d] = name[d]

\* The file name[d] is new, or has new contents.
Added(d, depends, state) ==
  /\ DOMAIN files' = DOMAIN files \cup {name[d]}
  /\ \A f \in DOMAIN files : f # name[d] => files'[f] = files[f]
  /\ files'[name[d]] = File(depends, state, read[d])

\* The directory stays as it is, or the migration of d is put into it.
FilesOf(d) ==
  \/ files' = files
  \/ /\ phase[d] = "saving"
     /\ \/ \E state \in {"complete", "broken"} : Added(d, heads[d], state)
        \/ Added(d, {}, "empty")
  \/ phase[d] = "writing" /\ Added(d, heads[d], "complete")

LEMMA FileFields ==
  ASSUME NEW depends, NEW state, NEW known
  PROVE  /\ File(depends, state, known).depends = depends
         /\ File(depends, state, known).state = state
         /\ File(depends, state, known).known = known
BY DEF File

LEMMA EndFields ==
  ASSUME AreFunctions, NEW d \in Developers, NEW label, End(d, label)
  PROVE  /\ phase'[d] = label /\ listed'[d] = <<>> /\ read'[d] = {}
         /\ heads'[d] = {} /\ broken'[d] = FALSE /\ name'[d] = Temporary
         /\ \A e \in Developers \ {d} :
              /\ phase'[e] = phase[e] /\ listed'[e] = listed[e]
              /\ read'[e] = read[e] /\ heads'[e] = heads[e]
              /\ broken'[e] = broken[e] /\ name'[e] = name[e]
         /\ phase' = [e \in Developers |-> phase'[e]]
         /\ listed' = [e \in Developers |-> listed'[e]]
         /\ read' = [e \in Developers |-> read'[e]]
         /\ heads' = [e \in Developers |-> heads'[e]]
         /\ broken' \in [Developers -> BOOLEAN]
         /\ name' = [e \in Developers |-> name'[e]]
BY DEF AreFunctions, End, Goto

\* The others rest.
LEMMA OthersRest ==
  ASSUME AreFunctions, NEW d \in Developers, StepOf(d)
  PROVE  AreFunctions' /\ \A e \in Developers \ {d} : Rests(e)
<1>1. CASE Read(d) \/ Load(d) \/ FillTemplate(d)
  BY <1>1 DEF Read, Load, FillTemplate, Goto, AreFunctions, Rests, dirVars
<1>2. CASE Edit(d) \/ FailToEdit(d) \/ SaveBroken(d)
  BY <1>2 DEF Edit, FailToEdit, SaveBroken, Goto, AreFunctions, Rests, dirVars
<1>3. CASE ChooseName(d) \/ OpenFile(d)
  BY <1>3 DEF ChooseName, OpenFile, Goto, AreFunctions, Rests, dirVars
<1>4. CASE FailToLoad(d) \/ Kill(d) \/ WriteFile(d)
  BY <1>4, EndFields DEF FailToLoad, Kill, WriteFile, AreFunctions, Rests,
                         dirVars
<1>5. CASE Quit(d) \/ Rename(d)
  BY <1>5, EndFields DEF Quit, Rename, AreFunctions, Rests
<1> QED
  BY <1>1, <1>2, <1>3, <1>4, <1>5 DEF StepOf

LEMMA PutAdds ==
  ASSUME NEW d, NEW depends, NEW state, Put(d, depends, state)
  PROVE  Added(d, depends, state)
<1> DEFINE file == File(depends, state, read[d])
<1>1. files' = [f \in DOMAIN files \cup {name[d]} |->
                  IF f = name[d] THEN file ELSE files[f]]
  BY DEF Put
<1> HIDE DEF file
<1>2. /\ DOMAIN files' = DOMAIN files \cup {name[d]}
      /\ \A f \in DOMAIN files : f # name[d] => files'[f] = files[f]
      /\ files'[name[d]] = file
  BY <1>1
<1> QED
  BY <1>2 DEF Added, file

LEMMA StepFiles ==
  ASSUME NEW d \in Developers, StepOf(d)
  PROVE  FilesOf(d)
<1>1. CASE Rename(d)
  <2>1. /\ phase[d] = "saving"
        /\ Put(d, heads[d], IF broken[d] THEN "broken" ELSE "complete")
    BY <1>1 DEF Rename
  <2> QED
    BY <2>1, PutAdds DEF FilesOf
<1>2. CASE OpenFile(d)
  BY <1>2, PutAdds DEF OpenFile, FilesOf
<1>3. CASE WriteFile(d)
  BY <1>3, PutAdds DEF WriteFile, FilesOf
<1>4. CASE \/ Read(d) \/ Load(d) \/ FailToLoad(d) \/ FillTemplate(d) \/ Edit(d)
           \/ FailToEdit(d) \/ SaveBroken(d) \/ Quit(d) \/ ChooseName(d)
           \/ Kill(d)
  BY <1>4 DEF Read, Load, FailToLoad, FillTemplate, Edit, FailToEdit,
              SaveBroken, Quit, ChooseName, Kill, FilesOf, dirVars
<1> QED
  BY <1>1, <1>2, <1>3, <1>4 DEF StepOf

-----------------------------------------------------------------------------
(* TypeInv is inductive.                                                   *)

\* Nothing is taken out of the directory or out of what a migration depends
\* on.
Grows ==
  /\ DOMAIN files \subseteq DOMAIN files'
  /\ \A f \in DOMAIN files :
       /\ files[f].depends \subseteq files'[f].depends
       /\ files[f].known = files'[f].known

LEMMA AddedKeeps ==
  ASSUME TypeInv, NEW d \in Developers, phase[d] \in {"saving", "writing"},
         NEW depends \in SUBSET heads[d],
         NEW state \in {"empty", "complete", "broken"},
         Added(d, depends, state)
  PROVE  Directory' /\ Grows
<1>1. Directory /\ Developer(d)
  BY DEF TypeInv
<1>2. /\ name[d] \in Names /\ read[d] \subseteq DOMAIN files
      /\ depends \subseteq read[d]
  BY <1>1 DEF Developer, Directory
<1>3. name[d] \notin read[d]
  <2>1. CASE phase[d] = "saving"
    BY <1>1, <1>2, <2>1 DEF Developer
  <2>2. CASE phase[d] = "writing"
    BY <1>1, <2>2, FileFields DEF Developer, Directory
  <2> QED
    BY <2>1, <2>2
<1>4. name[d] \in DOMAIN files =>
        files[name[d]].depends = {} /\ files[name[d]].known = read[d]
  BY <1>1, FileFields DEF Developer
<1>5. /\ DOMAIN files' = DOMAIN files \cup {name[d]}
      /\ \A f \in DOMAIN files : f # name[d] => files'[f] = files[f]
      /\ files'[name[d]].depends = depends
      /\ files'[name[d]].state = state
      /\ files'[name[d]].known = read[d]
  BY FileFields DEF Added
<1>6. IsFiniteSet(DOMAIN files')
  BY <1>1, <1>5, FS_AddElement DEF Directory
<1>7. ASSUME NEW f \in DOMAIN files'
      PROVE  /\ files'[f].state \in {"empty", "complete", "broken"}
             /\ files'[f].depends \subseteq files'[f].known
             /\ files'[f].known \subseteq DOMAIN files'
             /\ f \notin files'[f].known
  <2>1. CASE f = name[d]
    BY <1>2, <1>3, <1>5, <2>1
  <2>2. CASE f # name[d]
    BY <1>1, <1>5, <2>2 DEF Directory
  <2> QED
    BY <2>1, <2>2
<1>8. Directory'
  BY <1>1, <1>2, <1>5, <1>6, <1>7 DEF Directory
<1> QED
  BY <1>4, <1>5, <1>8 DEF Grows

LEMMA DirectoryKept ==
  ASSUME TypeInv, NEW d \in Developers, StepOf(d)
  PROVE  Directory' /\ Grows
<1>1. FilesOf(d)
  BY StepFiles
<1>2. CASE files' = files
  BY <1>2 DEF TypeInv, Directory, Grows
<1>3. CASE phase[d] = "saving" /\ Added(d, {}, "empty")
  BY <1>3, AddedKeeps
<1>4. ASSUME NEW state \in {"complete", "broken"},
             phase[d] \in {"saving", "writing"}, Added(d, heads[d], state)
      PROVE  Directory' /\ Grows
  BY <1>4, AddedKeeps
<1> QED
  BY <1>1, <1>2, <1>3, <1>4 DEF FilesOf

\* What a developer has fits the directory also when it has grown.
LEMMA RestingKept ==
  ASSUME TypeInv, NEW d \in Developers, StepOf(d), NEW e \in Developers \ {d}
  PROVE  Developer(e)'
<1>1. Developer(e) /\ Rests(e)
  BY OthersRest DEF TypeInv
<1>2. Grows
  BY DirectoryKept
<1>3. /\ read'[e] \subseteq DOMAIN files'
      /\ \A x \in read'[e] :
           x \in heads'[e] \/ \E y \in read'[e] : x \in files'[y].depends
  BY <1>1, <1>2 DEF Developer, Rests, Grows
<1>4. name[e] = name[d] => name[e] = Temporary
  BY DEF TypeInv, NamesDiffer
<1>5. /\ DOMAIN files' \subseteq DOMAIN files \cup {name[d]}
      /\ \A f \in DOMAIN files : f # name[d] => files'[f] = files[f]
  BY StepFiles DEF FilesOf, Added
<1>6. phase'[e] = "saving" => name'[e] \in Names \ DOMAIN files'
  <2> SUFFICES ASSUME phase[e] = "saving" PROVE name[e] \notin DOMAIN files'
    BY <1>1 DEF Developer, Rests
  <2>1. name[e] \in Names \ DOMAIN files
    BY <1>1 DEF Developer
  <2> QED
    BY <1>4, <1>5, <2>1, NewAssumption
<1>7. phase'[e] = "writing" =>
        /\ name'[e] \in DOMAIN files'
        /\ files'[name'[e]] = File({}, "empty", read'[e])
  <2> SUFFICES ASSUME phase[e] = "writing"
               PROVE  /\ name[e] \in DOMAIN files'
                      /\ files'[name[e]] = File({}, "empty", read[e])
    BY <1>1 DEF Rests
  <2>1. /\ name[e] \in DOMAIN files
        /\ files[name[e]] = File({}, "empty", read[e])
    BY <1>1 DEF Developer
  <2>2. name[e] # Temporary
    BY <2>1, NewAssumption DEF TypeInv, Directory
  <2> QED
    BY <1>2, <1>4, <1>5, <2>1, <2>2 DEF Grows
<1> QED
  BY <1>1, <1>3, <1>6, <1>7 DEF Developer, Rests

\* A developer who is not saving a migration has no name for it.
LEMMA EndKept ==
  ASSUME AreFunctions, NEW d \in Developers, NEW label \in {"idle", "ended"},
         End(d, label), temp'[d] => d \notin Batch
  PROVE  Developer(d)'
<1>1. /\ phase'[d] = label /\ listed'[d] = <<>> /\ read'[d] = {}
      /\ heads'[d] = {} /\ name'[d] = Temporary
  BY EndFields
<1> QED
  BY <1>1 DEF Developer

\* The names that are in use.
LEMMA InUseFacts ==
  ASSUME TypeInv
  PROVE  /\ InUse \subseteq Names /\ IsFiniteSet(InUse) /\ InUse # {}
         /\ {f[2] : f \in InUse} \subseteq Int
         /\ IsFiniteSet({f[2] : f \in InUse}) /\ {f[2] : f \in InUse} # {}
<1> DEFINE chosen == {name[d] : d \in Developers}
           R == {f[2] : f \in InUse}
<1>1. /\ IsFiniteSet(DOMAIN files) /\ DOMAIN files \subseteq Names
      /\ Existing \subseteq DOMAIN files
  BY DEF TypeInv, Directory
<1>2. /\ Existing # {} /\ IsFiniteSet(Developers) /\ Temporary \notin Names
  BY NewAssumption
<1>3. chosen \subseteq Names \cup {Temporary}
  BY <1>1 DEF TypeInv, Developer
<1>4. IsFiniteSet(chosen)
  <2> DEFINE h == [d \in Developers |-> name[d]]
  <2>1. h \in Surjection(Developers, chosen)
    BY DEF Surjection
  <2> HIDE DEF h, chosen
  <2> QED
    BY <1>2, <2>1, FS_Surjection
<1>5. InUse = (DOMAIN files \cup chosen) \ {Temporary}
  BY DEF InUse
<1> HIDE DEF chosen
<1>6. IsFiniteSet(InUse)
  <2>1. IsFiniteSet(DOMAIN files \cup chosen)
    BY <1>1, <1>4, FS_Union
  <2> QED
    BY <1>5, <2>1, FS_Subset
<1>7. InUse \subseteq Names /\ InUse # {}
  BY <1>1, <1>2, <1>3, <1>5
<1>8. R \subseteq Int /\ R # {}
  BY <1>7 DEF Names
<1>9. IsFiniteSet(R)
  <2> DEFINE h == [f \in InUse |-> f[2]]
  <2>1. h \in Surjection(InUse, R)
    BY DEF Surjection
  <2> HIDE DEF h, R
  <2> QED
    BY <1>6, <2>1, FS_Surjection
<1> QED
  BY <1>6, <1>7, <1>8, <1>9

\* The numbers of the files, in any order, have one behind them.
LEMMA NewNumber ==
  ASSUME TypeInv, NEW number \in NewNumbers(DOMAIN files)
  PROVE  /\ number \in Nat
         /\ (\A f \in DOMAIN files : Number(f) < 99) =>
              number <= 99 /\ \A f \in DOMAIN files : Number(f) < number
<1> DEFINE S == {Number(f) : f \in DOMAIN files}
<1>1. IsFiniteSet(DOMAIN files) /\ DOMAIN files \subseteq Names
  BY DEF TypeInv, Directory
<1>2. S \subseteq Nat
  BY <1>1 DEF Names, Number
<1>3. IsFiniteSet(S)
  <2> DEFINE h == [f \in DOMAIN files |-> Number(f)]
  <2>1. h \in Surjection(DOMAIN files, S)
    BY DEF Surjection
  <2> HIDE DEF h, S
  <2> QED
    BY <1>1, <2>1, FS_Surjection
<1>4. \A f \in DOMAIN files : Number(f) \in S
  OBVIOUS
<1>5. \A n \in S : \E f \in DOMAIN files : n = Number(f)
  OBVIOUS
<1>6. PICK numbers \in SetToSeqs(S) : number = NumberBehind(numbers)
  BY DEF NewNumbers
<1> HIDE DEF S
<1>7. numbers \in Seq(S) /\ ToSet(numbers) = S
  BY <1>3, ListOfSet
<1>8. \A i \in 1..Len(numbers) : numbers[i] \in S
  BY <1>7
<1>9. numbers \in Seq(Nat)
  <2>1. Len(numbers) \in Nat /\ numbers \in [1..Len(numbers) -> S]
    BY <1>7
  <2>2. numbers \in [1..Len(numbers) -> Nat]
    BY <1>2, <2>1
  <2> QED
    BY <2>1, <2>2
<1>10. \A n \in S : \E i \in 1..Len(numbers) : n = numbers[i]
  BY <1>7, MembersOfSeq
<1>11. number \in Nat
  BY <1>6, <1>9, NumberPasses
<1>12. ASSUME \A f \in DOMAIN files : Number(f) < 99
       PROVE  number <= 99 /\ \A f \in DOMAIN files : Number(f) < number
  <2>1. \A i \in 1..Len(numbers) : numbers[i] < 99
    BY <1>5, <1>8, <1>12
  <2>2. /\ number <= 99
        /\ \A i \in 1..Len(numbers) : numbers[i] < number
    BY <1>6, <1>9, <2>1, NumberPasses
  <2> QED
    BY <1>4, <1>10, <2>2
<1> QED
  BY <1>11, <1>12

\* A new name is not in use, because its random part is not.
LEMMA NewName ==
  ASSUME TypeInv, NEW number \in NewNumbers(DOMAIN files),
         NEW random \in NewRandoms(number)
  PROVE  <<number, random>> \in Names \ InUse
<1> DEFINE R == {f[2] : f \in InUse}
<1>1. R \subseteq Int /\ IsFiniteSet(R) /\ R # {}
  BY InUseFacts
<1>2. \A f \in InUse : f[2] \in R
  OBVIOUS
<1>3. random = Max(R) + 1 \/ random = Min(R) - 1
  BY DEF NewRandoms
<1> HIDE DEF R
<1>4. /\ Max(R) \in Int /\ \A y \in R : y <= Max(R)
      /\ Min(R) \in Int /\ \A y \in R : Min(R) <= y
  BY <1>1, Extremes
<1>5. random \in Int /\ random \notin R
  BY <1>1, <1>3, <1>4
<1>6. number \in Nat
  BY NewNumber
<1>7. <<number, random>>[2] = random
  OBVIOUS
<1>8. <<number, random>> \notin InUse
  BY <1>2, <1>5, <1>7
<1> QED
  BY <1>5, <1>6, <1>8 DEF Names

LEMMA NameKept ==
  ASSUME TypeInv, NEW d \in Developers, ChooseName(d)
  PROVE  /\ Developer(d)' /\ NamesDiffer'
         /\ name'[d][1] \in NewNumbers(DOMAIN files)
<1>1. PICK number \in NewNumbers(DOMAIN files) :
        \E random \in NewRandoms(number) :
          name' = [name EXCEPT ![d] = <<number, random>>]
  BY DEF ChooseName
<1>2. PICK random \in NewRandoms(number) :
        name' = [name EXCEPT ![d] = <<number, random>>]
  BY <1>1
<1>3. /\ name'[d] = <<number, random>>
      /\ \A e \in Developers \ {d} : name'[e] = name[e]
  BY <1>2 DEF TypeInv, AreFunctions
<1>4. name'[d] \in Names \ InUse
  BY <1>3, NewName
<1>5. /\ phase'[d] = "saving" /\ listed' = listed /\ read' = read
      /\ heads' = heads /\ files' = files /\ temp' = temp
  BY DEF ChooseName, Goto, TypeInv, AreFunctions, dirVars
<1>6. name'[d] \in Names \ DOMAIN files'
  BY <1>4, <1>5, NewAssumption DEF InUse
<1>7. Developer(d)'
  BY <1>5, <1>6 DEF TypeInv, Developer
<1>8. \A e \in Developers \ {d} : name'[e] # name'[d]
  BY <1>3, <1>4, NewAssumption DEF InUse
<1>9. NamesDiffer'
  BY <1>3, <1>8 DEF TypeInv, NamesDiffer
<1>10. name'[d][1] = number
  BY <1>3
<1> QED
  BY <1>7, <1>9, <1>10

\* The one who makes the step.
LEMMA ActingKept ==
  ASSUME TypeInv, NEW d \in Developers, StepOf(d)
  PROVE  Developer(d)'
<1>1. AreFunctions /\ Directory /\ Developer(d)
  BY DEF TypeInv
<1>2. CASE Read(d)
  <2>1. /\ phase'[d] = "reading" /\ listed'[d] = Sorted(DOMAIN files)
        /\ read'[d] = DOMAIN files /\ heads'[d] = DOMAIN files
        /\ files' = files /\ temp' = temp /\ name' = name
        /\ phase[d] = "idle"
    BY <1>1, <1>2 DEF Read, Goto, AreFunctions, dirVars
  <2>2. Sorted(DOMAIN files) \in Seq(DOMAIN files)
    BY <1>1, SortedMembers DEF Directory
  <2> QED
    BY <1>1, <2>1, <2>2 DEF Developer
<1>3. CASE Load(d)
  <2> DEFINE file == Head(listed[d])
  <2>1. /\ phase' = phase /\ listed'[d] = Tail(listed[d])
        /\ read' = read /\ heads'[d] = heads[d] \ files[file].depends
        /\ files' = files /\ temp' = temp /\ name' = name
        /\ listed[d] # <<>>
    BY <1>1, <1>3 DEF Load, AreFunctions, dirVars
  <2>2. file \in read[d] /\ Tail(listed[d]) \in Seq(read[d])
    BY <1>1, <2>1, HeadTailMembers DEF Developer
  <2> HIDE DEF file
  <2> QED
    BY <1>1, <2>1, <2>2 DEF Developer
<1>4. CASE FillTemplate(d)
  <2>1. /\ phase'[d] \in {"naming", "editing"} /\ listed' = listed
        /\ read' = read /\ heads' = heads /\ files' = files
        /\ temp'[d] = (d \notin Batch) /\ name' = name
        /\ phase[d] = "reading"
    BY <1>1, <1>4 DEF FillTemplate, Goto, AreFunctions
  <2> QED
    BY <1>1, <2>1 DEF Developer
<1>5. CASE Edit(d) \/ FailToEdit(d) \/ SaveBroken(d)
  <2>1. /\ phase'[d] \in {"naming", "editing"} /\ listed' = listed
        /\ read' = read /\ heads' = heads /\ files' = files
        /\ temp' = temp /\ name' = name /\ phase[d] = "editing"
    BY <1>1, <1>5 DEF Edit, FailToEdit, SaveBroken, Goto, AreFunctions,
                      dirVars
  <2> QED
    BY <1>1, <2>1 DEF Developer
<1>6. CASE ChooseName(d)
  BY <1>6, NameKept
<1>7. CASE OpenFile(d)
  <2>1. /\ phase'[d] = "writing" /\ listed' = listed /\ read' = read
        /\ heads' = heads /\ temp' = temp /\ name' = name
        /\ phase[d] = "saving" /\ Added(d, {}, "empty")
    BY <1>1, <1>7, PutAdds DEF OpenFile, Goto, AreFunctions
  <2>2. Grows
    BY DirectoryKept
  <2>3. /\ name'[d] \in DOMAIN files'
        /\ files'[name'[d]] = File({}, "empty", read'[d])
    BY <2>1 DEF Added
  <2>4. /\ read'[d] \subseteq DOMAIN files'
        /\ \A x \in read'[d] :
             x \in heads'[d] \/ \E y \in read'[d] : x \in files'[y].depends
    BY <1>1, <2>1, <2>2 DEF Developer, Grows
  <2> QED
    BY <1>1, <2>1, <2>3, <2>4 DEF Developer
<1>8. CASE FailToLoad(d) \/ Kill(d) \/ Quit(d) \/ Rename(d) \/ WriteFile(d)
  <2>1. \E label \in {"idle", "ended"} : End(d, label)
    BY <1>8 DEF FailToLoad, Kill, Quit, Rename, WriteFile
  <2>2. temp'[d] => d \notin Batch
    BY <1>1, <1>8 DEF FailToLoad, Kill, Quit, Rename, WriteFile, dirVars,
                      Developer, AreFunctions
  <2> QED
    BY <1>1, <2>1, <2>2, EndKept
<1> QED
  BY <1>2, <1>3, <1>4, <1>5, <1>6, <1>7, <1>8 DEF StepOf

LEMMA NamesKept ==
  ASSUME TypeInv, NEW d \in Developers, StepOf(d)
  PROVE  NamesDiffer'
<1>1. CASE ChooseName(d)
  BY <1>1, NameKept
<1>2. CASE \/ Read(d) \/ Load(d) \/ FillTemplate(d) \/ Edit(d)
           \/ FailToEdit(d) \/ SaveBroken(d) \/ OpenFile(d)
  BY <1>2 DEF Read, Load, FillTemplate, Edit, FailToEdit, SaveBroken,
              OpenFile, TypeInv, NamesDiffer
<1>3. CASE FailToLoad(d) \/ Kill(d) \/ Quit(d) \/ Rename(d) \/ WriteFile(d)
  <2>1. PICK label : End(d, label)
    BY <1>3 DEF FailToLoad, Kill, Quit, Rename, WriteFile
  <2>2. /\ name'[d] = Temporary
        /\ \A e \in Developers \ {d} : name'[e] = name[e]
    BY <2>1, EndFields DEF TypeInv
  <2> QED
    BY <2>2 DEF TypeInv, NamesDiffer
<1> QED
  BY <1>1, <1>2, <1>3 DEF StepOf

LEMMA InitType == Init => TypeInv
<1> SUFFICES ASSUME Init PROVE TypeInv
  OBVIOUS
<1>1. /\ files = [f \in Existing |-> File({}, "complete", {})]
      /\ phase = [d \in Developers |-> "idle"]
      /\ listed = [d \in Developers |-> <<>>]
      /\ read = [d \in Developers |-> {}]
      /\ heads = [d \in Developers |-> {}]
      /\ temp = [d \in Developers |-> FALSE]
      /\ broken = [d \in Developers |-> FALSE]
      /\ name = [d \in Developers |-> Temporary]
  BY DEF Init
<1>2. Directory
  <2>1. \A f \in Existing : /\ files[f].depends = {} /\ files[f].known = {}
                            /\ files[f].state = "complete"
    BY <1>1, FileFields
  <2> QED
    BY <1>1, <2>1, NewAssumption DEF Directory
<1>3. AreFunctions
  BY <1>1 DEF AreFunctions
<1>4. ASSUME NEW d \in Developers
      PROVE  Developer(d)
  BY <1>1 DEF Developer
<1>5. NamesDiffer
  BY <1>1 DEF NamesDiffer
<1> QED
  BY <1>2, <1>3, <1>4, <1>5 DEF TypeInv

LEMMA StepType == TypeInv /\ [Next]_vars => TypeInv'
<1> SUFFICES ASSUME TypeInv, [Next]_vars PROVE TypeInv'
  OBVIOUS
<1>1. ASSUME NEW d \in Developers, StepOf(d)
      PROVE  TypeInv'
  <2>1. AreFunctions' /\ Directory' /\ NamesDiffer'
    BY <1>1, OthersRest, DirectoryKept, NamesKept DEF TypeInv
  <2>2. ASSUME NEW e \in Developers
        PROVE  Developer(e)'
    BY <1>1, ActingKept, RestingKept
  <2> QED
    BY <2>1, <2>2 DEF TypeInv
<1>2. CASE UNCHANGED vars
  BY <1>2 DEF vars, dirVars, devVars, TypeInv, AreFunctions, Directory,
              Developer, NamesDiffer
<1> QED
  BY <1>1, <1>2 DEF Next, StepOf

LEMMA TypeInvHolds == Spec => []TypeInv
BY InitType, StepType, PTL DEF Spec

-----------------------------------------------------------------------------
(* What follows from TypeInv.                                              *)

\* Files, the variables of each developer and what they read have the values
\* of the model's type invariant in every state.
THEOREM TypeCorrect == Spec => []TypeOK
<1>1. TypeInv => TypeOK
  <2> SUFFICES ASSUME TypeInv PROVE TypeOK
    OBVIOUS
  <2>1. ASSUME NEW f \in DOMAIN files
        PROVE  /\ files[f].state \in {"empty", "complete", "broken"}
               /\ files[f].depends \subseteq Names \cup {Temporary}
               /\ f \notin files[f].known
    BY DEF TypeInv, Directory
  <2>2. ASSUME NEW d \in Developers
        PROVE  ToSet(listed[d]) \subseteq read[d]
    BY MembersOfSeq DEF TypeInv, Developer
  <2> QED
    BY <2>1, <2>2 DEF TypeInv, Directory, Developer, AreFunctions, TypeOK
<1> QED
  BY TypeInvHolds, <1>1, PTL

\* Every migration finds what it depends on beside it, however many people
\* create migrations at once and wherever they stop.
THEOREM DirectoryIsClosedHolds == Spec => []DirectoryIsClosed
<1>1. TypeInv => DirectoryIsClosed
  BY DEF TypeInv, Directory, DirectoryIsClosed
<1> QED
  BY TypeInvHolds, <1>1, PTL

\* The name that make_filename chooses sorts behind those of all files, in
\* whatever order glob lists them, until one has the number 99.
THEOREM NamesRiseHolds == Spec => NamesRise
<1> DEFINE Rises(d) ==
             \A f \in DOMAIN files :
               \/ NameLess(f, name'[d])
               \/ \E g \in DOMAIN files : Number(g) >= 99
<1>1. ASSUME TypeInv, NEW d \in Developers, ChooseName(d)
      PROVE  Rises(d)
  <2> SUFFICES ASSUME \A g \in DOMAIN files : ~(Number(g) >= 99),
                      NEW f \in DOMAIN files
               PROVE  NameLess(f, name'[d])
    OBVIOUS
  <2>1. \A g \in DOMAIN files : Number(g) \in Nat
    BY <1>1 DEF TypeInv, Directory, Names, Number
  <2>2. Number(name'[d]) \in NewNumbers(DOMAIN files)
    BY <1>1, NameKept DEF Number
  <2>3. \A g \in DOMAIN files : Number(g) < 99
    BY <2>1
  <2>4. /\ Number(name'[d]) \in Nat /\ Number(name'[d]) <= 99
        /\ Number(f) < Number(name'[d])
    BY <1>1, <2>2, <2>3, NewNumber
  <2> QED
    BY <2>1, <2>4 DEF NameLess
<1>2. TypeInv => [\A d \in Developers : ChooseName(d) => Rises(d)]_vars
  BY <1>1
<1> QED
  BY TypeInvHolds, <1>2, PTL DEF NamesRise

-----------------------------------------------------------------------------
(* The order of creation.                                                  *)

LEMMA StepFields ==
  ASSUME NEW d \in Developers, StepOf(d), files' # files
  PROVE  /\ phase[d] \in {"saving", "writing"}
         /\ DOMAIN files' = DOMAIN files \cup {name[d]}
         /\ \A f \in DOMAIN files : f # name[d] => files'[f] = files[f]
         /\ files'[name[d]].known = read[d]
         /\ files'[name[d]].state # "empty" =>
              files'[name[d]].depends = heads[d]
<1> SUFFICES ASSUME phase[d] \in {"saving", "writing"},
                    NEW depends, NEW state, Added(d, depends, state),
                    state = "empty" \/ depends = heads[d]
             PROVE  /\ DOMAIN files' = DOMAIN files \cup {name[d]}
                    /\ \A f \in DOMAIN files :
                         f # name[d] => files'[f] = files[f]
                    /\ files'[name[d]].known = read[d]
                    /\ files'[name[d]].state # "empty" =>
                         files'[name[d]].depends = heads[d]
  BY StepFiles DEF FilesOf
<1>1. /\ files'[name[d]].known = read[d]
      /\ files'[name[d]].state = state
      /\ files'[name[d]].depends = depends
  BY FileFields DEF Added
<1> QED
  BY <1>1 DEF Added

\* Nobody can have read a migration that is put into the directory just now.
LEMMA OrderedKept ==
  ASSUME TypeInv, Ordered, NEW d \in Developers, StepOf(d)
  PROVE  Ordered'
<1>1. SUFFICES ASSUME files' # files
               PROVE  Ordered'
  BY DEF Ordered
<1>2. /\ phase[d] \in {"saving", "writing"}
      /\ DOMAIN files' = DOMAIN files \cup {name[d]}
      /\ files'[name[d]].known = read[d]
  BY <1>1, StepFields
<1>3. \A f \in DOMAIN files : files'[f].known = files[f].known
  BY DirectoryKept DEF Grows
<1> SUFFICES ASSUME NEW U \in SUBSET DOMAIN files', U # {}
             PROVE  /\ \E m \in U : \A y \in U : m \notin files'[y].known
                    /\ \E m \in U : files'[m].known \cap U = {}
  BY DEF Ordered
<1>4. CASE U \subseteq DOMAIN files
  BY <1>3, <1>4 DEF Ordered
<1>5. CASE ~(U \subseteq DOMAIN files)
  <2>1. name[d] \in U /\ name[d] \notin DOMAIN files
    BY <1>2, <1>5
  <2>2. /\ \A f \in DOMAIN files : name[d] \notin files[f].known
        /\ name[d] \notin read[d]
    BY <2>1 DEF TypeInv, Directory, Developer
  <2>3. \A y \in U : name[d] \notin files'[y].known
    BY <1>2, <1>3, <2>2
  <2>4. \E m \in U : files'[m].known \cap U = {}
    <3>1. CASE U = {name[d]}
      BY <1>2, <2>2, <3>1
    <3>2. CASE U # {name[d]}
      <4> DEFINE V == U \ {name[d]}
      <4>1. V \in SUBSET DOMAIN files /\ V # {}
        BY <1>2, <2>1, <3>2
      <4>2. PICK m \in V : files[m].known \cap V = {}
        <5> HIDE DEF V
        <5> QED
          BY <4>1 DEF Ordered
      <4>3. files'[m].known \cap U = {}
        BY <1>3, <2>2, <4>1, <4>2
      <4> QED
        BY <4>3
    <3> QED
      BY <3>1, <3>2
  <2> QED
    BY <2>1, <2>3, <2>4
<1> QED
  BY <1>4, <1>5

LEMMA DependsIsGraph ==
  ASSUME Directory
  PROVE  IsGraph(Depends, DOMAIN files)
BY DEF Directory, Depends, IsGraph

\* A migration keeps its ancestors when others come to be.
LEMMA AncestorsGrow ==
  ASSUME NEW D, NEW M, IsGraph(D, M), NEW E, NEW N, IsGraph(E, N),
         M \subseteq N, \A x \in M : D[x] \subseteq E[x], NEW f \in M
  PROVE  Ancestors(D, f) \subseteq Ancestors(E, f)
<1>1. DOMAIN D = M /\ DOMAIN E = N /\ \A x \in M : D[x] \subseteq M
  BY DEF IsGraph
<1>2. SUFFICES ASSUME NEW a \in Ancestors(D, f), NEW S \in SUBSET N,
                      \A x \in S \cup {f} : E[x] \subseteq S
               PROVE  a \in S
  BY <1>1 DEF Ancestors
<1>3. \A x \in (S \cap M) \cup {f} : D[x] \subseteq S \cap M
  BY <1>1, <1>2
<1>4. S \cap M \in SUBSET M
  OBVIOUS
<1>5. a \in S \cap M
  BY <1>1, <1>2, <1>3, <1>4 DEF Ancestors
<1> QED
  BY <1>5

\* Among any members of R there is one that is in known of none of them.
HasLast(known, R) ==
  \A U \in SUBSET R : U # {} => \E m \in U : \A y \in U : m \notin known[y]

\* The heads H of R: what is not one is what another of R depends on.
HasHeads(D, R, H) ==
  /\ R \subseteq DOMAIN D /\ H \subseteq R
  /\ \A x \in R : x \in H \/ \E y \in R : x \in D[y]

\* The heads of what was read have all of it among their ancestors: the last
\* of those that had not would be neither a head nor what another depends on.
LEMMA ReadIsReached ==
  ASSUME NEW D, NEW f \in DOMAIN D, NEW R, NEW known,
         HasHeads(D, R, D[f]), HasLast(known, R),
         \A y \in R : D[y] \subseteq known[y]
  PROVE  R \subseteq Ancestors(D, f)
<1>1. SUFFICES ASSUME NEW S \in SUBSET DOMAIN D,
                      \A x \in S \cup {f} : D[x] \subseteq S,
                      R \ S # {}
               PROVE  FALSE
  BY DEF Ancestors, HasHeads
<1>2. PICK m \in R \ S : \A y \in R \ S : m \notin known[y]
  <2>1. R \ S \in SUBSET R
    OBVIOUS
  <2> QED
    BY <1>1, <2>1 DEF HasLast
<1>3. m \notin D[f]
  BY <1>1
<1>4. PICK y \in R : m \in D[y]
  BY <1>3 DEF HasHeads
<1> QED
  BY <1>1, <1>2, <1>4

LEMMA ReachingKept ==
  ASSUME TypeInv, TypeInv', Ordered, Reaching, NEW d \in Developers, StepOf(d)
  PROVE  Reaching'
<1>1. Directory /\ Directory' /\ Developer(d)
  BY DEF TypeInv
<1>2. IsGraph(Depends, DOMAIN files)
  BY <1>1, DependsIsGraph
<1>3. IsGraph(Depends', DOMAIN files')
  BY <1>1 DEF Directory, Depends, IsGraph
<1>4. /\ DOMAIN files \subseteq DOMAIN files'
      /\ \A x \in DOMAIN files : /\ Depends[x] \subseteq Depends'[x]
                                 /\ files'[x].known = files[x].known
  BY DirectoryKept DEF Grows, Depends
<1>5. SUFFICES ASSUME NEW f \in DOMAIN files', files'[f].state # "empty"
               PROVE  files'[f].known \subseteq Ancestors(Depends', f)
  BY DEF Reaching
<1>6. CASE f \in DOMAIN files /\ files'[f] = files[f]
  <2>1. files[f].known \subseteq Ancestors(Depends, f)
    BY <1>5, <1>6 DEF Reaching
  <2>2. Ancestors(Depends, f) \subseteq Ancestors(Depends', f)
    BY <1>2, <1>3, <1>4, <1>6, AncestorsGrow
  <2> QED
    BY <1>6, <2>1, <2>2
<1>7. CASE ~(f \in DOMAIN files /\ files'[f] = files[f])
  <2>1. /\ f = name[d] /\ phase[d] \in {"saving", "writing"}
        /\ files'[f].depends = heads[d] /\ files'[f].known = read[d]
    <3>1. files' # files
      BY <1>7
    <3> QED
      BY <1>5, <1>7, <3>1, StepFields
  <2>2. f \notin read[d]
    BY <1>1, <2>1 DEF Directory
  <2> DEFINE known == [x \in DOMAIN files |-> files[x].known]
  <2>3. \A y \in read[d] : Depends'[y] \subseteq known[y]
    <3> TAKE y \in read[d]
    <3>1. y \in DOMAIN files /\ y \in DOMAIN files'
      BY <1>1, <1>4 DEF Developer
    <3>2. files'[y].depends \subseteq files'[y].known
      BY <1>1, <3>1 DEF Directory
    <3> QED
      BY <1>4, <3>1, <3>2 DEF Depends
  <2>4. HasLast(known, read[d])
    BY <1>1 DEF Ordered, Developer, HasLast
  <2>5. \A x \in read[d] :
          x \in heads[d] \/ \E y \in read[d] : x \in Depends'[y]
    <3>1. \A x \in read[d] :
            x \in heads[d] \/ \E y \in read[d] : x \in Depends[y]
      BY <1>1 DEF Developer, Depends
    <3> QED
      BY <1>1, <1>4, <3>1 DEF Developer
  <2>6. Depends'[f] = heads[d]
    BY <1>5, <2>1 DEF Depends
  <2>7. read[d] \subseteq DOMAIN files' /\ heads[d] \subseteq read[d]
    BY <1>1, <1>4 DEF Developer
  <2> HIDE DEF known
  <2>8. PICK D : D = Depends'
    OBVIOUS
  <2>9. f \in DOMAIN D /\ HasHeads(D, read[d], D[f])
    BY <1>3, <1>5, <2>5, <2>6, <2>7, <2>8 DEF HasHeads, IsGraph
  <2>10. \A y \in read[d] : D[y] \subseteq known[y]
    BY <2>3, <2>8
  <2>11. read[d] \subseteq Ancestors(D, f)
    BY <2>4, <2>9, <2>10, ReadIsReached
  <2> QED
    BY <2>1, <2>8, <2>11
<1> QED
  BY <1>6, <1>7

LEMMA InitNew == Init => NewInv
<1> SUFFICES ASSUME Init PROVE NewInv
  OBVIOUS
<1>1. files = [f \in Existing |-> File({}, "complete", {})]
  BY DEF Init
<1>2. DOMAIN files = Existing /\ \A f \in Existing : files[f].known = {}
  BY <1>1, FileFields
<1>3. Ordered
  BY <1>2 DEF Ordered
<1>4. Reaching
  BY <1>2 DEF Reaching
<1> QED
  BY <1>3, <1>4, InitType DEF NewInv

LEMMA StepNew == NewInv /\ [Next]_vars => NewInv'
<1> SUFFICES ASSUME NewInv, [Next]_vars PROVE NewInv'
  OBVIOUS
<1>1. TypeInv /\ TypeInv' /\ Ordered /\ Reaching
  BY StepType DEF NewInv
<1>2. ASSUME NEW d \in Developers, StepOf(d)
      PROVE  Ordered' /\ Reaching'
  BY <1>1, <1>2, OrderedKept, ReachingKept
<1>3. CASE UNCHANGED vars
  <2>1. files' = files
    BY <1>3 DEF vars, dirVars
  <2> QED
    BY <1>1, <2>1 DEF NewInv, Ordered, Reaching, Depends
<1> QED
  BY <1>1, <1>2, <1>3 DEF NewInv, Next, StepOf

LEMMA NewInvHolds == Spec => []NewInv
BY InitNew, StepNew, PTL DEF Spec

\* Whoever creates migrations, however many at once, makes no circle of
\* dependencies: topological_sort never refuses the directory.
THEOREM NeverCircularHolds == Spec => []NeverCircular
<1>1. NewInv => NeverCircular
  <2> SUFFICES ASSUME NewInv PROVE ~Circular(Depends, Sorted(DOMAIN files))
    BY DEF NeverCircular
  <2>1. Directory /\ Ordered
    BY DEF NewInv, TypeInv
  <2>2. /\ Sorted(DOMAIN files) \in Seq(DOMAIN files)
        /\ ToSet(Sorted(DOMAIN files)) = DOMAIN files
        /\ IsInjective(Sorted(DOMAIN files))
    BY <2>1, SortedMembers DEF Directory
  <2>3. Acyclic(Depends, DOMAIN files)
    <3> SUFFICES ASSUME NEW U \in SUBSET DOMAIN files, U # {}
                 PROVE  \E m \in U : Depends[m] \cap U = {}
      BY DEF Acyclic
    <3>1. PICK m \in U : files[m].known \cap U = {}
      BY <2>1 DEF Ordered
    <3>2. Depends[m] \subseteq files[m].known
      BY <2>1 DEF Directory, Depends
    <3> QED
      BY <3>1, <3>2
  <2>4. IsGraph(Depends, DOMAIN files)
    BY <2>1, DependsIsGraph
  <2> QED
    BY <2>2, <2>3, <2>4, NotCircular
<1> QED
  BY NewInvHolds, <1>1, PTL

\* A list that has what each member depends on before it has its ancestors
\* before it.
LEMMA AncestorsPrecede ==
  ASSUME NEW M, NEW D, IsGraph(D, M), NEW order \in Seq(M), IsInjective(order),
         \A x \in ToSet(order) : \A p \in D[x] : Precedes(order, p, x),
         NEW m \in ToSet(order), NEW a \in Ancestors(D, m)
  PROVE  Precedes(order, a, m)
<1> DEFINE S == {x \in M : Precedes(order, x, m)}
<1>1. DOMAIN D = M /\ \A x \in M : D[x] \subseteq M
  BY DEF IsGraph
<1>2. m \in M
  BY MembersOfSeq
<1>3. ASSUME NEW x \in S \cup {m}, NEW p \in D[x]
      PROVE  p \in S
  <2>1. x \in M /\ p \in M
    BY <1>1, <1>2
  <2>2. CASE x = m
    BY <2>1, <2>2
  <2>3. CASE x \in S
    <3>1. Precedes(order, x, m) /\ x \in ToSet(order)
      BY <2>3, PrecedesMembers
    <3>2. Precedes(order, p, x)
      BY <3>1
    <3> QED
      BY <2>1, <3>1, <3>2, PrecedesOnwards
  <2> QED
    BY <2>2, <2>3
<1>4. S \in SUBSET M
  OBVIOUS
<1>5. a \in S
  <2> HIDE DEF S
  <2> QED
    BY <1>1, <1>3, <1>4 DEF Ancestors
<1> QED
  BY <1>5

\* A new migration comes behind everything that its developer had read, in
\* every order topological_sort may return.
THEOREM CreationOrderKeptHolds == Spec => []CreationOrderKept
<1>1. NewInv => CreationOrderKept
  <2> DEFINE list == Sorted(DOMAIN files)
  <2> SUFFICES ASSUME NewInv, NEW order \in TopologicalSorts(Depends, list),
                      NEW i \in DOMAIN order, NEW j \in DOMAIN order,
                      files[order[j]].state # "empty",
                      order[i] \in files[order[j]].known
               PROVE  i < j
    BY DEF CreationOrderKept
  <2>1. Directory /\ Reaching
    BY DEF NewInv, TypeInv
  <2>2. /\ list \in Seq(DOMAIN files) /\ ToSet(list) = DOMAIN files
        /\ IsInjective(list)
    BY <2>1, SortedMembers DEF Directory
  <2>3. IsGraph(Depends, DOMAIN files)
    BY <2>1, DependsIsGraph
  <2> HIDE DEF list
  <2>4. /\ order \in Seq(DOMAIN files) /\ IsInjective(order)
        /\ \A x \in ToSet(order) : \A p \in Depends[x] \cap DOMAIN files :
             Precedes(order, p, x)
    BY <2>2, <2>3, SortedList
  <2>5. order[j] \in ToSet(order) /\ order[j] \in DOMAIN files
    BY <2>4 DEF ToSet
  <2>6. order[i] \in Ancestors(Depends, order[j])
    BY <2>1, <2>5 DEF Reaching
  <2>7. \A x \in ToSet(order) : \A p \in Depends[x] : Precedes(order, p, x)
    BY <2>3, <2>4, MembersOfSeq DEF IsGraph
  <2>8. Precedes(order, order[i], order[j])
    BY <2>3, <2>4, <2>5, <2>6, <2>7, AncestorsPrecede
  <2>9. PICK k, l \in DOMAIN order :
          k < l /\ order[k] = order[i] /\ order[l] = order[j]
    BY <2>8 DEF Precedes
  <2> QED
    BY <2>4, <2>9 DEF IsInjective
<1> QED
  BY NewInvHolds, <1>1, PTL
=============================================================================
