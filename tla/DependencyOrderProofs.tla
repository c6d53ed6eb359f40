------------------------ MODULE DependencyOrderProofs ------------------------
(***************************************************************************)
(* What ancestors, descendants and topological_sort return, for every      *)
(* dependency graph and every list of migrations.  The functions of        *)
(* DependencyOrder are recursive over the positions of a list; an          *)
(* induction over these positions is a statement about the least of them   *)
(* (UpTo).                                                                 *)
(***************************************************************************)
EXTENDS DependencyOrder, FiniteSetTheorems, WellFoundedInduction, TLAPS

\* Every nonempty set of numbers has a least member.
LEMMA LeastNumber ==
  ASSUME NEW T \in SUBSET Nat, T # {}
  PROVE  \E n \in T : \A m \in T : n <= m
<1> DEFINE R == OpToRel(<, Nat)
<1>1. IsWellFoundedOn(R, Nat)
  BY NatLessThanWellFounded
<1>2. PICK n \in T : \A m \in T : <<m, n>> \notin R
  <2> HIDE DEF R
  <2> QED
    BY <1>1, WFMin
<1>3. \A m \in T : ~(m < n)
  BY <1>2 DEF OpToRel
<1> QED
  BY <1>3

\* Induction up to a bound: what has 0 and with a number the next one.
LEMMA UpTo ==
  ASSUME NEW k \in Nat, NEW T, 0 \in T,
         \A n \in 1..k : n-1 \in T => n \in T
  PROVE  \A n \in 0..k : n \in T
<1> SUFFICES ASSUME (0..k) \ T # {} PROVE FALSE
  OBVIOUS
<1>1. (0..k) \ T \subseteq Nat
  OBVIOUS
<1>2. PICK n \in (0..k) \ T : \A m \in (0..k) \ T : n <= m
  BY <1>1, LeastNumber
<1>3. n # 0 /\ n \in 1..k /\ n-1 \in 0..k /\ ~(n <= n-1)
  BY <1>2
<1>4. n-1 \in T
  BY <1>2, <1>3
<1> QED
  BY <1>2, <1>3, <1>4

\* The function f starts with a and goes on as G says, up to k.
IsRun(f, k, St, a, G) ==
  /\ f \in [0..k -> St]
  /\ f[0] = a /\ \A n \in 1..k : f[n] = G[n][f[n-1]]

\* A function may be defined by its first value and by how each value follows
\* from the one before.
LEMMA Recursion ==
  ASSUME NEW k \in Nat, NEW St, NEW a \in St, NEW G \in [1..k -> [St -> St]]
  PROVE  \E f : IsRun(f, k, St, a, G)
<1> DEFINE T == {n \in 0..k : \E f : IsRun(f, n, St, a, G)}
<1>1. 0 \in T
  <2> DEFINE f == [i \in 0..0 |-> a]
  <2>1. IsRun(f, 0, St, a, G)
    BY DEF IsRun
  <2>2. 0 \in 0..k
    OBVIOUS
  <2> HIDE DEF f
  <2> QED
    BY <2>1, <2>2
<1>2. ASSUME NEW n \in 1..k, n-1 \in T
      PROVE  n \in T
  <2>1. PICK f : IsRun(f, n-1, St, a, G)
    BY <1>2
  <2> DEFINE g == [i \in 0..n |-> IF i = n THEN G[n][f[n-1]] ELSE f[i]]
  <2>2. n-1 \in 0..(n-1) /\ f[n-1] \in St
    BY <2>1 DEF IsRun
  <2>3. G[n][f[n-1]] \in St
    BY <2>2
  <2>4. g \in [0..n -> St]
    BY <2>1, <2>3 DEF IsRun
  <2>5. g[0] = a
    BY <2>1 DEF IsRun
  <2>6. ASSUME NEW i \in 1..n PROVE g[i] = G[i][g[i-1]]
    <3>1. i-1 \in 0..n /\ i-1 # n /\ g[i-1] = f[i-1]
      OBVIOUS
    <3>2. CASE i = n
      BY <3>1, <3>2
    <3>3. CASE i # n
      <4>1. i \in 1..(n-1) /\ g[i] = f[i]
        BY <3>3
      <4> QED
        BY <2>1, <3>1, <4>1 DEF IsRun
    <3> QED
      BY <3>2, <3>3
  <2>7. IsRun(g, n, St, a, G)
    BY <2>4, <2>5, <2>6 DEF IsRun
  <2>8. n \in 0..k
    OBVIOUS
  <2> HIDE DEF g
  <2> QED
    BY <2>7, <2>8
<1> HIDE DEF T
<1>3. k \in T
  <2>1. \A n \in 0..k : n \in T
    BY <1>1, <1>2, UpTo
  <2> QED
    BY <2>1
<1> QED
  BY <1>3 DEF T

-----------------------------------------------------------------------------
(* Sequences: their members, and which of them come first.                 *)

LEMMA MembersOfSeq ==
  ASSUME NEW T, NEW s \in Seq(T)
  PROVE  /\ ToSet(s) \subseteq T
         /\ DOMAIN s = 1..Len(s)
         /\ Len(s) \in Nat
         /\ \A i \in 1..Len(s) : s[i] \in ToSet(s)
         /\ \A x \in ToSet(s) : \E i \in 1..Len(s) : s[i] = x
BY DEF ToSet

LEMMA AppendMembers ==
  ASSUME NEW T, NEW s \in Seq(T), NEW x \in T
  PROVE  /\ Append(s, x) \in Seq(T)
         /\ Len(Append(s, x)) = Len(s) + 1
         /\ DOMAIN Append(s, x) = 1..(Len(s) + 1)
         /\ \A i \in 1..Len(s) : Append(s, x)[i] = s[i]
         /\ Append(s, x)[Len(s) + 1] = x
         /\ ToSet(Append(s, x)) = ToSet(s) \cup {x}
<1>1. /\ Append(s, x) \in Seq(T)
      /\ Len(Append(s, x)) = Len(s) + 1
      /\ DOMAIN Append(s, x) = 1..(Len(s) + 1)
      /\ \A i \in 1..Len(s) : Append(s, x)[i] = s[i]
      /\ Append(s, x)[Len(s) + 1] = x
  OBVIOUS
<1>2. ToSet(Append(s, x)) \subseteq ToSet(s) \cup {x}
  BY <1>1 DEF ToSet
<1>3. x \in ToSet(Append(s, x))
  BY <1>1 DEF ToSet
<1>4. ToSet(s) \subseteq ToSet(Append(s, x))
  BY <1>1 DEF ToSet
<1> QED
  BY <1>1, <1>2, <1>3, <1>4

LEMMA HeadTailMembers ==
  ASSUME NEW T, NEW s \in Seq(T), s # <<>>
  PROVE  /\ Head(s) \in T
         /\ Head(s) \in ToSet(s)
         /\ Tail(s) \in Seq(T)
         /\ Len(Tail(s)) = Len(s) - 1
         /\ \A i \in 1..(Len(s) - 1) : Tail(s)[i] = s[i + 1]
         /\ ToSet(s) = {Head(s)} \cup ToSet(Tail(s))
         /\ IsInjective(s) =>
              IsInjective(Tail(s)) /\ Head(s) \notin ToSet(Tail(s))
<1>1. /\ Head(s) = s[1]
      /\ Len(s) >= 1
      /\ Tail(s) \in Seq(T)
      /\ Len(Tail(s)) = Len(s) - 1
      /\ \A i \in 1..(Len(s) - 1) : Tail(s)[i] = s[i + 1]
  OBVIOUS
<1>2. /\ DOMAIN s = 1..Len(s)
      /\ DOMAIN Tail(s) = 1..(Len(s) - 1)
  BY <1>1
<1>3. Head(s) \in ToSet(s)
  BY <1>1, <1>2 DEF ToSet
<1>4. ToSet(Tail(s)) \subseteq ToSet(s)
  BY <1>1, <1>2 DEF ToSet
<1>5. ASSUME NEW x \in ToSet(s), x # Head(s)
      PROVE  x \in ToSet(Tail(s))
  <2>1. PICK i \in 1..Len(s) : s[i] = x
    BY <1>2 DEF ToSet
  <2>2. i - 1 \in 1..(Len(s) - 1)
    BY <2>1, <1>1, <1>5
  <2>3. Tail(s)[i - 1] = x
    BY <2>1, <2>2, <1>1
  <2> QED
    BY <2>2, <2>3, <1>2 DEF ToSet
<1>6. IsInjective(s) => IsInjective(Tail(s))
  BY <1>1, <1>2 DEF IsInjective
<1>7. IsInjective(s) => Head(s) \notin ToSet(Tail(s))
  BY <1>1, <1>2 DEF IsInjective, ToSet
<1> QED
  BY <1>1, <1>3, <1>4, <1>5, <1>6, <1>7

LEMMA AppendOnce ==
  ASSUME NEW T, NEW s \in Seq(T), NEW x \in T, x \notin ToSet(s), IsInjective(s)
  PROVE  IsInjective(Append(s, x))
BY AppendMembers, MembersOfSeq DEF IsInjective

\* Appending to a concatenation is appending to its second part.
AppendsToSecond(s, t, x) == Append(s \o t, x) = s \o Append(t, x)

LEMMA AppendBehind ==
  ASSUME NEW T, NEW s \in Seq(T), NEW t \in Seq(T), NEW x \in T
  PROVE  AppendsToSecond(s, t, x)
<1> DEFINE u == Append(s \o t, x)
           v == s \o Append(t, x)
<1>1. /\ u \in Seq(T) /\ v \in Seq(T)
      /\ Len(u) = Len(s) + Len(t) + 1 /\ Len(v) = Len(u)
  OBVIOUS
<1>2. \A i \in 1..Len(u) : u[i] = v[i]
  OBVIOUS
<1> HIDE DEF u, v
<1>3. u = v
  BY <1>1, <1>2
<1> QED
  BY <1>3 DEF u, v, AppendsToSecond

LEMMA InjectivePrecedes ==
  ASSUME NEW T, NEW s \in Seq(T)
  PROVE  IsInjective(s) <=> \A x : ~Precedes(s, x, x)
<1>1. \A i \in DOMAIN s : i \in Nat
  OBVIOUS
<1>2. IsInjective(s) => \A x : ~Precedes(s, x, x)
  BY <1>1 DEF IsInjective, Precedes
<1>3. (\A x : ~Precedes(s, x, x)) => IsInjective(s)
  <2> SUFFICES ASSUME \A x : ~Precedes(s, x, x),
                      NEW i \in DOMAIN s, NEW j \in DOMAIN s, s[i] = s[j], i # j
               PROVE  FALSE
    BY DEF IsInjective
  <2>1. i < j \/ j < i
    BY <1>1
  <2> QED
    BY <2>1 DEF Precedes
<1> QED
  BY <1>2, <1>3

LEMMA PrecedesMembers ==
  ASSUME NEW s, NEW x, NEW y, Precedes(s, x, y)
  PROVE  x \in ToSet(s) /\ y \in ToSet(s)
BY DEF Precedes, ToSet

\* In a list without repetitions there is one order.
LEMMA PrecedesIsOrder ==
  ASSUME NEW T, NEW s \in Seq(T), IsInjective(s), NEW x, NEW y
  PROVE  /\ ~(Precedes(s, x, y) /\ Precedes(s, y, x))
         /\ x \in ToSet(s) /\ y \in ToSet(s) /\ x # y =>
              Precedes(s, x, y) \/ Precedes(s, y, x)
<1>1. \A i \in DOMAIN s : i \in Nat
  OBVIOUS
<1>2. ~(Precedes(s, x, y) /\ Precedes(s, y, x))
  BY <1>1 DEF Precedes, IsInjective
<1>3. x \in ToSet(s) /\ y \in ToSet(s) /\ x # y =>
        Precedes(s, x, y) \/ Precedes(s, y, x)
  <2> SUFFICES ASSUME NEW i \in DOMAIN s, NEW j \in DOMAIN s, s[i] # s[j]
               PROVE  Precedes(s, s[i], s[j]) \/ Precedes(s, s[j], s[i])
    BY DEF ToSet
  <2>1. i < j \/ j < i
    BY <1>1
  <2> QED
    BY <2>1 DEF Precedes
<1> QED
  BY <1>2, <1>3

LEMMA PrecedesOnwards ==
  ASSUME NEW T, NEW s \in Seq(T), IsInjective(s), NEW x, NEW y, NEW z,
         Precedes(s, x, y), Precedes(s, y, z)
  PROVE  Precedes(s, x, z)
<1>1. \A i \in DOMAIN s : i \in Nat
  OBVIOUS
<1>2. PICK i, j \in DOMAIN s : i < j /\ s[i] = x /\ s[j] = y
  BY DEF Precedes
<1>3. PICK k, l \in DOMAIN s : k < l /\ s[k] = y /\ s[l] = z
  BY DEF Precedes
<1>4. j = k
  BY <1>2, <1>3 DEF IsInjective
<1>5. i < l
  BY <1>1, <1>2, <1>3, <1>4
<1> QED
  BY <1>2, <1>3, <1>5 DEF Precedes

LEMMA PrecedesAppend ==
  ASSUME NEW T, NEW s \in Seq(T), NEW z \in T, NEW x, NEW y
  PROVE  Precedes(Append(s, z), x, y) <=>
           Precedes(s, x, y) \/ (x \in ToSet(s) /\ y = z)
<1> DEFINE t == Append(s, z)
<1>1. /\ DOMAIN s = 1..Len(s) /\ Len(s) \in Nat
      /\ DOMAIN t = 1..(Len(s) + 1)
      /\ \A i \in 1..Len(s) : t[i] = s[i]
      /\ t[Len(s) + 1] = z
  BY AppendMembers, MembersOfSeq
<1> HIDE DEF t
<1>2. ASSUME Precedes(t, x, y)
      PROVE  Precedes(s, x, y) \/ (x \in ToSet(s) /\ y = z)
  <2>1. PICK i, j \in DOMAIN t : i < j /\ t[i] = x /\ t[j] = y
    BY <1>2 DEF Precedes
  <2>2. i \in DOMAIN s /\ s[i] = x
    BY <1>1, <2>1
  <2>3. (j \in DOMAIN s /\ s[j] = y) \/ y = z
    BY <1>1, <2>1
  <2> QED
    BY <2>1, <2>2, <2>3 DEF Precedes, ToSet
<1>3. ASSUME Precedes(s, x, y)
      PROVE  Precedes(t, x, y)
  <2>1. PICK i, j \in DOMAIN s : i < j /\ s[i] = x /\ s[j] = y
    BY <1>3 DEF Precedes
  <2>2. i \in DOMAIN t /\ j \in DOMAIN t /\ t[i] = x /\ t[j] = y
    BY <1>1, <2>1
  <2> QED
    BY <2>1, <2>2 DEF Precedes
<1>4. ASSUME x \in ToSet(s), y = z
      PROVE  Precedes(t, x, y)
  <2>1. PICK i \in DOMAIN s : s[i] = x
    BY <1>4 DEF ToSet
  <2>2. /\ i < Len(s) + 1 /\ i \in DOMAIN t /\ t[i] = x
        /\ Len(s) + 1 \in DOMAIN t
    BY <1>1, <2>1
  <2> QED
    BY <1>1, <1>4, <2>2 DEF Precedes
<1> QED
  BY <1>2, <1>3, <1>4 DEF t

LEMMA PrecedesTail ==
  ASSUME NEW T, NEW s \in Seq(T), s # <<>>, NEW x, NEW y
  PROVE  /\ Precedes(Tail(s), x, y) => Precedes(s, x, y)
         /\ Precedes(s, x, y) => x = Head(s) \/ Precedes(Tail(s), x, y)
<1> DEFINE t == Tail(s)
<1>1. /\ DOMAIN s = 1..Len(s) /\ Len(s) \in Nat
      /\ DOMAIN t = 1..(Len(s) - 1)
      /\ \A i \in 1..(Len(s) - 1) : t[i] = s[i + 1]
      /\ Head(s) = s[1]
  BY HeadTailMembers, MembersOfSeq
<1> HIDE DEF t
<1>2. ASSUME Precedes(t, x, y)
      PROVE  Precedes(s, x, y)
  <2>1. PICK i, j \in DOMAIN t : i < j /\ t[i] = x /\ t[j] = y
    BY <1>2 DEF Precedes
  <2>2. /\ i + 1 \in DOMAIN s /\ j + 1 \in DOMAIN s /\ i + 1 < j + 1
        /\ s[i + 1] = x /\ s[j + 1] = y
    BY <1>1, <2>1
  <2> QED
    BY <2>2 DEF Precedes
<1>3. ASSUME Precedes(s, x, y), x # Head(s)
      PROVE  Precedes(t, x, y)
  <2>1. PICK i, j \in DOMAIN s : i < j /\ s[i] = x /\ s[j] = y
    BY <1>3 DEF Precedes
  <2>2. i # 1
    BY <1>1, <1>3, <2>1
  <2>3. i - 1 \in DOMAIN t /\ j - 1 \in DOMAIN t /\ i - 1 < j - 1
    BY <1>1, <2>1, <2>2
  <2>4. t[i - 1] = s[i] /\ t[j - 1] = s[j]
    BY <1>1, <2>1, <2>3
  <2> QED
    BY <2>1, <2>3, <2>4 DEF Precedes
<1> QED
  BY <1>2, <1>3 DEF t

LEMMA ConcatMembers ==
  ASSUME NEW T, NEW s \in Seq(T), NEW t \in Seq(T), NEW x, NEW y
  PROVE  /\ s \o t \in Seq(T)
         /\ ToSet(s \o t) = ToSet(s) \cup ToSet(t)
         /\ Precedes(s \o t, x, y) <=>
              \/ Precedes(s, x, y) \/ Precedes(t, x, y)
              \/ x \in ToSet(s) /\ y \in ToSet(t)
<1> DEFINE u == s \o t
<1>1. /\ DOMAIN s = 1..Len(s) /\ Len(s) \in Nat
      /\ DOMAIN t = 1..Len(t) /\ Len(t) \in Nat
      /\ DOMAIN u = 1..(Len(s) + Len(t))
      /\ \A i \in DOMAIN u :
           u[i] = IF i <= Len(s) THEN s[i] ELSE t[i - Len(s)]
      /\ u \in Seq(T)
  OBVIOUS
<1> HIDE DEF u
<1>2. \A i \in DOMAIN s : i \in DOMAIN u /\ i <= Len(s) /\ u[i] = s[i]
  BY <1>1
<1>3. \A j \in DOMAIN t :
        /\ j + Len(s) \in DOMAIN u /\ ~(j + Len(s) <= Len(s))
        /\ u[j + Len(s)] = t[j]
  <2> TAKE j \in DOMAIN t
  <2>1. j + Len(s) \in DOMAIN u /\ ~(j + Len(s) <= Len(s))
    BY <1>1
  <2>2. (j + Len(s)) - Len(s) = j
    BY <1>1
  <2> QED
    BY <1>1, <2>1, <2>2
<1>4. \A i \in DOMAIN u :
        \/ i \in DOMAIN s /\ u[i] = s[i]
        \/ ~(i <= Len(s)) /\ i - Len(s) \in DOMAIN t /\ u[i] = t[i - Len(s)]
  BY <1>1
<1>5. ToSet(u) = ToSet(s) \cup ToSet(t)
  <2>1. ToSet(u) \subseteq ToSet(s) \cup ToSet(t)
    BY <1>4 DEF ToSet
  <2>2. ToSet(s) \subseteq ToSet(u)
    BY <1>2 DEF ToSet
  <2>3. ToSet(t) \subseteq ToSet(u)
    BY <1>3 DEF ToSet
  <2> QED
    BY <2>1, <2>2, <2>3
<1>6. ASSUME Precedes(u, x, y)
      PROVE  \/ Precedes(s, x, y) \/ Precedes(t, x, y)
             \/ x \in ToSet(s) /\ y \in ToSet(t)
  <2>1. PICK i, j \in DOMAIN u : i < j /\ u[i] = x /\ u[j] = y
    BY <1>6 DEF Precedes
  <2>2. CASE j <= Len(s)
    <3>1. /\ i \in DOMAIN s /\ j \in DOMAIN s /\ s[i] = x /\ s[j] = y
      BY <1>1, <2>1, <2>2
    <3> QED
      BY <2>1, <3>1 DEF Precedes
  <2>3. CASE ~(i <= Len(s))
    <3>1. /\ i - Len(s) \in DOMAIN t /\ j - Len(s) \in DOMAIN t
          /\ i - Len(s) < j - Len(s)
          /\ t[i - Len(s)] = x /\ t[j - Len(s)] = y
      BY <1>1, <2>1, <2>3
    <3> QED
      BY <3>1 DEF Precedes
  <2>4. CASE i <= Len(s) /\ ~(j <= Len(s))
    <3>1. /\ i \in DOMAIN s /\ s[i] = x
          /\ j - Len(s) \in DOMAIN t /\ t[j - Len(s)] = y
      BY <1>1, <2>1, <2>4
    <3> QED
      BY <3>1 DEF ToSet
  <2> QED
    BY <2>2, <2>3, <2>4
<1>7. Precedes(s, x, y) => Precedes(u, x, y)
  BY <1>2 DEF Precedes
<1>8. ASSUME Precedes(t, x, y)
      PROVE  Precedes(u, x, y)
  <2>1. PICK i, j \in DOMAIN t : i < j /\ t[i] = x /\ t[j] = y
    BY <1>8 DEF Precedes
  <2>2. i + Len(s) < j + Len(s)
    BY <1>1, <2>1
  <2> QED
    BY <1>3, <2>1, <2>2 DEF Precedes
<1>9. ASSUME x \in ToSet(s), y \in ToSet(t)
      PROVE  Precedes(u, x, y)
  <2>1. PICK i \in DOMAIN s, j \in DOMAIN t : s[i] = x /\ t[j] = y
    BY <1>9 DEF ToSet
  <2>2. i < j + Len(s)
    BY <1>1, <2>1
  <2> QED
    BY <1>2, <1>3, <2>1, <2>2 DEF Precedes
<1> QED
  BY <1>1, <1>5, <1>6, <1>7, <1>8, <1>9 DEF u

LEMMA ReverseMembers ==
  ASSUME NEW T, NEW s \in Seq(T), NEW x, NEW y
  PROVE  /\ Reverse(s) \in Seq(T)
         /\ ToSet(Reverse(s)) = ToSet(s)
         /\ Precedes(Reverse(s), x, y) <=> Precedes(s, y, x)
<1> DEFINE k == Len(s)
           u == Reverse(s)
<1>1. k \in Nat /\ DOMAIN s = 1..k /\ DOMAIN u = 1..k
  BY DEF Reverse
<1>2. \A i \in 1..k : (k - i) + 1 \in 1..k /\ u[i] = s[(k - i) + 1]
  BY DEF Reverse
<1>3. u \in Seq(T)
  <2>1. u = [i \in 1..k |-> s[(k - i) + 1]]
    BY DEF Reverse
  <2>2. \A i \in 1..k : s[(k - i) + 1] \in T
    BY <1>1, <1>2
  <2> HIDE DEF u
  <2> QED
    BY <1>1, <2>1, <2>2
<1> HIDE DEF k, u
<1>4. \A i \in 1..k : s[i] = u[(k - i) + 1]
  <2> TAKE i \in 1..k
  <2>1. (k - i) + 1 \in 1..k /\ (k - ((k - i) + 1)) + 1 = i
    BY <1>1
  <2> QED
    BY <1>2, <2>1
<1>5. ToSet(u) = ToSet(s)
  BY <1>1, <1>2, <1>4 DEF ToSet
<1>6. \A i, j \in 1..k : i < j <=> (k - j) + 1 < (k - i) + 1
  BY <1>1
<1>7. Precedes(u, x, y) => Precedes(s, y, x)
  BY <1>1, <1>2, <1>6 DEF Precedes
<1>8. Precedes(s, y, x) => Precedes(u, x, y)
  BY <1>1, <1>2, <1>4, <1>6 DEF Precedes
<1> QED
  BY <1>3, <1>5, <1>7, <1>8 DEF u

-----------------------------------------------------------------------------
\* The list Only(list, P) as it grows, position by position.
IsKept(kept, list, P) ==
  /\ kept \in [0..Len(list) -> Seq(ToSet(list) \cap P)]
  /\ kept[0] = <<>>
  /\ \A n \in 1..Len(list) :
       kept[n] = IF list[n] \in P THEN Append(kept[n-1], list[n]) ELSE kept[n-1]

LEMMA OnlyGrows ==
  ASSUME NEW M, NEW list \in Seq(M), NEW P
  PROVE  \E kept : IsKept(kept, list, P) /\ Only(list, P) = kept[Len(list)]
<1> DEFINE k == Len(list)
           St == Seq(ToSet(list) \cap P)
           G == [n \in 1..k |-> [s \in St |->
                   IF list[n] \in P THEN Append(s, list[n]) ELSE s]]
           Def(f) == f = [n \in 0..k |->
                            IF n = 0 THEN <<>>
                            ELSE IF list[n] \in P THEN Append(f[n-1], list[n])
                            ELSE f[n-1]]
<1>1. k \in Nat
  OBVIOUS
<1>3. G \in [1..k -> [St -> St]]
  <2> SUFFICES ASSUME NEW n \in 1..k, NEW s \in St
               PROVE  (IF list[n] \in P THEN Append(s, list[n]) ELSE s) \in St
    OBVIOUS
  <2>1. list[n] \in ToSet(list)
    BY DEF ToSet
  <2> QED
    BY <2>1
<1>4. PICK f : IsRun(f, k, St, <<>>, G)
  <2>1. <<>> \in St
    OBVIOUS
  <2> HIDE DEF k, St, G
  <2> QED
    BY <1>1, <1>3, <2>1, Recursion
<1>5. ASSUME NEW n \in 1..k
      PROVE  f[n] = IF list[n] \in P THEN Append(f[n-1], list[n]) ELSE f[n-1]
  <2>1. n-1 \in 0..k /\ f[n-1] \in St
    BY <1>4 DEF IsRun
  <2> QED
    BY <1>4, <2>1 DEF IsRun
<1>6. Def(f)
  <2>1. \A n \in 0..k :
          f[n] = IF n = 0 THEN <<>>
                 ELSE IF list[n] \in P THEN Append(f[n-1], list[n])
                 ELSE f[n-1]
    <3> TAKE n \in 0..k
    <3>1. CASE n = 0
      BY <1>4, <3>1 DEF IsRun
    <3>2. CASE n # 0
      <4>1. n \in 1..k
        BY <3>2
      <4> QED
        BY <1>5, <3>2, <4>1
    <3> QED
      BY <3>1, <3>2
  <2> QED
    BY <1>4, <2>1 DEF IsRun
<1> DEFINE g == CHOOSE g : Def(g)
<1>7. Def(g)
  BY <1>6
<1>8. Only(list, P) = g[k]
  BY DEF Only
<1> HIDE DEF g
<1>9. \A n \in 0..k : g[n] = f[n]
  <2> DEFINE T == {n \in 0..k : g[n] = f[n]}
  <2>1. 0 \in T
    BY <1>1, <1>4, <1>7 DEF IsRun
  <2>2. ASSUME NEW n \in 1..k, n-1 \in T PROVE n \in T
    <3>1. g[n-1] = f[n-1] /\ n \in 0..k /\ n # 0
      BY <2>2
    <3>2. g[n] = IF list[n] \in P THEN Append(g[n-1], list[n]) ELSE g[n-1]
      BY <1>7, <3>1
    <3> QED
      BY <1>5, <3>1, <3>2
  <2> HIDE DEF T
  <2>3. \A n \in 0..k : n \in T
    BY <1>1, <2>1, <2>2, UpTo
  <2> QED
    BY <2>3 DEF T
<1>10. IsKept(f, list, P)
  BY <1>4, <1>5 DEF IsKept, IsRun
<1> QED
  BY <1>1, <1>8, <1>9, <1>10

\* Only keeps the members that are in P, and their order.
LEMMA OnlyMembers ==
  ASSUME NEW M, NEW list \in Seq(M), NEW P
  PROVE  /\ Only(list, P) \in Seq(ToSet(list) \cap P)
         /\ ToSet(Only(list, P)) = ToSet(list) \cap P
         /\ \A x, y : Precedes(Only(list, P), x, y) <=>
                        Precedes(list, x, y) /\ x \in P /\ y \in P
         /\ IsInjective(list) => IsInjective(Only(list, P))
<1> DEFINE k == Len(list)
           K == ToSet(list) \cap P
<1>1. k \in Nat /\ DOMAIN list = 1..k /\ \A n \in 1..k : list[n] \in ToSet(list)
  BY DEF ToSet
<1>2. PICK kept : IsKept(kept, list, P) /\ Only(list, P) = kept[k]
  BY OnlyGrows
<1>3. \A n \in 0..k : kept[n] \in Seq(K)
  BY <1>2 DEF IsKept
<1> DEFINE Holds(n) == ToSet(kept[n]) = {list[i] : i \in 1..n} \cap P
           Ordered(n) ==
             \A x, y : Precedes(kept[n], x, y) <=>
               /\ x \in P /\ y \in P
               /\ \E i, j \in 1..n : i < j /\ list[i] = x /\ list[j] = y
           Good == {n \in 0..k : Holds(n) /\ Ordered(n)}
<1>4. 0 \in Good
  <2>1. kept[0] = <<>>
    BY <1>2 DEF IsKept
  <2>2. Holds(0) /\ Ordered(0)
    BY <2>1 DEF ToSet, Precedes
  <2> QED
    BY <1>1, <2>2
<1>5. ASSUME NEW n \in 1..k, n-1 \in Good
      PROVE  n \in Good
  <2> DEFINE s == kept[n-1]
             z == list[n]
  <2>1. n-1 \in 0..k /\ n \in 0..k /\ n \in Nat /\ Holds(n-1) /\ Ordered(n-1)
    BY <1>5
  <2>2. \A i : i \in 1..n <=> i \in 1..(n-1) \/ i = n
    BY <2>1
  <2>3. s \in Seq(K)
    BY <1>3, <2>1
  <2>4. {list[i] : i \in 1..n} = {list[i] : i \in 1..(n-1)} \cup {z}
    BY <2>2
  <2>5. \A x, y :
          (\E i, j \in 1..n : i < j /\ list[i] = x /\ list[j] = y) <=>
            \/ \E i, j \in 1..(n-1) : i < j /\ list[i] = x /\ list[j] = y
            \/ y = z /\ \E i \in 1..(n-1) : list[i] = x
    BY <2>1
  <2>6. CASE z \in P
    <3>1. kept[n] = Append(s, z) /\ z \in K
      BY <1>1, <1>2, <2>6 DEF IsKept
    <3>2. ToSet(kept[n]) = ToSet(s) \cup {z}
      BY <2>3, <3>1, AppendMembers
    <3>3. \A x, y : Precedes(kept[n], x, y) <=>
                      Precedes(s, x, y) \/ (x \in ToSet(s) /\ y = z)
      BY <2>3, <3>1, PrecedesAppend
    <3>4. Holds(n)
      BY <2>1, <2>4, <2>6, <3>2
    <3>5. \A x : x \in ToSet(s) <=> x \in P /\ \E i \in 1..(n-1) : list[i] = x
      BY <2>1
    <3>6. Ordered(n)
      <4> SUFFICES ASSUME NEW x, NEW y
                   PROVE  Precedes(kept[n], x, y) <=>
                            /\ x \in P /\ y \in P
                            /\ \E i, j \in 1..n :
                                 i < j /\ list[i] = x /\ list[j] = y
        OBVIOUS
      <4>1. Precedes(kept[n], x, y) <=>
              Precedes(s, x, y) \/ (x \in ToSet(s) /\ y = z)
        BY <3>3
      <4>2. Precedes(s, x, y) <=>
              /\ x \in P /\ y \in P
              /\ \E i, j \in 1..(n-1) : i < j /\ list[i] = x /\ list[j] = y
        BY <2>1
      <4>3. x \in ToSet(s) <=> x \in P /\ \E i \in 1..(n-1) : list[i] = x
        BY <3>5
      <4>4. (\E i, j \in 1..n : i < j /\ list[i] = x /\ list[j] = y) <=>
              \/ \E i, j \in 1..(n-1) : i < j /\ list[i] = x /\ list[j] = y
              \/ y = z /\ \E i \in 1..(n-1) : list[i] = x
        BY <2>5
      <4> DEFINE Q == \E i, j \in 1..(n-1) : i < j /\ list[i] = x /\ list[j] = y
                 Q1 == \E i, j \in 1..n : i < j /\ list[i] = x /\ list[j] = y
                 R == \E i \in 1..(n-1) : list[i] = x
      <4> HIDE DEF Q, Q1, R, s
      <4>5. (x \in P /\ y \in P /\ Q1) <=>
              (x \in P /\ y \in P /\ Q) \/ (x \in P /\ R /\ y = z)
        BY <4>4, <2>6 DEF Q, Q1, R
      <4> QED
        BY <4>1, <4>2, <4>3, <4>5 DEF Q, Q1, R
    <3> QED
      BY <2>1, <3>4, <3>6
  <2>7. CASE z \notin P
    <3>1. kept[n] = s
      BY <1>1, <1>2, <2>7 DEF IsKept
    <3>2. Holds(n)
      BY <2>1, <2>4, <2>7, <3>1
    <3>3. Ordered(n)
      BY <2>1, <2>5, <2>7, <3>1
    <3> QED
      BY <2>1, <3>2, <3>3
  <2> QED
    BY <2>6, <2>7
<1> HIDE DEF Good
<1>6. \A n \in 0..k : n \in Good
  BY <1>1, <1>4, <1>5, UpTo
<1>7. Holds(k) /\ Ordered(k) /\ k \in 0..k
  <2>1. k \in 0..k
    BY <1>1
  <2>2. k \in Good
    BY <1>6, <2>1
  <2> HIDE DEF k
  <2> QED
    BY <2>1, <2>2 DEF Good
<1>8. ToSet(kept[k]) = K
  BY <1>1, <1>7 DEF ToSet
<1>9. \A x, y : Precedes(kept[k], x, y) <=>
                  Precedes(list, x, y) /\ x \in P /\ y \in P
  <2>1. \A x, y : Precedes(list, x, y) <=>
                    \E i, j \in 1..k : i < j /\ list[i] = x /\ list[j] = y
    BY <1>1 DEF Precedes
  <2>2. Ordered(k)
    BY <1>7
  <2> HIDE DEF k
  <2> QED
    BY <2>1, <2>2
<1>10. IsInjective(list) => IsInjective(kept[k])
  BY <1>3, <1>7, <1>9, InjectivePrecedes
<1> QED
  BY <1>2, <1>3, <1>7, <1>8, <1>9, <1>10

-----------------------------------------------------------------------------
(* The part of a list that has the members P, in the order of the list.    *)

IsPart(q, list, P) ==
  /\ q \in Seq(ToSet(list)) /\ IsInjective(q)
  /\ ToSet(q) = P
  /\ \A x, y : Precedes(q, x, y) <=> x \in P /\ y \in P /\ Precedes(list, x, y)

LEMMA OnlyKeepsPart ==
  ASSUME NEW M, NEW list \in Seq(M), IsInjective(list), NEW P
  PROVE  IsPart(Only(list, P), list, ToSet(list) \cap P)
<1>1. /\ Only(list, P) \in Seq(ToSet(list) \cap P)
      /\ ToSet(Only(list, P)) = ToSet(list) \cap P
      /\ \A x, y : Precedes(Only(list, P), x, y) <=>
                     Precedes(list, x, y) /\ x \in P /\ y \in P
      /\ IsInjective(Only(list, P))
  BY OnlyMembers
<1>2. \A x, y : Precedes(list, x, y) => x \in ToSet(list) /\ y \in ToSet(list)
  BY PrecedesMembers
<1>3. Only(list, P) \in Seq(ToSet(list))
  BY <1>1
<1> QED
  BY <1>1, <1>2, <1>3 DEF IsPart

LEMMA NothingIsPart ==
  ASSUME NEW list
  PROVE  IsPart(<<>>, list, {})
<1>1. ToSet(<<>>) = {} /\ IsInjective(<<>>) /\ <<>> \in Seq(ToSet(list))
  BY DEF ToSet, IsInjective
<1>2. \A x, y : ~Precedes(<<>>, x, y)
  BY DEF Precedes
<1> QED
  BY <1>1, <1>2 DEF IsPart

\* A part grows by what comes behind its members in the list.
LEMMA PartGrows ==
  ASSUME NEW M, NEW list \in Seq(M), IsInjective(list), NEW q, NEW P,
         IsPart(q, list, P), NEW m \in ToSet(list), m \notin P,
         \A x \in P : Precedes(list, x, m)
  PROVE  IsPart(Append(q, m), list, P \cup {m})
<1>1. /\ q \in Seq(ToSet(list)) /\ IsInjective(q) /\ ToSet(q) = P
      /\ \A x, y : Precedes(q, x, y) <=>
                     x \in P /\ y \in P /\ Precedes(list, x, y)
  BY DEF IsPart
<1>2. /\ Append(q, m) \in Seq(ToSet(list))
      /\ ToSet(Append(q, m)) = P \cup {m}
      /\ IsInjective(Append(q, m))
  BY <1>1, AppendMembers, AppendOnce
<1>3. \A x, y : Precedes(Append(q, m), x, y) <=>
                  Precedes(q, x, y) \/ (x \in P /\ y = m)
  BY <1>1, PrecedesAppend
<1>4. \A x, y : ~(Precedes(list, x, y) /\ Precedes(list, y, x))
  BY PrecedesIsOrder
<1>5. \A x, y : Precedes(Append(q, m), x, y) <=>
                  /\ x \in P \cup {m} /\ y \in P \cup {m}
                  /\ Precedes(list, x, y)
  BY <1>1, <1>3, <1>4
<1> QED
  BY <1>2, <1>5 DEF IsPart

\* A list has one part with given members.
LEMMA SamePart ==
  ASSUME NEW M, NEW list \in Seq(M), NEW P, NEW q, NEW r,
         IsPart(q, list, P), IsPart(r, list, P)
  PROVE  q = r
<1>1. ASSUME NEW s, NEW t, IsPart(s, list, P), IsPart(t, list, P)
      PROVE  \A i \in DOMAIN s : i \in DOMAIN t /\ s[i] = t[i]
  <2>1. /\ s \in Seq(ToSet(list)) /\ t \in Seq(ToSet(list))
        /\ IsInjective(s) /\ IsInjective(t)
        /\ ToSet(s) = ToSet(t)
        /\ \A x, y : Precedes(s, x, y) <=> Precedes(t, x, y)
    BY <1>1 DEF IsPart
  <2>2. /\ DOMAIN s = 1..Len(s) /\ Len(s) \in Nat
        /\ DOMAIN t = 1..Len(t) /\ Len(t) \in Nat
    BY <2>1
  <2> DEFINE I == {i \in DOMAIN s : ~(i \in DOMAIN t /\ s[i] = t[i])}
  <2>3. SUFFICES ASSUME I # {} PROVE FALSE
    OBVIOUS
  <2>4. I \in SUBSET Nat
    BY <2>2
  <2>5. PICK i \in I : \A j \in I : i <= j
    <3> HIDE DEF I
    <3> QED
      BY <2>3, <2>4, LeastNumber
  <2>6. \A j \in DOMAIN s : j < i => j \in DOMAIN t /\ s[j] = t[j]
    BY <2>2, <2>5
  <2>7. i \in DOMAIN s /\ s[i] \in ToSet(t)
    BY <2>1, <2>5 DEF ToSet
  <2>8. PICK k \in DOMAIN t : t[k] = s[i]
    BY <2>7 DEF ToSet
  <2>9. i < k
    <3>1. k # i
      BY <2>5, <2>8
    <3>2. ~(k < i)
      <4> SUFFICES ASSUME k < i PROVE FALSE
        OBVIOUS
      <4>1. k \in DOMAIN s
        BY <2>2, <2>7
      <4> QED
        BY <2>1, <2>2, <2>6, <2>7, <2>8, <4>1 DEF IsInjective
    <3> QED
      BY <2>2, <2>7, <3>1, <3>2
  <2>10. i \in DOMAIN t
    BY <2>2, <2>7, <2>9
  <2>11. Precedes(t, t[i], s[i])
    BY <2>8, <2>9, <2>10 DEF Precedes
  <2>12. PICK l \in DOMAIN s : s[l] = t[i]
    BY <2>1, <2>10 DEF ToSet
  <2>13. i < l
    <3>1. l # i
      BY <2>5, <2>10, <2>12
    <3>2. ~(l < i)
      <4> SUFFICES ASSUME l < i PROVE FALSE
        OBVIOUS
      <4>1. l \in DOMAIN t /\ t[l] = t[i]
        BY <2>6, <2>12
      <4> QED
        BY <2>1, <2>2, <2>10, <4>1 DEF IsInjective
    <3> QED
      BY <2>2, <2>7, <3>1, <3>2
  <2>14. Precedes(s, s[i], t[i])
    BY <2>7, <2>12, <2>13 DEF Precedes
  <2> QED
    BY <2>1, <2>11, <2>14, PrecedesIsOrder
<1>2. /\ \A i \in DOMAIN q : i \in DOMAIN r /\ q[i] = r[i]
      /\ \A i \in DOMAIN r : i \in DOMAIN q /\ r[i] = q[i]
  BY <1>1
<1>3. q \in Seq(ToSet(list)) /\ r \in Seq(ToSet(list))
  BY DEF IsPart
<1>4. Len(q) = Len(r)
  BY <1>2, <1>3
<1> QED
  BY <1>2, <1>3, <1>4

\* A list of SetToSeqs holds each member of the set, once.
LEMMA ListOfSet ==
  ASSUME NEW R, IsFiniteSet(R), NEW list \in SetToSeqs(R)
  PROVE  /\ list \in Seq(R)
         /\ ToSet(list) = R
         /\ IsInjective(list)
<1> DEFINE n == Cardinality(R)
<1>1. n \in Nat
  BY FS_CardinalityType
<1>2. list \in [1..n -> R] /\ IsInjective(list)
  BY DEF SetToSeqs, IsInjective
<1>3. list \in Injection(1..n, R)
  BY <1>2 DEF Injection
<1>4. Cardinality(1..n) = n
  BY <1>1, FS_Interval
<1>5. list \in Surjection(1..n, R)
  BY <1>3, <1>4, FS_Injection
<1>6. ToSet(list) = R
  BY <1>2, <1>5 DEF Surjection, ToSet
<1>7. list \in Seq(R)
  BY <1>1, <1>2
<1> QED
  BY <1>2, <1>6, <1>7

\* An initial queue holds each of the roots, once.
LEMMA RootOrder ==
  ASSUME NEW T, NEW list \in Seq(T), NEW R \in SUBSET ToSet(list),
         NEW roots \in SetToSeqs(R)
  PROVE  /\ roots \in Seq(R)
         /\ ToSet(roots) = R
         /\ IsInjective(roots)
<1>1. list \in Surjection(1..Len(list), ToSet(list))
  BY DEF Surjection, ToSet
<1>2. Len(list) \in Nat /\ IsFiniteSet(1..Len(list))
  BY FS_Interval
<1>3. IsFiniteSet(ToSet(list))
  BY <1>1, <1>2, FS_Surjection
<1>4. IsFiniteSet(R)
  BY <1>3, FS_Subset
<1> QED
  BY <1>4, ListOfSet

-----------------------------------------------------------------------------
(* topological_sort, turn by turn.                                         *)

IsGraph(D, M) == D \in [M -> SUBSET M]

\* The loop of topological_sort: L and S after each of the turns.
IsLoop(turn, D, list, roots) ==
  /\ turn \in [0..Len(list) -> [L : Seq(InGraph(D, list)),
                                S : Seq(InGraph(D, list))]]
  /\ turn[0] = [L |-> <<>>, S |-> roots]
  /\ \A n \in 1..Len(list) :
       turn[n] = IF turn[n-1].S = <<>> THEN turn[n-1]
                 ELSE Visit(D, list, turn[n-1])

\* The successors of n that Visit frees.
FreedBy(D, list, n, L) ==
  {x \in ToSet(list) : n \in D[x] /\ Preds(D, list, x) \subseteq ToSet(L)}

\* An edge joins two members of the list that are in the graph.
LEMMA EdgeInGraph ==
  ASSUME NEW M, NEW D, IsGraph(D, M), NEW list \in Seq(M),
         NEW x \in ToSet(list), NEW n \in ToSet(list), n \in D[x]
  PROVE  x \in InGraph(D, list) /\ n \in InGraph(D, list)
<1>1. n \in Preds(D, list, x)
  BY DEF Preds
<1>2. ToSet(Succs(D, list, n)) =
        ToSet(list) \cap {y \in ToSet(list) : n \in D[y]}
  BY OnlyMembers DEF Succs
<1>3. Succs(D, list, n) # <<>>
  <2>1. x \in ToSet(Succs(D, list, n))
    BY <1>2
  <2> QED
    BY <2>1 DEF ToSet
<1> QED
  BY <1>1, <1>3 DEF InGraph

\* What a turn makes of L and S.
IsTurn(t, D, list, L, S) ==
  LET n == Head(S)
      G == InGraph(D, list)
  IN  /\ n \in G /\ n \in ToSet(S)
      /\ t = [L |-> t.L, S |-> t.S]
      /\ t.L = Append(L, n)
      /\ t.L \in Seq(G) /\ t.S \in Seq(G)
      /\ ToSet(t.L) = ToSet(L) \cup {n}
      /\ ToSet(t.S) = ToSet(Tail(S)) \cup FreedBy(D, list, n, t.L)
      /\ IsInjective(list) /\ IsInjective(S)
         /\ ToSet(Tail(S)) \cap FreedBy(D, list, n, t.L) = {}
           => IsInjective(t.S)

LEMMA VisitMembers ==
  ASSUME NEW M, NEW D, IsGraph(D, M), NEW list \in Seq(M),
         NEW L \in Seq(InGraph(D, list)), NEW S \in Seq(InGraph(D, list)),
         S # <<>>, NEW st, st = [L |-> L, S |-> S]
  PROVE  IsTurn(Visit(D, list, st), D, list, L, S)
<1> DEFINE G == InGraph(D, list)
           n == Head(S)
           L2 == Append(L, n)
           P == {m \in ToSet(list) : Preds(D, list, m) \subseteq ToSet(L2)}
           succs == Succs(D, list, n)
           freed == Only(succs, P)
           F == FreedBy(D, list, n, L2)
           t == Visit(D, list, st)
<1>1. /\ n \in G /\ n \in ToSet(S) /\ Tail(S) \in Seq(G)
      /\ IsInjective(S) => IsInjective(Tail(S))
  BY HeadTailMembers
<1>2. L2 \in Seq(G) /\ ToSet(L2) = ToSet(L) \cup {n}
  BY <1>1, AppendMembers
<1>3. t = [L |-> L2, S |-> Tail(S) \o freed]
  BY DEF Visit
<1>4. /\ succs \in Seq(ToSet(list) \cap {x \in ToSet(list) : n \in D[x]})
      /\ ToSet(succs) = ToSet(list) \cap {x \in ToSet(list) : n \in D[x]}
      /\ IsInjective(list) => IsInjective(succs)
  BY OnlyMembers DEF Succs
<1>5. ToSet(list) \subseteq M
  BY MembersOfSeq
<1>6. succs \in Seq(M)
  BY <1>4, <1>5
<1>7. /\ freed \in Seq(ToSet(succs) \cap P)
      /\ ToSet(freed) = ToSet(succs) \cap P
      /\ IsInjective(succs) => IsInjective(freed)
  <2> HIDE DEF succs, P
  <2> QED
    BY <1>6, OnlyMembers
<1>8. ToSet(freed) = F
  BY <1>4, <1>7 DEF FreedBy
<1>9. n \in ToSet(list)
  BY <1>1 DEF InGraph
<1>10. F \subseteq G
  BY <1>9, EdgeInGraph DEF FreedBy
<1>11. ToSet(succs) \cap P \subseteq G
  BY <1>7, <1>8, <1>10
<1>12. freed \in Seq(G)
  <2> HIDE DEF freed, P, succs, G
  <2> QED
    BY <1>7, <1>11
<1> HIDE DEF G, n, L2, P, succs, freed, F, t
<1>13. /\ Tail(S) \o freed \in Seq(G)
       /\ ToSet(Tail(S) \o freed) = ToSet(Tail(S)) \cup F
  BY <1>1, <1>8, <1>12, ConcatMembers
<1>14. ASSUME IsInjective(list), IsInjective(S), ToSet(Tail(S)) \cap F = {}
       PROVE  IsInjective(Tail(S) \o freed)
  <2>1. IsInjective(freed) /\ IsInjective(Tail(S))
    BY <1>1, <1>4, <1>7, <1>14
  <2>2. \A x : ~Precedes(freed, x, x) /\ ~Precedes(Tail(S), x, x)
    BY <1>1, <1>12, <2>1, InjectivePrecedes
  <2>3. \A x : ~Precedes(Tail(S) \o freed, x, x)
    BY <1>1, <1>8, <1>12, <1>14, <2>2, ConcatMembers
  <2> QED
    BY <1>13, <2>3, InjectivePrecedes
<1>15. t.L = L2 /\ t.S = Tail(S) \o freed /\ t = [L |-> t.L, S |-> t.S]
  BY <1>3
<1> QED
  BY <1>1, <1>2, <1>13, <1>14, <1>15 DEF IsTurn, G, n, L2, F, t

\* What a turn puts into the queue: those it frees, in the order of the list.
LEMMA VisitQueues ==
  ASSUME NEW M, NEW D, IsGraph(D, M), NEW list \in Seq(M), IsInjective(list),
         NEW st, st.S # <<>>
  PROVE  LET L == Append(st.L, Head(st.S))
         IN  \E freed :
               /\ Visit(D, list, st) = [L |-> L, S |-> Tail(st.S) \o freed]
               /\ IsPart(freed, list, FreedBy(D, list, Head(st.S), L))
<1> DEFINE n == Head(st.S)
           L == Append(st.L, n)
           A == {x \in ToSet(list) : n \in D[x]}
           P == {m \in ToSet(list) : Preds(D, list, m) \subseteq ToSet(L)}
           succs == Succs(D, list, n)
           freed == Only(succs, P)
<1>1. Visit(D, list, st) = [L |-> L, S |-> Tail(st.S) \o freed]
  BY DEF Visit
<1>2. IsPart(succs, list, ToSet(list) \cap A)
  <2> HIDE DEF A
  <2>1. IsPart(Only(list, A), list, ToSet(list) \cap A)
    BY OnlyKeepsPart
  <2> QED
    BY <2>1 DEF Succs, A
<1>3. FreedBy(D, list, n, L) = A \cap P
  BY DEF FreedBy
<1>4. ToSet(list) \cap A = A
  OBVIOUS
<1> HIDE DEF n, L, A, P, succs
<1>5. /\ succs \in Seq(ToSet(list)) /\ IsInjective(succs) /\ ToSet(succs) = A
      /\ \A x, y : Precedes(succs, x, y) <=>
                     x \in A /\ y \in A /\ Precedes(list, x, y)
  BY <1>2, <1>4 DEF IsPart
<1>6. IsPart(freed, succs, A \cap P)
  BY <1>5, OnlyKeepsPart
<1>7. freed \in Seq(ToSet(list))
  <2>1. freed \in Seq(A)
    BY <1>5, <1>6 DEF IsPart
  <2>2. A \subseteq ToSet(list)
    BY <1>4
  <2> HIDE DEF freed
  <2> QED
    BY <2>1, <2>2
<1>8. IsPart(freed, list, A \cap P)
  <2> HIDE DEF freed
  <2> QED
    BY <1>5, <1>6, <1>7 DEF IsPart
<1> QED
  BY <1>1, <1>3, <1>8 DEF n, L

LEMMA VisitedLoops ==
  ASSUME NEW M, NEW D, IsGraph(D, M), NEW list \in Seq(M),
         NEW roots \in Seq(InGraph(D, list))
  PROVE  \E turn : /\ IsLoop(turn, D, list, roots)
                   /\ Visited(D, list, roots) = turn[Len(list)].L
<1> DEFINE k == Len(list)
           St == [L : Seq(InGraph(D, list)), S : Seq(InGraph(D, list))]
           a == [L |-> <<>>, S |-> roots]
           After(st) == IF st.S = <<>> THEN st ELSE Visit(D, list, st)
           G == [n \in 1..k |-> [st \in St |-> After(st)]]
           Def(f) == f = [n \in 0..k |->
                            IF n = 0 THEN [L |-> <<>>, S |-> roots]
                            ELSE LET st == f[n-1]
                                 IN  IF st.S = <<>> THEN st
                                     ELSE Visit(D, list, st)]
<1>1. k \in Nat
  OBVIOUS
<1>2. ASSUME NEW st \in St
      PROVE  After(st) \in St
  <2>1. CASE st.S = <<>>
    BY <2>1
  <2>2. CASE st.S # <<>>
    <3> DEFINE t == Visit(D, list, st)
    <3>1. st = [L |-> st.L, S |-> st.S]
      OBVIOUS
    <3>2. t = [L |-> t.L, S |-> t.S] /\ t.L \in Seq(InGraph(D, list))
          /\ t.S \in Seq(InGraph(D, list))
      <4>1. IsTurn(t, D, list, st.L, st.S)
        BY <2>2, <3>1, VisitMembers
      <4> QED
        BY <4>1 DEF IsTurn
    <3>3. After(st) = t
      BY <2>2
    <3> HIDE DEF t, After
    <3>4. [L |-> t.L, S |-> t.S] \in St
      BY <3>2
    <3> QED
      BY <3>2, <3>3, <3>4
  <2> QED
    BY <2>1, <2>2
<1> HIDE DEF After
<1>3. G \in [1..k -> [St -> St]]
  <2> HIDE DEF St
  <2> QED
    BY <1>2
<1>4. a \in St
  OBVIOUS
<1>5. PICK f : IsRun(f, k, St, a, G)
  <2> HIDE DEF k, St, G, a
  <2> QED
    BY <1>1, <1>3, <1>4, Recursion
<1>6. ASSUME NEW n \in 1..k
      PROVE  n-1 \in 0..k /\ f[n-1] \in St /\ f[n] = After(f[n-1])
  <2>1. f \in [0..k -> St] /\ f[n] = G[n][f[n-1]]
    BY <1>5 DEF IsRun
  <2>2. n-1 \in 0..k
    BY <1>1
  <2> HIDE DEF k, St
  <2>3. f[n-1] \in St
    BY <2>1, <2>2
  <2> QED
    BY <2>1, <2>2, <2>3
<1>7. f \in [0..k -> St] /\ f[0] = a
  BY <1>5 DEF IsRun
<1>8. Def(f)
  <2>1. \A n \in 0..k : f[n] = IF n = 0 THEN a ELSE After(f[n-1])
    <3> TAKE n \in 0..k
    <3>1. CASE n = 0
      BY <1>7, <3>1
    <3>2. CASE n # 0
      <4>1. n \in 1..k
        BY <3>2
      <4> QED
        BY <1>6, <3>2, <4>1
    <3> QED
      BY <3>1, <3>2
  <2>2. f = [n \in 0..k |-> IF n = 0 THEN a ELSE After(f[n-1])]
    BY <1>7, <2>1
  <2> QED
    BY <2>2 DEF After
<1> DEFINE g == CHOOSE g : Def(g)
<1>9. Def(g)
  BY <1>8
<1>10. Visited(D, list, roots) = g[k].L
  BY DEF Visited
<1>11. g = [n \in 0..k |-> IF n = 0 THEN a ELSE After(g[n-1])]
  BY <1>9 DEF After
<1> HIDE DEF g, Def
<1>12. g[k] = f[k]
  <2> DEFINE T == {n \in 0..k : g[n] = f[n]}
  <2>1. 0 \in T
    BY <1>1, <1>7, <1>11
  <2>2. ASSUME NEW n \in 1..k, n-1 \in T PROVE n \in T
    <3>1. g[n-1] = f[n-1] /\ n \in 0..k /\ n # 0
      BY <2>2
    <3>2. g[n] = After(g[n-1])
      BY <1>11, <3>1
    <3> QED
      BY <1>6, <3>1, <3>2
  <2> HIDE DEF T
  <2>3. \A n \in 0..k : n \in T
    BY <1>1, <2>1, <2>2, UpTo
  <2>4. k \in 0..k
    BY <1>1
  <2>5. k \in T
    BY <2>3, <2>4
  <2> QED
    BY <2>5 DEF T
<1>13. IsLoop(f, D, list, roots)
  BY <1>6, <1>7 DEF IsLoop, After
<1> QED
  BY <1>10, <1>12, <1>13

(***************************************************************************)
(* What holds after n turns: L and S hold different members of the graph,  *)
(* each once; a member of L has its dependencies before it, one of S has   *)
(* all of them in L, and who has all of them in L is in L or in S.         *)
(***************************************************************************)
LoopInv(st, D, list, n) ==
  /\ IsInjective(st.L) /\ IsInjective(st.S)
  /\ ToSet(st.L) \cap ToSet(st.S) = {}
  /\ \A m \in ToSet(st.L) : \A p \in Preds(D, list, m) : Precedes(st.L, p, m)
  /\ \A m \in ToSet(st.S) : Preds(D, list, m) \subseteq ToSet(st.L)
  /\ \A m \in InGraph(D, list) :
       Preds(D, list, m) \subseteq ToSet(st.L)
         => m \in ToSet(st.L) \cup ToSet(st.S)
  /\ st.S = <<>> \/ Len(st.L) = n

LEMMA LoopStarts ==
  ASSUME NEW M, NEW D, IsGraph(D, M), NEW list \in Seq(M),
         NEW roots \in RootOrders(D, list)
  PROVE  /\ roots \in Seq(InGraph(D, list))
         /\ LoopInv([L |-> <<>>, S |-> roots], D, list, 0)
<1> DEFINE R == {m \in InGraph(D, list) : Preds(D, list, m) = {}}
<1>1. R \subseteq ToSet(list)
  BY DEF InGraph
<1>2. roots \in Seq(R) /\ ToSet(roots) = R /\ IsInjective(roots)
  <2>1. roots \in SetToSeqs(R)
    BY DEF RootOrders
  <2> HIDE DEF R
  <2> QED
    BY <1>1, <2>1, RootOrder
<1>3. roots \in Seq(InGraph(D, list))
  BY <1>2
<1> DEFINE st == [L |-> <<>>, S |-> roots]
<1>4. ToSet(st.L) = {} /\ IsInjective(st.L) /\ Len(st.L) = 0
  BY DEF ToSet, IsInjective
<1>5. LoopInv(st, D, list, 0)
  BY <1>2, <1>4 DEF LoopInv
<1> QED
  BY <1>3, <1>5

LEMMA LoopGoesOn ==
  ASSUME NEW M, NEW D, IsGraph(D, M), NEW list \in Seq(M), IsInjective(list),
         NEW L \in Seq(InGraph(D, list)), NEW S \in Seq(InGraph(D, list)),
         S # <<>>, NEW st, st = [L |-> L, S |-> S], NEW n \in Nat,
         LoopInv(st, D, list, n)
  PROVE  LoopInv(Visit(D, list, st), D, list, n + 1)
<1> DEFINE G == InGraph(D, list)
           h == Head(S)
           t == Visit(D, list, st)
           L2 == t.L
           S2 == t.S
           F == FreedBy(D, list, h, L2)
           Pre(m) == Preds(D, list, m)
<1>1. /\ h \in G /\ h \in ToSet(S)
      /\ L2 = Append(L, h)
      /\ L2 \in Seq(G) /\ S2 \in Seq(G)
      /\ ToSet(L2) = ToSet(L) \cup {h}
      /\ ToSet(S2) = ToSet(Tail(S)) \cup F
      /\ IsInjective(S) /\ ToSet(Tail(S)) \cap F = {} => IsInjective(S2)
  <2>1. IsTurn(t, D, list, L, S)
    BY VisitMembers
  <2> HIDE DEF t
  <2> QED
    BY <2>1 DEF IsTurn
<1>2. /\ ToSet(S) = {h} \cup ToSet(Tail(S))
      /\ IsInjective(S) => h \notin ToSet(Tail(S))
  BY HeadTailMembers
<1>3. /\ IsInjective(L) /\ IsInjective(S) /\ ToSet(L) \cap ToSet(S) = {}
      /\ \A m \in ToSet(L) : \A p \in Pre(m) : Precedes(L, p, m)
      /\ \A m \in ToSet(S) : Pre(m) \subseteq ToSet(L)
      /\ \A m \in G : Pre(m) \subseteq ToSet(L) => m \in ToSet(L) \cup ToSet(S)
      /\ Len(L) = n
  BY DEF LoopInv
<1>4. h \in ToSet(list) /\ h \notin ToSet(L)
  BY <1>1, <1>3 DEF InGraph
<1>5. \A x \in F :
        x \in ToSet(list) /\ h \in Pre(x) /\ Pre(x) \subseteq ToSet(L2)
  BY <1>4 DEF FreedBy, Preds
<1>6. \A m \in ToSet(list) :
        h \in Pre(m) /\ Pre(m) \subseteq ToSet(L2) => m \in F
  BY DEF FreedBy, Preds
<1> HIDE DEF F, Pre, t, L2, S2, h, G
<1>7. \A x \in F : x \notin ToSet(L) /\ x \notin ToSet(S)
  <2> TAKE x \in F
  <2>1. h \in Pre(x)
    BY <1>5
  <2>2. x \notin ToSet(L)
    BY <1>3, <1>4, <2>1, PrecedesMembers
  <2>3. x \notin ToSet(S)
    BY <1>3, <1>4, <2>1
  <2> QED
    BY <2>2, <2>3
<1>8. IsInjective(L2) /\ IsInjective(S2)
  <2>1. IsInjective(L2)
    BY <1>1, <1>3, <1>4, AppendOnce
  <2>2. ToSet(Tail(S)) \cap F = {}
    BY <1>2, <1>7
  <2> QED
    BY <1>1, <1>3, <2>1, <2>2
<1>9. ToSet(L2) \cap ToSet(S2) = {}
  BY <1>1, <1>2, <1>3, <1>7
<1>10. \A m \in ToSet(L2) : \A p \in Pre(m) : Precedes(L2, p, m)
  <2> SUFFICES ASSUME NEW m \in ToSet(L2), NEW p \in Pre(m)
               PROVE  Precedes(L2, p, m)
    OBVIOUS
  <2>1. Precedes(L2, p, m) <=> Precedes(L, p, m) \/ (p \in ToSet(L) /\ m = h)
    BY <1>1, PrecedesAppend
  <2> QED
    BY <1>1, <1>3, <2>1
<1>11. \A m \in ToSet(S2) : Pre(m) \subseteq ToSet(L2)
  BY <1>1, <1>2, <1>3, <1>5
<1>12. ASSUME NEW m \in G, Pre(m) \subseteq ToSet(L2)
       PROVE  m \in ToSet(L2) \cup ToSet(S2)
  <2>1. m \in ToSet(list)
    BY DEF G, InGraph
  <2>2. CASE h \in Pre(m)
    BY <1>1, <1>6, <1>12, <2>1, <2>2
  <2>3. CASE h \notin Pre(m)
    BY <1>1, <1>2, <1>3, <1>12, <2>3
  <2> QED
    BY <2>2, <2>3
<1>13. Len(L2) = n + 1
  BY <1>1, <1>3, AppendMembers
<1> QED
  BY <1>8, <1>9, <1>10, <1>11, <1>12, <1>13 DEF LoopInv, L2, S2, Pre, G, t

\* As many members as positions.
LEMMA PositionsOfMembers ==
  ASSUME NEW M, NEW list \in Seq(M), IsInjective(list)
  PROVE  IsFiniteSet(ToSet(list)) /\ Cardinality(ToSet(list)) = Len(list)
<1>1. Len(list) \in Nat
  OBVIOUS
<1>2. list \in Bijection(1..Len(list), ToSet(list))
  BY DEF Bijection, Injection, Surjection, IsInjective, ToSet
<1>3. IsFiniteSet(1..Len(list)) /\ Cardinality(1..Len(list)) = Len(list)
  BY <1>1, FS_Interval
<1>4. /\ IsFiniteSet(ToSet(list))
      /\ Cardinality(ToSet(list)) = Cardinality(1..Len(list))
  <2> HIDE DEF IsInjective
  <2> QED
    BY <1>2, <1>3, FS_Bijection DEF ExistsBijection
<1> QED
  BY <1>3, <1>4

\* What holds after each turn.  While there is something in the queue not all
\* turns have been made.
LEMMA LoopRuns ==
  ASSUME NEW M, NEW D, IsGraph(D, M), NEW list \in Seq(M), IsInjective(list),
         NEW roots \in RootOrders(D, list),
         NEW turn, IsLoop(turn, D, list, roots)
  PROVE  \A n \in 0..Len(list) :
           /\ LoopInv(turn[n], D, list, n)
           /\ turn[n].S # <<>> => n < Len(list)
<1> DEFINE k == Len(list)
           G == InGraph(D, list)
<1>1. k \in Nat
  OBVIOUS
<1>2. roots \in Seq(G) /\ LoopInv([L |-> <<>>, S |-> roots], D, list, 0)
  BY LoopStarts
<1>3. /\ turn \in [0..k -> [L : Seq(G), S : Seq(G)]]
      /\ turn[0] = [L |-> <<>>, S |-> roots]
      /\ \A n \in 1..k : turn[n] = IF turn[n-1].S = <<>> THEN turn[n-1]
                                   ELSE Visit(D, list, turn[n-1])
  BY DEF IsLoop
<1> HIDE DEF G, k
<1> DEFINE T == {n \in 0..k : LoopInv(turn[n], D, list, n)}
<1>4. 0 \in T
  BY <1>1, <1>2, <1>3
<1>5. ASSUME NEW n \in 1..k, n-1 \in T
      PROVE  n \in T
  <2> DEFINE st == turn[n-1]
  <2>1. /\ n-1 \in 0..k /\ n-1 \in Nat /\ n \in 0..k /\ (n-1) + 1 = n
        /\ LoopInv(st, D, list, n-1)
    BY <1>1, <1>5
  <2>2. /\ st.L \in Seq(G) /\ st.S \in Seq(G)
        /\ st = [L |-> st.L, S |-> st.S]
    BY <1>3, <2>1
  <2>3. turn[n] = IF st.S = <<>> THEN st ELSE Visit(D, list, st)
    BY <1>3
  <2> HIDE DEF st, T
  <2>4. CASE st.S = <<>>
    <3>1. LoopInv(st, D, list, n)
      BY <2>1, <2>4 DEF LoopInv
    <3> QED
      BY <2>1, <2>3, <2>4, <3>1 DEF T
  <2>5. CASE st.S # <<>>
    <3>1. LoopInv(Visit(D, list, st), D, list, (n-1) + 1)
      BY <2>1, <2>2, <2>5, LoopGoesOn DEF G
    <3> QED
      BY <2>1, <2>3, <2>5, <3>1 DEF T
  <2> QED
    BY <2>4, <2>5
<1> HIDE DEF T
<1>6. \A n \in 0..k : n \in T
  BY <1>1, <1>4, <1>5, UpTo
<1>7. ASSUME NEW n \in 0..k, turn[n].S # <<>>
      PROVE  n < k
  <2> DEFINE L == turn[n].L
             S == turn[n].S
  <2>1. L \in Seq(G) /\ S \in Seq(G)
    BY <1>3
  <2>2. n \in T
    BY <1>6
  <2>3. Len(L) = n /\ IsInjective(L) /\ ToSet(L) \cap ToSet(S) = {}
    BY <1>7, <2>2 DEF T, LoopInv
  <2>4. IsFiniteSet(ToSet(list)) /\ Cardinality(ToSet(list)) = k
    BY PositionsOfMembers DEF k
  <2>5. IsFiniteSet(ToSet(L)) /\ Cardinality(ToSet(L)) = n
    BY <2>1, <2>3, PositionsOfMembers
  <2>6. ToSet(L) \subseteq G /\ ToSet(S) \subseteq G /\ G \subseteq ToSet(list)
    BY <2>1, MembersOfSeq DEF G, InGraph
  <2>7. Head(S) \in ToSet(S)
    BY <1>7, <2>1, HeadTailMembers
  <2>8. ToSet(L) # ToSet(list)
    BY <2>3, <2>6, <2>7
  <2> HIDE DEF L, S
  <2>9. n <= k /\ n # k
    BY <2>4, <2>5, <2>6, <2>8, FS_Subset
  <2> QED
    BY <1>1, <2>9
<1> QED
  BY <1>6, <1>7 DEF T, k

\* Behind a turn with an empty queue nothing changes.
LEMMA LoopStops ==
  ASSUME NEW D, NEW list, Len(list) \in Nat, NEW roots,
         NEW turn, IsLoop(turn, D, list, roots),
         NEW n \in 0..Len(list), turn[n].S = <<>>
  PROVE  turn[Len(list)] = turn[n]
<1> DEFINE k == Len(list)
           T == {i \in 0..k : i < n \/ turn[i] = turn[n]}
<1>1. k \in Nat /\ 0 \in T
  OBVIOUS
<1>2. \A i \in 1..k : turn[i] = IF turn[i-1].S = <<>> THEN turn[i-1]
                                ELSE Visit(D, list, turn[i-1])
  BY DEF IsLoop
<1> HIDE DEF k
<1>3. ASSUME NEW i \in 1..k, i-1 \in T
      PROVE  i \in T
  <2>1. i \in 0..k /\ (i-1 < n \/ turn[i-1] = turn[n])
    BY <1>1, <1>3
  <2>2. CASE i <= n
    BY <2>1, <2>2 DEF k
  <2>3. CASE ~(i <= n)
    <3>1. turn[i-1] = turn[n]
      BY <2>1, <2>3
    <3> QED
      BY <1>2, <2>1, <3>1
  <2> QED
    BY <2>2, <2>3
<1> HIDE DEF T
<1>4. \A i \in 0..k : i \in T
  BY <1>1, <1>3, UpTo
<1>5. k \in T
  BY <1>1, <1>4
<1> QED
  BY <1>5 DEF T, k

\* What the loop has made of the graph when it ends.
LEMMA VisitedFacts ==
  ASSUME NEW M, NEW D, IsGraph(D, M), NEW list \in Seq(M), IsInjective(list),
         NEW roots \in RootOrders(D, list)
  PROVE  LET L == Visited(D, list, roots)
         IN  /\ L \in Seq(InGraph(D, list))
             /\ IsInjective(L)
             /\ \A m \in ToSet(L) : \A p \in Preds(D, list, m) :
                  Precedes(L, p, m)
             /\ \A m \in InGraph(D, list) :
                  Preds(D, list, m) \subseteq ToSet(L) => m \in ToSet(L)
<1> DEFINE k == Len(list)
           G == InGraph(D, list)
<1>1. k \in 0..k
  OBVIOUS
<1>2. roots \in Seq(G)
  BY LoopStarts
<1>3. PICK turn : /\ IsLoop(turn, D, list, roots)
                  /\ Visited(D, list, roots) = turn[k].L
  BY <1>2, VisitedLoops
<1> DEFINE L == turn[k].L
           S == turn[k].S
<1>4. L \in Seq(G) /\ S \in Seq(G)
  BY <1>1, <1>3 DEF IsLoop
<1>5. LoopInv(turn[k], D, list, k) /\ S = <<>>
  BY <1>1, <1>3, LoopRuns
<1>6. ToSet(S) = {}
  BY <1>5 DEF ToSet
<1> HIDE DEF L, S
<1>7. /\ IsInjective(L)
      /\ \A m \in ToSet(L) : \A p \in Preds(D, list, m) : Precedes(L, p, m)
      /\ \A m \in G : Preds(D, list, m) \subseteq ToSet(L) => m \in ToSet(L)
  BY <1>5, <1>6 DEF LoopInv, L, S, G
<1> QED
  BY <1>3, <1>4, <1>7 DEF L, G

-----------------------------------------------------------------------------
(* What topological_sort returns.                                          *)

\* Among any of the migrations there is one that depends on none of them.
Acyclic(D, T) ==
  \A U \in SUBSET T : U # {} => \E m \in U : D[m] \cap U = {}

\* The roots have an order.
LEMMA RootOrdersExist ==
  ASSUME NEW M, NEW D, NEW list \in Seq(M)
  PROVE  RootOrders(D, list) # {}
<1> DEFINE R == {m \in InGraph(D, list) : Preds(D, list, m) = {}}
<1>1. R \subseteq ToSet(list)
  BY DEF InGraph
<1>2. IsFiniteSet(ToSet(list))
  <2>1. list \in Surjection(1..Len(list), ToSet(list))
    BY DEF Surjection, ToSet
  <2>2. Len(list) \in Nat /\ IsFiniteSet(1..Len(list))
    BY FS_Interval
  <2> QED
    BY <2>1, <2>2, FS_Surjection
<1>3. IsFiniteSet(R)
  BY <1>1, <1>2, FS_Subset
<1>4. RootOrders(D, list) = SetToSeqs(R)
  BY DEF RootOrders
<1> HIDE DEF R
<1>5. PICK n \in Nat : ExistsBijection(1..n, R)
  BY <1>3, FS_NatBijection
<1>6. PICK f : f \in Bijection(1..n, R)
  BY <1>5 DEF ExistsBijection
<1>7. Cardinality(R) = n
  BY <1>5, FS_CountingElements
<1>8. f \in [1..n -> R] /\ \A i, j \in 1..n : i # j => f[i] # f[j]
  BY <1>6 DEF Bijection, Injection, IsInjective
<1>9. f \in SetToSeqs(R)
  BY <1>7, <1>8 DEF SetToSeqs
<1> QED
  BY <1>4, <1>9

\* Where the loop gets to all of the graph there is no circle.
LEMMA NoCircle ==
  ASSUME NEW M, NEW D, IsGraph(D, M), NEW list \in Seq(M), IsInjective(list),
         NEW roots \in RootOrders(D, list),
         ToSet(Visited(D, list, roots)) = InGraph(D, list)
  PROVE  Acyclic(D, ToSet(list))
<1> DEFINE L == Visited(D, list, roots)
           G == InGraph(D, list)
<1>2. ToSet(L) = G
  OBVIOUS
<1>3. /\ L \in Seq(G) /\ IsInjective(L)
      /\ \A m \in ToSet(L) : \A p \in Preds(D, list, m) : Precedes(L, p, m)
  BY VisitedFacts
<1> HIDE DEF L
<1> SUFFICES ASSUME NEW U \in SUBSET ToSet(list), U # {}
             PROVE  \E m \in U : D[m] \cap U = {}
  BY DEF Acyclic
<1>4. CASE \E m \in U : m \notin G
  <2>1. PICK m \in U : m \notin G
    BY <1>4
  <2>2. D[m] \cap ToSet(list) = {}
    BY <2>1 DEF InGraph, Preds
  <2> QED
    BY <2>1, <2>2
<1>5. CASE U \subseteq G
  <2> DEFINE I == {i \in DOMAIN L : L[i] \in U}
  <2>1. I \subseteq Nat
    BY <1>3
  <2>2. I # {}
    <3>1. PICK m \in U : m \in ToSet(L)
      BY <1>2, <1>5
    <3> QED
      BY <3>1 DEF ToSet
  <2>3. PICK i \in I : \A j \in I : i <= j
    <3> HIDE DEF I
    <3> QED
      BY <2>1, <2>2, LeastNumber
  <2>4. ASSUME NEW p \in D[L[i]] \cap U
        PROVE  FALSE
    <3>1. p \in Preds(D, list, L[i]) /\ L[i] \in ToSet(L)
      BY <2>3 DEF Preds, ToSet
    <3>2. Precedes(L, p, L[i])
      BY <1>3, <3>1
    <3>3. PICK a, b \in DOMAIN L : a < b /\ L[a] = p /\ L[b] = L[i]
      BY <3>2 DEF Precedes
    <3>4. b = i
      BY <1>3, <2>3, <3>3 DEF IsInjective
    <3>5. a \in I /\ a \in Nat /\ i \in Nat
      BY <1>3, <2>3, <3>3
    <3> QED
      BY <2>3, <3>3, <3>4, <3>5
  <2> QED
    BY <2>3, <2>4
<1> QED
  BY <1>4, <1>5

\* Without a circle the loop gets to all of the graph.
LEMMA WholeGraph ==
  ASSUME NEW M, NEW D, IsGraph(D, M), NEW list \in Seq(M), IsInjective(list),
         NEW roots \in RootOrders(D, list), Acyclic(D, ToSet(list))
  PROVE  ToSet(Visited(D, list, roots)) = InGraph(D, list)
<1> DEFINE G == InGraph(D, list)
           L == Visited(D, list, roots)
           U == G \ ToSet(L)
<1>1. /\ L \in Seq(G)
      /\ \A m \in G : Preds(D, list, m) \subseteq ToSet(L) => m \in ToSet(L)
  BY VisitedFacts
<1>2. ToSet(L) \subseteq G /\ G \subseteq ToSet(list)
  BY <1>1, MembersOfSeq DEF InGraph
<1> HIDE DEF L
<1>3. SUFFICES ASSUME U # {} PROVE FALSE
  BY <1>2 DEF L
<1>4. PICK m \in U : D[m] \cap U = {}
  BY <1>2, <1>3 DEF Acyclic
<1>5. \A p \in Preds(D, list, m) : p \in G
  BY <1>2, <1>4, EdgeInGraph DEF Preds
<1>6. Preds(D, list, m) \subseteq ToSet(L)
  BY <1>4, <1>5 DEF Preds
<1> QED
  BY <1>1, <1>4, <1>6

\* topological_sort reports every circle, and nothing else.
LEMMA NotCircular ==
  ASSUME NEW M, NEW D, IsGraph(D, M), NEW list \in Seq(M), IsInjective(list)
  PROVE  ~Circular(D, list) <=> Acyclic(D, ToSet(list))
<1>1. PICK roots \in RootOrders(D, list) : TRUE
  BY RootOrdersExist
<1>2. ~Circular(D, list) => Acyclic(D, ToSet(list))
  BY NoCircle DEF Circular
<1>3. Acyclic(D, ToSet(list)) => ~Circular(D, list)
  BY WholeGraph DEF Circular
<1> QED
  BY <1>2, <1>3

LEMMA SortedList ==
  ASSUME NEW M, NEW D, IsGraph(D, M), NEW list \in Seq(M), IsInjective(list),
         NEW sorted \in TopologicalSorts(D, list)
  PROVE  /\ sorted \in Seq(ToSet(list))
         /\ IsInjective(sorted)
         /\ \A m \in ToSet(sorted) : \A p \in D[m] \cap ToSet(list) :
              Precedes(sorted, p, m)
         /\ \A x, y : Precedes(sorted, x, y) /\ x \notin InGraph(D, list) =>
              Precedes(list, x, y)
         /\ Acyclic(D, ToSet(list)) => ToSet(sorted) = ToSet(list)
<1> DEFINE G == InGraph(D, list)
           R == ToSet(list) \ G
           rest == Only(list, R)
<1>1. PICK roots \in RootOrders(D, list) :
        sorted = Visited(D, list, roots) \o rest
  BY DEF TopologicalSorts
<1> DEFINE L == Visited(D, list, roots)
<1>2. /\ L \in Seq(G) /\ IsInjective(L)
      /\ \A m \in ToSet(L) : \A p \in Preds(D, list, m) : Precedes(L, p, m)
      /\ \A m \in G : Preds(D, list, m) \subseteq ToSet(L) => m \in ToSet(L)
  BY VisitedFacts
<1>3. /\ rest \in Seq(ToSet(list) \cap R)
      /\ ToSet(rest) = ToSet(list) \cap R
      /\ \A x, y : Precedes(rest, x, y) <=>
                     Precedes(list, x, y) /\ x \in R /\ y \in R
      /\ IsInjective(rest)
  <2> HIDE DEF R
  <2> QED
    BY OnlyMembers
<1>4. sorted = L \o rest
  BY <1>1
<1>5. G \subseteq ToSet(list)
  BY DEF InGraph
<1>6. ToSet(list) \cap R = R /\ R \subseteq ToSet(list)
  OBVIOUS
<1> HIDE DEF L, rest
<1>7. /\ L \in Seq(ToSet(list)) /\ rest \in Seq(ToSet(list))
      /\ ToSet(L) \subseteq G /\ ToSet(rest) = R
  <2>1. ToSet(L) \subseteq G
    BY <1>2, MembersOfSeq
  <2> HIDE DEF G, R
  <2> QED
    BY <1>2, <1>3, <1>5, <1>6, <2>1
<1>8. /\ sorted \in Seq(ToSet(list))
      /\ ToSet(sorted) = ToSet(L) \cup R
      /\ \A x, y : Precedes(sorted, x, y) <=>
           \/ Precedes(L, x, y) \/ Precedes(rest, x, y)
           \/ x \in ToSet(L) /\ y \in R
  <2> HIDE DEF R
  <2> QED
    BY <1>4, <1>7, ConcatMembers
<1>9. IsInjective(sorted)
  <2>1. \A x : ~Precedes(L, x, x) /\ ~Precedes(rest, x, x)
    BY <1>2, <1>3, <1>7, InjectivePrecedes
  <2>2. \A x : ~(x \in ToSet(L) /\ x \in R)
    BY <1>7
  <2>3. \A x : ~Precedes(sorted, x, x)
    BY <1>8, <2>1, <2>2
  <2> QED
    BY <1>8, <2>3, InjectivePrecedes
<1>10. ASSUME NEW m \in ToSet(sorted), NEW p \in D[m] \cap ToSet(list)
       PROVE  Precedes(sorted, p, m)
  <2>1. p \in Preds(D, list, m)
    BY DEF Preds
  <2>2. m \in ToSet(L)
    BY <1>8, <2>1 DEF InGraph
  <2> QED
    BY <1>2, <1>8, <2>1, <2>2
<1>11. ASSUME NEW x, NEW y, Precedes(sorted, x, y), x \notin G
       PROVE  Precedes(list, x, y)
  <2>1. x \notin ToSet(L) /\ ~Precedes(L, x, y)
    BY <1>7, <1>11, PrecedesMembers
  <2> QED
    BY <1>3, <1>8, <1>11, <2>1
<1>12. ASSUME Acyclic(D, ToSet(list))
       PROVE  ToSet(sorted) = ToSet(list)
  <2>1. ToSet(L) = G
    BY <1>12, WholeGraph DEF L
  <2> QED
    BY <1>5, <1>8, <2>1
<1> QED
  BY <1>8, <1>9, <1>10, <1>11, <1>12

\* A part of what has no circles has none.
LEMMA PartIsAcyclic ==
  ASSUME NEW D, NEW T, Acyclic(D, T), NEW U \in SUBSET T
  PROVE  Acyclic(D, U)
BY DEF Acyclic

\* All that m depends on, and all that they depend on.
LEMMA AncestorsClosed ==
  ASSUME NEW M, NEW D, IsGraph(D, M), NEW m \in M
  PROVE  /\ D[m] \subseteq Ancestors(D, m)
         /\ \A a \in Ancestors(D, m) : D[a] \subseteq Ancestors(D, m)
         /\ Ancestors(D, m) \subseteq M
<1>1. DOMAIN D = M /\ \A x \in M : D[x] \subseteq M
  BY DEF IsGraph
<1> QED
  BY <1>1 DEF Ancestors

\* What depends on m or on one of its descendants is one, in the population.
LEMMA DescendantsClosed ==
  ASSUME NEW D, NEW m, NEW P,
         NEW x \in P, x # m,
         m \in D[x] \/ \E y \in Descendants(D, m, P) : y \in D[x]
  PROVE  x \in Descendants(D, m, P)
BY DEF Descendants
=====
