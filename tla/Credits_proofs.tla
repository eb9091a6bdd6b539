--------------------------- MODULE Credits_proofs ---------------------------
(***************************************************************************)
(* Proofs about the life of a credit: RewardSplit, which divides a reward  *)
(* among any workers with any scores, and PayoutCommands, in which any     *)
(* number of operators reserve, pay and release any credits.               *)
(***************************************************************************)
EXTENDS RewardSplit, PayoutCommands, FiniteSetTheorems, TLAPS

(***************************************************************************)
(* How credits come about: RewardSplit.                                    *)
(***************************************************************************)

(* Induction over the subsets of a finite set.                             *)
LEMMA SubsetInduction ==
  ASSUME NEW S, IsFiniteSet(S), NEW T,
         \A s \in SUBSET S : (\A t \in SUBSET s : t # s => t \in T) => s \in T
  PROVE  SUBSET S \subseteq T
<1> DEFINE Bad == (SUBSET S) \ T
<1> SUFFICES ASSUME Bad # {}
             PROVE  FALSE
  OBVIOUS
<1>1. Bad \subseteq FiniteSubsetsOf(S)
  BY FS_FiniteSubsetsOfFinite
<1>2. IsWellFoundedOn(StrictSubsetOrdering(S), FiniteSubsetsOf(S))
  BY FS_StrictSubsetOrderingWellFounded
<1>3. PICK s \in Bad : \A t \in Bad : <<t, s>> \notin StrictSubsetOrdering(S)
  <2> HIDE DEF Bad
  <2> QED
    BY <1>1, <1>2, WFMin
<1>4. ASSUME NEW t \in SUBSET s, t # s
      PROVE  t \in T
  <2>1. <<t, s>> \in StrictSubsetOrdering(S)
    BY <1>4 DEF StrictSubsetOrdering
  <2> QED
    BY <1>3, <2>1
<1> QED
  BY <1>3, <1>4

-----------------------------------------------------------------------------
(* Sums, as the community modules compute them.                            *)
Picked(s) == CHOOSE x \in s : TRUE

IsSums(g, f, S) ==
  g = [s \in SUBSET S |-> IF s = {} THEN 0 ELSE f[Picked(s)] + g[s \ {Picked(s)}]]

Sums(f, S) == CHOOSE g : IsSums(g, f, S)

LEMMA SumOfSums ==
  ASSUME NEW c
  PROVE  SumOf(c) = Sums(c, Credited)[Credited]
BY DEF SumOf, MapThenSumSet, MapThenFoldSet, Sums, IsSums, Picked

LEMMA PickedIn ==
  ASSUME NEW s, s # {}
  PROVE  Picked(s) \in s
BY DEF Picked

LEMMA SumsUnique ==
  ASSUME NEW f, NEW A, NEW B, IsFiniteSet(A), NEW g, NEW h,
         IsSums(g, f, A), IsSums(h, f, B), NEW s \in SUBSET A, s \subseteq B
  PROVE  g[s] = h[s]
<1> DEFINE T == {t \in SUBSET A : t \subseteq B => g[t] = h[t]}
<1>1. ASSUME NEW t \in SUBSET A, \A u \in SUBSET t : u # t => u \in T
      PROVE  t \in T
  <2>1. CASE t = {}
    BY <2>1 DEF IsSums
  <2>2. CASE t # {} /\ t \subseteq B
    <3> DEFINE u == t \ {Picked(t)}
    <3>1. u \in SUBSET t /\ u # t
      BY <2>2, PickedIn
    <3>2. g[u] = h[u]
      BY <1>1, <2>2, <3>1
    <3>3. g[t] = f[Picked(t)] + g[u] /\ h[t] = f[Picked(t)] + h[u]
      BY <2>2 DEF IsSums
    <3> QED
      BY <3>2, <3>3
  <2> QED
    BY <2>1, <2>2
<1> QED
  <2> HIDE DEF T
  <2>1. SUBSET A \subseteq T
    BY <1>1, SubsetInduction
  <2> QED
    BY <2>1 DEF T

LEMMA SumsExist ==
  ASSUME NEW f, NEW S, IsFiniteSet(S)
  PROVE  \E g : IsSums(g, f, S)
<1> DEFINE T == {s \in SUBSET S : \E g : IsSums(g, f, s)}
<1>1. ASSUME NEW s \in SUBSET S, \A t \in SUBSET s : t # s => t \in T
      PROVE  s \in T
  <2> DEFINE h == [u \in SUBSET s |->
                     IF u = {} THEN 0
                     ELSE f[Picked(u)] + Sums(f, u \ {Picked(u)})[u \ {Picked(u)}]]
  <2>1. ASSUME NEW t \in SUBSET s, t # s
        PROVE  IsSums(Sums(f, t), f, t) /\ IsFiniteSet(t)
    <3>1. \E g : IsSums(g, f, t)
      BY <1>1, <2>1
    <3> QED
      BY <3>1, FS_Subset DEF Sums
  <2>2. ASSUME NEW t \in SUBSET s, t # s
        PROVE  h[t] = Sums(f, t)[t]
    <3>1. CASE t = {}
      BY <2>1, <2>2, <3>1 DEF IsSums
    <3>2. CASE t # {}
      <4> DEFINE v == t \ {Picked(t)}
      <4>1. v \in SUBSET t /\ v \in SUBSET s /\ v # s
        BY <2>2, <3>2, PickedIn
      <4>2. h[t] = f[Picked(t)] + Sums(f, v)[v]
        BY <3>2
      <4>3. Sums(f, t)[t] = f[Picked(t)] + Sums(f, t)[v]
        BY <2>1, <2>2, <3>2 DEF IsSums
      <4>4. Sums(f, t)[v] = Sums(f, v)[v]
        <5>1. /\ IsSums(Sums(f, t), f, t) /\ IsSums(Sums(f, v), f, v)
              /\ IsFiniteSet(t)
          BY <2>1, <2>2, <4>1
        <5> HIDE DEF v
        <5> QED
          BY <4>1, <5>1, SumsUnique
      <4> QED
        BY <4>2, <4>3, <4>4
    <3> QED
      BY <3>1, <3>2
  <2>3. ASSUME NEW u \in SUBSET s, u # {}
        PROVE  h[u] = f[Picked(u)] + h[u \ {Picked(u)}]
    <3>1. u \ {Picked(u)} \in SUBSET s /\ u \ {Picked(u)} # s
      BY <2>3, PickedIn
    <3>2. h[u] = f[Picked(u)] + Sums(f, u \ {Picked(u)})[u \ {Picked(u)}]
      BY <2>3
    <3>3. h[u \ {Picked(u)}] = Sums(f, u \ {Picked(u)})[u \ {Picked(u)}]
      BY <2>2, <3>1
    <3> QED
      BY <3>2, <3>3
  <2>4. h = [u \in SUBSET s |-> h[u]] /\ h[{}] = 0
    OBVIOUS
  <2> HIDE DEF h
  <2>5. IsSums(h, f, s)
    BY <2>3, <2>4 DEF IsSums
  <2> QED
    BY <2>5
<1> QED
  <2> HIDE DEF T
  <2>1. SUBSET S \subseteq T
    BY <1>1, SubsetInduction
  <2>2. S \in T
    BY <2>1
  <2> QED
    BY <2>2 DEF T

(* One summand after the other.                                            *)
LEMMA SumsStep ==
  ASSUME NEW f, NEW S, IsFiniteSet(S)
  PROVE  /\ Sums(f, S)[{}] = 0
         /\ \A s \in SUBSET S : s # {} =>
              /\ Picked(s) \in s
              /\ Sums(f, S)[s] = f[Picked(s)] + Sums(f, S)[s \ {Picked(s)}]
<1>1. IsSums(Sums(f, S), f, S)
  BY SumsExist DEF Sums
<1>2. PICK g : g = Sums(f, S) /\ IsSums(g, f, S)
  BY <1>1
<1>3. g[{}] = 0
  BY <1>2 DEF IsSums
<1>4. \A s \in SUBSET S : s # {} => g[s] = f[Picked(s)] + g[s \ {Picked(s)}]
  BY <1>2 DEF IsSums
<1> QED
  BY <1>2, <1>3, <1>4, PickedIn

LEMMA SumsPick ==
  ASSUME NEW S, IsFiniteSet(S), NEW s \in SUBSET S, s # {},
         NEW p, p = Picked(s), NEW t, t = s \ {p}
  PROVE  /\ p \in s /\ p \in S /\ t # s
         /\ t \in SUBSET S /\ t \in SUBSET s
BY PickedIn

LEMMA SumsSplit ==
  ASSUME NEW f, NEW S, IsFiniteSet(S), NEW s \in SUBSET S, s # {},
         NEW p, p = Picked(s), NEW t, t = s \ {p}
  PROVE  Sums(f, S)[s] = f[p] + Sums(f, S)[t]
BY SumsStep

LEMMA SumsNat ==
  ASSUME NEW S, IsFiniteSet(S), NEW f, \A x \in S : f[x] \in Nat
  PROVE  \A s \in SUBSET S : Sums(f, S)[s] \in Nat
<1> DEFINE T == {s \in SUBSET S : Sums(f, S)[s] \in Nat}
<1>1. ASSUME NEW s \in SUBSET S, \A t \in SUBSET s : t # s => t \in T
      PROVE  s \in T
  <2>1. CASE s = {}
    BY <2>1, SumsStep
  <2>2. CASE s # {}
    <3>0. PICK p, t : p = Picked(s) /\ t = s \ {p}
      OBVIOUS
    <3>1. /\ p \in s /\ p \in S /\ t # s
          /\ t \in SUBSET S /\ t \in SUBSET s
      BY <2>2, <3>0, SumsPick
    <3>2. f[p] \in Nat /\ Sums(f, S)[t] \in Nat
      BY <1>1, <3>1
    <3> QED
      BY <2>2, <3>0, <3>1, <3>2, SumsSplit
  <2> QED
    BY <2>1, <2>2
<1> QED
  <2> HIDE DEF T
  <2>1. SUBSET S \subseteq T
    BY <1>1, SubsetInduction
  <2> QED
    BY <2>1 DEF T

(* Exact shares add up.                                                    *)
Shared(a, f, b, g, h, S) ==
  \A x \in S : /\ f[x] \in Nat /\ g[x] \in Nat /\ h[x] \in Nat
               /\ a * f[x] = b * g[x] + h[x]

SharedTotal(a, f, b, g, h, S) ==
  a * Sums(f, S)[S] = b * Sums(g, S)[S] + Sums(h, S)[S]

LEMMA SumsLinear ==
  ASSUME NEW S, IsFiniteSet(S), NEW a \in Nat, NEW b \in Nat,
         NEW f, NEW g, NEW h, Shared(a, f, b, g, h, S)
  PROVE  SharedTotal(a, f, b, g, h, S)
<1> USE DEF Shared
<1> DEFINE T == {s \in SUBSET S :
                   a * Sums(f, S)[s] = b * Sums(g, S)[s] + Sums(h, S)[s]}
<1>1. ASSUME NEW s \in SUBSET S, \A t \in SUBSET s : t # s => t \in T
      PROVE  s \in T
  <2>1. CASE s = {}
    <3>1. Sums(f, S)[s] = 0 /\ Sums(g, S)[s] = 0 /\ Sums(h, S)[s] = 0
      BY <2>1, SumsStep
    <3> QED
      BY <3>1
  <2>2. CASE s # {}
    <3>0. PICK p, t : p = Picked(s) /\ t = s \ {p}
      OBVIOUS
    <3>1. /\ p \in s /\ p \in S /\ t # s
          /\ t \in SUBSET S /\ t \in SUBSET s
      BY <2>2, <3>0, SumsPick
    <3>2. /\ Sums(f, S)[s] = f[p] + Sums(f, S)[t]
          /\ Sums(g, S)[s] = g[p] + Sums(g, S)[t]
          /\ Sums(h, S)[s] = h[p] + Sums(h, S)[t]
      BY <2>2, <3>0, SumsSplit
    <3>3. /\ Sums(f, S)[t] \in Nat /\ Sums(g, S)[t] \in Nat /\ Sums(h, S)[t] \in Nat
      BY <3>1, SumsNat
    <3>4. a * Sums(f, S)[t] = b * Sums(g, S)[t] + Sums(h, S)[t]
      BY <1>1, <3>1
    <3>5. f[p] \in Nat /\ g[p] \in Nat /\ h[p] \in Nat
      BY <3>1
    <3>6. a * f[p] = b * g[p] + h[p]
      BY <3>1
    <3>7. PICK x, y, z, i, j, k :
            /\ x = Sums(f, S)[t] /\ y = Sums(g, S)[t] /\ z = Sums(h, S)[t]
            /\ i = f[p] /\ j = g[p] /\ k = h[p]
      OBVIOUS
    <3>8. /\ x \in Nat /\ y \in Nat /\ z \in Nat
          /\ i \in Nat /\ j \in Nat /\ k \in Nat
      BY <3>3, <3>5, <3>7
    <3>9. a * x = b * y + z /\ a * i = b * j + k
      BY <3>4, <3>6, <3>7
    <3>10. a * (i + x) = b * (j + y) + (k + z)
      <4>1. a * (i + x) = a * i + a * x /\ b * (j + y) = b * j + b * y
        BY <3>8
      <4>2. a * i \in Nat /\ a * x \in Nat /\ b * j \in Nat /\ b * y \in Nat
        BY <3>8
      <4> QED
        BY <3>8, <3>9, <4>1, <4>2
    <3> QED
      BY <3>2, <3>7, <3>10
  <2> QED
    BY <2>1, <2>2
<1> QED
  <2> HIDE DEF T
  <2>1. SUBSET S \subseteq T
    BY <1>1, SubsetInduction
  <2>2. S \in T
    BY <2>1
  <2> QED
    BY <2>2 DEF T, SharedTotal

(* Fractions are less than one satoshi each.                               *)
LEMMA SumsBound ==
  ASSUME NEW S, IsFiniteSet(S), NEW b \in Nat, NEW h,
         \A x \in S : h[x] \in Nat /\ h[x] < b
  PROVE  \A s \in SUBSET S : Sums(h, S)[s] + Cardinality(s) <= b * Cardinality(s)
<1> DEFINE T == {s \in SUBSET S :
                   Sums(h, S)[s] + Cardinality(s) <= b * Cardinality(s)}
<1>1. ASSUME NEW s \in SUBSET S, \A t \in SUBSET s : t # s => t \in T
      PROVE  s \in T
  <2>1. CASE s = {}
    <3>1. Sums(h, S)[s] = 0 /\ Cardinality(s) = 0
      BY <2>1, SumsStep, FS_EmptySet
    <3> QED
      BY <3>1
  <2>2. CASE s # {}
    <3>0. PICK p, t : p = Picked(s) /\ t = s \ {p}
      OBVIOUS
    <3>1. /\ p \in s /\ p \in S /\ t # s
          /\ t \in SUBSET S /\ t \in SUBSET s
      BY <2>2, <3>0, SumsPick
    <3>2. /\ Sums(h, S)[s] = h[p] + Sums(h, S)[t]
      BY <2>2, <3>0, SumsSplit
    <3>3. Sums(h, S)[t] \in Nat /\ h[p] \in Nat /\ h[p] < b
      BY <3>1, SumsNat
    <3>4. /\ IsFiniteSet(s) /\ Cardinality(s) \in Nat
          /\ Cardinality(t) = Cardinality(s) - 1 /\ Cardinality(t) \in Nat
      BY <3>0, <3>1, FS_Subset, FS_RemoveElement, FS_CardinalityType
    <3>5. Sums(h, S)[t] + Cardinality(t) <= b * Cardinality(t)
      BY <1>1, <3>1
    <3>6. PICK n, x, y : n = Cardinality(t) /\ x = Sums(h, S)[t] /\ y = h[p]
      OBVIOUS
    <3>7. b * (n + 1) = b * n + b /\ b * n \in Nat
      BY <3>4, <3>6
    <3>8. (y + x) + (n + 1) <= b * (n + 1)
      BY <3>3, <3>4, <3>5, <3>6, <3>7
    <3>9. Cardinality(s) = n + 1 /\ Sums(h, S)[s] = y + x
      BY <3>2, <3>4, <3>6
    <3> QED
      BY <3>8, <3>9
  <2> QED
    BY <2>1, <2>2
<1> QED
  <2> HIDE DEF T
  <2>1. SUBSET S \subseteq T
    BY <1>1, SubsetInduction
  <2> QED
    BY <2>1 DEF T

(* One more for each member of E.                                          *)
OneMore(c, g, S, E) ==
  \A x \in S : g[x] \in Nat /\ c[x] = g[x] + IF x \in E THEN 1 ELSE 0

OneMoreTotal(c, g, S, E) ==
  Sums(c, S)[S] = Sums(g, S)[S] + Cardinality(S \cap E)

LEMMA SumsCount ==
  ASSUME NEW S, IsFiniteSet(S), NEW g, NEW c, NEW E, OneMore(c, g, S, E)
  PROVE  OneMoreTotal(c, g, S, E)
<1> USE DEF OneMore
<1> DEFINE T == {s \in SUBSET S :
                   Sums(c, S)[s] = Sums(g, S)[s] + Cardinality(s \cap E)}
<1>1. ASSUME NEW s \in SUBSET S, \A t \in SUBSET s : t # s => t \in T
      PROVE  s \in T
  <2>1. CASE s = {}
    <3>1. Sums(g, S)[s] = 0 /\ Sums(c, S)[s] = 0 /\ s \cap E = {}
      BY <2>1, SumsStep
    <3>2. Cardinality(s \cap E) = 0
      BY <3>1, FS_EmptySet
    <3> QED
      BY <3>1, <3>2
  <2>2. CASE s # {}
    <3>0. PICK p, t : p = Picked(s) /\ t = s \ {p}
      OBVIOUS
    <3>1. /\ p \in s /\ p \in S /\ t # s
          /\ t \in SUBSET S /\ t \in SUBSET s
      BY <2>2, <3>0, SumsPick
    <3>2. /\ Sums(c, S)[s] = c[p] + Sums(c, S)[t]
          /\ Sums(g, S)[s] = g[p] + Sums(g, S)[t]
      BY <2>2, <3>0, SumsSplit
    <3>3. Sums(g, S)[t] \in Nat /\ g[p] \in Nat
      BY <3>1, SumsNat
    <3>4. Sums(c, S)[t] = Sums(g, S)[t] + Cardinality(t \cap E)
      BY <1>1, <3>1
    <3>5. /\ IsFiniteSet(t \cap E) /\ Cardinality(t \cap E) \in Nat
          /\ p \notin t \cap E
      BY <3>0, <3>1, FS_Subset, FS_Intersection, FS_CardinalityType
    <3>6. CASE p \in E
      <4>1. s \cap E = (t \cap E) \cup {p}
        BY <3>0, <3>1, <3>6
      <4>2. Cardinality(s \cap E) = Cardinality(t \cap E) + 1
        BY <3>5, <4>1, FS_AddElement
      <4>3. c[p] = g[p] + 1
        BY <3>1, <3>6
      <4> QED
        BY <3>2, <3>3, <3>4, <3>5, <4>2, <4>3
    <3>7. CASE p \notin E
      <4>1. s \cap E = t \cap E
        BY <3>0, <3>1, <3>7
      <4>2. c[p] = g[p] + 0
        BY <3>1, <3>7
      <4>3. Sums(c, S)[s] = Sums(g, S)[s] + Cardinality(t \cap E)
        BY <3>2, <3>3, <3>4, <3>5, <4>2
      <4> QED
        BY <4>1, <4>3
    <3> QED
      BY <3>6, <3>7
  <2> QED
    BY <2>1, <2>2
<1> QED
  <2> HIDE DEF T
  <2>1. SUBSET S \subseteq T
    BY <1>1, SubsetInduction
  <2>2. S \in T
    BY <2>1
  <2> QED
    BY <2>2 DEF T, OneMoreTotal

-----------------------------------------------------------------------------
(* In a strict order the first k are k.                                    *)
LEMMA Below ==
  ASSUME NEW n \in Nat
  PROVE  IsFiniteSet(0..n - 1) /\ Cardinality(0..n - 1) = n
BY FS_Interval

LEMMA Ranked ==
  ASSUME NEW S, IsFiniteSet(S), NEW A \in [S -> SUBSET S],
         \A w \in S : w \notin A[w],
         \A w \in S : \A v \in A[w] : A[v] \subseteq A[w],
         \A v, w \in S : v # w => v \in A[w] \/ w \in A[v],
         NEW k \in Nat, k <= Cardinality(S)
  PROVE  Cardinality({w \in S : Cardinality(A[w]) < k}) = k
<1> DEFINE n == Cardinality(S)
           rank == [w \in S |-> Cardinality(A[w])]
           E == {w \in S : Cardinality(A[w]) < k}
<1>1. n \in Nat
  BY FS_CardinalityType
<1>2. ASSUME NEW w \in S
      PROVE  /\ IsFiniteSet(A[w]) /\ Cardinality(A[w]) \in Nat
             /\ Cardinality(A[w]) \in 0..n - 1
  <2>1. A[w] \in SUBSET (S \ {w})
    BY <1>2
  <2>2. IsFiniteSet(S \ {w}) /\ Cardinality(S \ {w}) = n - 1
    BY <1>2, FS_RemoveElement
  <2>3. IsFiniteSet(A[w]) /\ Cardinality(A[w]) <= n - 1
    BY <2>1, <2>2, FS_Subset
  <2>4. Cardinality(A[w]) \in Nat
    BY <2>3, FS_CardinalityType
  <2> QED
    BY <1>1, <2>3, <2>4
<1>3. ASSUME NEW w \in S, NEW v \in A[w]
      PROVE  Cardinality(A[v]) < Cardinality(A[w])
  <2>1. v \in S /\ v \notin A[v] /\ A[v] \cup {v} \in SUBSET A[w]
    BY <1>3
  <2>2. Cardinality(A[v] \cup {v}) = Cardinality(A[v]) + 1
    BY <1>2, <2>1, FS_AddElement
  <2>3. Cardinality(A[v] \cup {v}) <= Cardinality(A[w])
    BY <1>2, <1>3, <2>1, FS_Subset
  <2> QED
    BY <1>2, <2>1, <2>2, <2>3
<1>4. \A v, w \in S : rank[v] = rank[w] => v = w
  <2> SUFFICES ASSUME NEW v \in S, NEW w \in S, rank[v] = rank[w], v # w
               PROVE  FALSE
    OBVIOUS
  <2>1. v \in A[w] \/ w \in A[v]
    OBVIOUS
  <2> QED
    BY <1>2, <1>3, <2>1
<1>5. rank \in Injection(S, 0..n - 1)
  BY <1>2, <1>4 DEF Injection, IsInjective
<1>6. rank \in Surjection(S, 0..n - 1)
  <2>1. IsFiniteSet(0..n - 1) /\ Cardinality(0..n - 1) = n
    BY <1>1, Below
  <2> HIDE DEF rank
  <2> QED
    BY <1>5, <2>1, FS_Injection
<1>7. [w \in E |-> rank[w]] \in Bijection(E, 0..k - 1)
  <2>1. \A w \in E : rank[w] \in 0..k - 1 /\ w \in S
    BY <1>2
  <2>2. \A i \in 0..k - 1 : \E w \in E : rank[w] = i
    <3> SUFFICES ASSUME NEW i \in 0..k - 1
                 PROVE  \E w \in E : rank[w] = i
      OBVIOUS
    <3>1. i \in 0..n - 1
      BY <1>1
    <3>2. PICK w \in S : rank[w] = i
      BY <1>6, <3>1 DEF Surjection
    <3> QED
      BY <3>2
  <2> HIDE DEF rank, E
  <2>3. PICK f : f = [w \in E |-> rank[w]]
    OBVIOUS
  <2>4. f \in Injection(E, 0..k - 1)
    BY <1>4, <2>1, <2>3 DEF Injection, IsInjective
  <2>5. f \in Surjection(E, 0..k - 1)
    BY <2>1, <2>2, <2>3 DEF Surjection
  <2> QED
    BY <2>3, <2>4, <2>5 DEF Bijection
<1>8. IsFiniteSet(E) /\ ExistsBijection(E, 0..k - 1)
  BY <1>7, FS_Subset DEF ExistsBijection
<1>9. Cardinality(0..k - 1) = k
  BY Below
<1> QED
  BY <1>8, <1>9, FS_Bijection

-----------------------------------------------------------------------------
(* Scores and rewards are natural numbers.                                 *)
SplitTyped ==
  /\ score \in [Workers -> Nat]
  /\ reward \in Nat

THEOREM SplitAlwaysTyped == SplitSpec => []SplitTyped
<1>1. SplitInit => SplitTyped
  BY DEF SplitInit, SplitTyped
<1>2. SplitTyped /\ [SplitNext]_splitVars => SplitTyped'
  <2> SUFFICES ASSUME SplitTyped, [SplitNext]_splitVars
               PROVE  SplitTyped'
    OBVIOUS
  <2>1. CASE AddFee
    BY <2>1 DEF SplitTyped, AddFee
  <2>2. ASSUME NEW w \in Workers, NEW d \in Difficulty, AddShare(w, d)
        PROVE  SplitTyped'
    <3>1. score[w] + d \in Nat
      BY SplitAssumption DEF SplitTyped
    <3> QED
      BY <2>2, <3>1 DEF SplitTyped, AddShare
  <2>3. CASE UNCHANGED splitVars
    BY <2>3 DEF SplitTyped, splitVars
  <2> QED
    BY <2>1, <2>2, <2>3 DEF SplitNext
<1> QED
  BY <1>1, <1>2, PTL DEF SplitSpec

(* What is left of r when the m-th part of ten thousand is taken.          *)
Kept(r, m) == r - m \div 10000
NotAbove(m, r) == m <= r * 10000

LEMMA KeptNat ==
  ASSUME NEW m \in Nat, NEW r \in Nat, NotAbove(m, r)
  PROVE  Kept(r, m) \in Nat
BY DEF Kept, NotAbove

Divided(m, t, q, r) == m = t * q + r

LEMMA DivModOf ==
  ASSUME NEW m \in Nat, NEW t \in Nat, t > 0,
         NEW q \in Int, NEW r \in Int, q = m \div t, r = m % t
  PROVE  q >= 0 /\ r >= 0 /\ r < t /\ Divided(m, t, q, r)
<1>1. q >= 0 /\ r >= 0 /\ r < t
  OBVIOUS
<1>2. m = t * q + r
  BY SMTT(30)
<1> QED
  BY <1>1, <1>2 DEF Divided

LEMMA DivMod ==
  ASSUME NEW m \in Nat, NEW t \in Nat, t > 0
  PROVE  /\ m \div t \in Nat /\ m % t \in Nat /\ m % t < t
         /\ Divided(m, t, m \div t, m % t)
<1>1. PICK q, r : q = m \div t /\ r = m % t
  OBVIOUS
<1>2. q \in Int /\ r \in Int
  BY <1>1
<1>3. q >= 0 /\ r >= 0 /\ r < t /\ Divided(m, t, q, r)
  BY <1>1, <1>2, DivModOf
<1>4. q \in Nat /\ r \in Nat
  BY <1>2, <1>3
<1> QED
  BY <1>1, <1>3, <1>4

(* What is left over is less than one satoshi a worker.                    *)
LEMMA LeftOver ==
  ASSUME NEW D \in Nat, NEW t \in Nat, t > 0, NEW w \in Nat, NEW f \in Nat,
         NEW n \in Nat, D * t = t * w + f, f + n <= t * n
  PROVE  D - w \in Nat /\ D - w <= n
<1>1. D - w >= 0
  <2> SUFFICES ASSUME D + 1 <= w
               PROVE  FALSE
    OBVIOUS
  <2>1. t * (w - D - 1) >= 0
    OBVIOUS
  <2>2. t * (w - D - 1) = t * w - D * t - t
    OBVIOUS
  <2>3. t * w \in Nat /\ D * t \in Nat
    OBVIOUS
  <2> QED
    BY <2>1, <2>2, <2>3
<1>2. D - w <= n
  <2> SUFFICES ASSUME D - w - n - 1 >= 0
               PROVE  FALSE
    OBVIOUS
  <2>1. t * (D - w - n - 1) >= 0
    OBVIOUS
  <2>2. t * (D - w - n - 1) = D * t - t * w - t * n - t
    OBVIOUS
  <2>3. t * w \in Nat /\ D * t \in Nat /\ t * n \in Nat
    OBVIOUS
  <2> QED
    BY <2>1, <2>2, <2>3
<1> QED
  BY <1>1, <1>2

LEMMA CreditedFinite ==
  IsFiniteSet(Credited)
BY SplitAssumption, FS_Subset DEF Credited

(* The parts of an allocation: natural numbers, and exact together.        *)
LEMMA Parts ==
  ASSUME SplitTyped, Credited # {}
  PROVE  /\ Distributable \in Nat
         /\ Total \in Nat /\ Total > 0
         /\ \A w \in Credited :
              /\ w \in Nat /\ score[w] \in Nat
              /\ Whole(w) \in Nat /\ Fraction(w) \in Nat /\ Fraction(w) < Total
              /\ Distributable * score[w] = Total * Whole(w) + Fraction(w)
<1>1. Distributable \in Nat
  <2>1. PICK r, f, m : r = reward /\ f = FeeBps /\ m = r * f
    OBVIOUS
  <2>2. r \in Nat /\ f \in Nat /\ f <= 10000
    BY <2>1, SplitAssumption DEF SplitTyped
  <2>3. r * (10000 - f) \in Nat /\ r * f \in Nat
    BY <2>2
  <2>4. r * (10000 - f) = r * 10000 - r * f
    BY <2>2
  <2>5. m \in Nat /\ NotAbove(m, r)
    BY <2>1, <2>2, <2>3, <2>4 DEF NotAbove
  <2>6. Kept(r, m) \in Nat
    BY <2>2, <2>5, KeptNat
  <2> QED
    BY <2>1, <2>6 DEF Distributable, Kept
<1>2. \A w \in Credited : score[w] \in Nat /\ score[w] > 0 /\ w \in Nat
  BY SplitAssumption DEF SplitTyped, Credited
<1>3. Total = Sums(score, Credited)[Credited]
  BY SumOfSums DEF Total
<1>4. Total \in Nat /\ Total > 0
  <2>1. PICK p, t : p = Picked(Credited) /\ t = Credited \ {p}
    OBVIOUS
  <2>2. p \in Credited /\ t \in SUBSET Credited
    BY <2>1, PickedIn
  <2>3. Sums(score, Credited)[t] \in Nat
    BY <1>2, <2>2, CreditedFinite, SumsNat
  <2>4. Sums(score, Credited)[Credited] = score[p] + Sums(score, Credited)[t]
    BY <2>1, CreditedFinite, SumsSplit
  <2> QED
    BY <1>2, <1>3, <2>2, <2>3, <2>4
<1>5. ASSUME NEW w \in Credited
      PROVE  /\ Whole(w) \in Nat /\ Fraction(w) \in Nat /\ Fraction(w) < Total
             /\ Distributable * score[w] = Total * Whole(w) + Fraction(w)
  <2>1. Distributable * score[w] \in Nat
    BY <1>1, <1>2
  <2> QED
    BY <1>4, <2>1, DivMod DEF Whole, Fraction, Divided
<1> QED
  BY <1>1, <1>2, <1>4, <1>5

(* Remainders come down to whole satoshis, fewer than there are workers.   *)
LEMMA RemainderBound ==
  ASSUME SplitTyped, Credited # {}
  PROVE  Remainder \in Nat /\ Remainder <= Cardinality(Credited)
<1> DEFINE g == [w \in Credited |-> Whole(w)]
           h == [w \in Credited |-> Fraction(w)]
<1>1. \A w \in Credited :
        /\ score[w] \in Nat /\ g[w] \in Nat /\ h[w] \in Nat /\ h[w] < Total
        /\ Distributable * score[w] = Total * g[w] + h[w]
  BY Parts
<1>2. Total = Sums(score, Credited)[Credited] /\ SumOf(g) = Sums(g, Credited)[Credited]
  BY SumOfSums DEF Total
<1>3. Remainder = Distributable - SumOf(g)
  BY DEF Remainder
<1> HIDE DEF g, h
<1>4. /\ Distributable \in Nat /\ Total \in Nat /\ Total > 0
      /\ Credited \in SUBSET Credited /\ IsFiniteSet(Credited)
      /\ Cardinality(Credited) \in Nat
  BY Parts, CreditedFinite, FS_CardinalityType
<1>5. SumOf(g) \in Nat /\ Sums(h, Credited)[Credited] \in Nat
  BY <1>1, <1>2, <1>4, SumsNat
<1>6. Distributable * Total = Total * SumOf(g) + Sums(h, Credited)[Credited]
  <2>1. Shared(Distributable, score, Total, g, h, Credited)
    BY <1>1 DEF Shared
  <2>2. SharedTotal(Distributable, score, Total, g, h, Credited)
    BY <1>4, <2>1, SumsLinear
  <2> QED
    BY <1>2, <2>2 DEF SharedTotal
<1>7. Sums(h, Credited)[Credited] + Cardinality(Credited)
        <= Total * Cardinality(Credited)
  BY <1>1, <1>4, SumsBound
<1> QED
  BY <1>3, <1>4, <1>5, <1>6, <1>7, LeftOver

(* Workers who get one of the left-over satoshis; there are exactly as     *)
(* many of them.                                                           *)
Served == {w \in Credited : Cardinality(Ahead(w)) < Remainder}

LEMMA ServedCount ==
  ASSUME SplitTyped, Credited # {}
  PROVE  Cardinality(Served) = Remainder
<1> DEFINE A == [w \in Credited |-> Ahead(w)]
<1>1. \A w \in Credited : w \in Nat /\ Fraction(w) \in Nat
  BY Parts
<1>2. A \in [Credited -> SUBSET Credited]
  BY DEF Ahead
<1>3. \A w \in Credited : w \notin A[w]
  BY <1>1 DEF Ahead
<1>4. \A w \in Credited : \A v \in A[w] : A[v] \subseteq A[w]
  BY <1>1 DEF Ahead
<1>5. \A v, w \in Credited : v # w => v \in A[w] \/ w \in A[v]
  BY <1>1 DEF Ahead
<1>6. Served = {w \in Credited : Cardinality(A[w]) < Remainder}
  BY DEF Served
<1>7. /\ Remainder \in Nat /\ Remainder <= Cardinality(Credited)
      /\ IsFiniteSet(Credited)
  BY RemainderBound, CreditedFinite
<1> HIDE DEF A
<1>8. Cardinality({w \in Credited : Cardinality(A[w]) < Remainder}) = Remainder
  BY <1>2, <1>3, <1>4, <1>5, <1>7, Ranked
<1> QED
  BY <1>6, <1>8

LEMMA ExactlyAll ==
  ASSUME SplitTyped, Credited # {}
  PROVE  SumOf(Credit) = Distributable
<1> DEFINE g == [w \in Credited |-> Whole(w)]
<1>1. \A w \in Credited : g[w] \in Nat
  BY Parts
<1>2. \A w \in Credited : Credit[w] = g[w] + IF w \in Served THEN 1 ELSE 0
  BY DEF Credit, Served
<1>3. Remainder = Distributable - SumOf(g)
  BY DEF Remainder
<1>4. Cardinality(Served) = Remainder /\ Credited \cap Served = Served
  BY ServedCount DEF Served
<1> HIDE DEF g
<1>5. /\ SumOf(g) = Sums(g, Credited)[Credited]
      /\ SumOf(Credit) = Sums(Credit, Credited)[Credited]
  BY SumOfSums
<1>6. IsFiniteSet(Credited) /\ Credited \in SUBSET Credited
  BY CreditedFinite
<1>7. SumOf(Credit) = SumOf(g) + Cardinality(Credited \cap Served)
  <2>1. OneMore(Credit, g, Credited, Served)
    BY <1>1, <1>2 DEF OneMore
  <2>2. OneMoreTotal(Credit, g, Credited, Served)
    BY <1>6, <2>1, SumsCount
  <2> QED
    BY <1>5, <2>2 DEF OneMoreTotal
<1>8. SumOf(g) \in Nat /\ Distributable \in Nat
  BY <1>1, <1>5, <1>6, SumsNat, Parts
<1>9. Cardinality(Credited \cap Served) = Distributable - SumOf(g)
  BY <1>3, <1>4
<1> QED
  BY <1>7, <1>8, <1>9

(* Every distributable satoshi is allocated, and none twice: the fractions *)
(* rounded away add up to whole satoshis, fewer than the workers there are *)
(* to give one each, and the order they are ranked in is a strict one.     *)
THEOREM AlwaysConserved == SplitSpec => []Conserved
<1>1. SplitTyped => Conserved
  BY ExactlyAll DEF Conserved
<1> QED
  BY <1>1, SplitAlwaysTyped, PTL

-----------------------------------------------------------------------------
(* What is left over goes where it is missed most.                         *)

(* Weighed against the squares, e whole satoshis above the rounded share   *)
(* are no better than one for a worker that is served, nor than none for   *)
(* one that is not.                                                        *)
LEMMA BestIsOne ==
  ASSUME NEW t \in Nat, t > 0, NEW f \in Nat, f < t, NEW l \in Nat, l <= f,
         NEW e \in Int
  PROVE  (e - 1) * (t * e - 2 * (f - l)) >= 0
<1>1. CASE e >= 2
  <2>1. t * (e - 2) >= 0
    BY <1>1
  <2>2. t * e - 2 * (f - l) >= 0
    BY <2>1
  <2>3. t * e - 2 * (f - l) \in Int
    OBVIOUS
  <2> QED
    BY <1>1, <2>2, <2>3
<1>2. CASE e = 1
  BY <1>2
<1>3. CASE e <= 0
  <2>1. t * (0 - e) >= 0
    BY <1>3
  <2>2. 2 * (f - l) - t * e >= 0
    BY <2>1
  <2>3. (1 - e) * (2 * (f - l) - t * e) >= 0
    BY <1>3, <2>2
  <2>4. (1 - e) * (2 * (f - l) - t * e) = (e - 1) * (t * e - 2 * (f - l))
    OBVIOUS
  <2> QED
    BY <2>3, <2>4
<1> QED
  BY <1>1, <1>2, <1>3

LEMMA BestIsZero ==
  ASSUME NEW t \in Nat, t > 0, NEW f \in Nat, NEW l \in Nat, f <= l, l <= t,
         NEW e \in Int
  PROVE  e * (t * (e - 1) + 2 * (l - f)) >= 0
<1>1. CASE e >= 1
  <2>1. t * (e - 1) >= 0
    BY <1>1
  <2>2. t * (e - 1) + 2 * (l - f) >= 0
    BY <2>1
  <2> QED
    BY <1>1, <2>2
<1>2. CASE e = 0
  BY <1>2
<1>3. CASE e <= -1
  <2>1. t * (0 - 1 - e) >= 0
    BY <1>3
  <2>2. 0 - (t * (e - 1) + 2 * (l - f)) >= 0
    BY <2>1
  <2>3. (0 - e) * (0 - (t * (e - 1) + 2 * (l - f))) >= 0
    BY <1>3, <2>2
  <2>4. (0 - e) * (0 - (t * (e - 1) + 2 * (l - f)))
          = e * (t * (e - 1) + 2 * (l - f))
    OBVIOUS
  <2> QED
    BY <2>3, <2>4
<1> QED
  BY <1>1, <1>2, <1>3

Square(x) == x * x

(* Of two ways to share, the one that is better worker by worker.          *)
Better(f, g, a, b, u, v, S) ==
  \A x \in S :
    /\ f[x] \in Nat /\ g[x] \in Nat /\ u[x] \in Nat /\ v[x] \in Nat
    /\ f[x] + a * u[x] + b * v[x] <= g[x] + a * v[x] + b * u[x]

LEMMA SumsBetter ==
  ASSUME NEW S, IsFiniteSet(S), NEW a \in Nat, NEW b \in Nat,
         NEW f, NEW g, NEW u, NEW v, Better(f, g, a, b, u, v, S),
         Sums(u, S)[S] = Sums(v, S)[S]
  PROVE  Sums(f, S)[S] <= Sums(g, S)[S]
<1> USE DEF Better
<1> DEFINE T == {s \in SUBSET S :
                   Sums(f, S)[s] + a * Sums(u, S)[s] + b * Sums(v, S)[s]
                     <= Sums(g, S)[s] + a * Sums(v, S)[s] + b * Sums(u, S)[s]}
<1>1. ASSUME NEW s \in SUBSET S, \A t \in SUBSET s : t # s => t \in T
      PROVE  s \in T
  <2>1. CASE s = {}
    <3>1. /\ Sums(f, S)[s] = 0 /\ Sums(g, S)[s] = 0
          /\ Sums(u, S)[s] = 0 /\ Sums(v, S)[s] = 0
      BY <2>1, SumsStep
    <3> QED
      BY <3>1
  <2>2. CASE s # {}
    <3>0. PICK p, t : p = Picked(s) /\ t = s \ {p}
      OBVIOUS
    <3>1. /\ p \in s /\ p \in S /\ t # s
          /\ t \in SUBSET S /\ t \in SUBSET s
      BY <2>2, <3>0, SumsPick
    <3>2. /\ Sums(f, S)[s] = f[p] + Sums(f, S)[t]
          /\ Sums(g, S)[s] = g[p] + Sums(g, S)[t]
          /\ Sums(u, S)[s] = u[p] + Sums(u, S)[t]
          /\ Sums(v, S)[s] = v[p] + Sums(v, S)[t]
      BY <2>2, <3>0, SumsSplit
    <3>3. PICK x, y, z, w, i, j, k, l :
            /\ x = Sums(f, S)[t] /\ y = Sums(g, S)[t]
            /\ z = Sums(u, S)[t] /\ w = Sums(v, S)[t]
            /\ i = f[p] /\ j = g[p] /\ k = u[p] /\ l = v[p]
      OBVIOUS
    <3>4. x \in Nat /\ y \in Nat /\ z \in Nat /\ w \in Nat
      BY <3>1, <3>3, SumsNat
    <3>5. i \in Nat /\ j \in Nat /\ k \in Nat /\ l \in Nat
      BY <3>1, <3>3
    <3>6. x + a * z + b * w <= y + a * w + b * z
      BY <1>1, <3>1, <3>3
    <3>7. i + a * k + b * l <= j + a * l + b * k
      BY <3>1, <3>3
    <3>8. (i + x) + a * (k + z) + b * (l + w) <= (j + y) + a * (l + w) + b * (k + z)
      <4>1. /\ a * (k + z) = a * k + a * z /\ a * (l + w) = a * l + a * w
            /\ b * (k + z) = b * k + b * z /\ b * (l + w) = b * l + b * w
        BY <3>4, <3>5
      <4>2. /\ a * k \in Nat /\ a * z \in Nat /\ a * l \in Nat /\ a * w \in Nat
            /\ b * k \in Nat /\ b * z \in Nat /\ b * l \in Nat /\ b * w \in Nat
        BY <3>4, <3>5
      <4> QED
        BY <3>4, <3>5, <3>6, <3>7, <4>1, <4>2
    <3> QED
      BY <3>2, <3>3, <3>8
  <2> QED
    BY <2>1, <2>2
<1>2. S \in T
  <2> HIDE DEF T
  <2>1. SUBSET S \subseteq T
    BY <1>1, SubsetInduction
  <2> QED
    BY <2>1
<1>3. /\ Sums(f, S)[S] \in Nat /\ Sums(g, S)[S] \in Nat
      /\ Sums(u, S)[S] \in Nat
  BY SumsNat
<1>4. PICK x, y, z : x = Sums(f, S)[S] /\ y = Sums(g, S)[S] /\ z = Sums(u, S)[S]
  OBVIOUS
<1>5. x + a * z + b * z <= y + a * z + b * z
  BY <1>2, <1>4
<1>6. a * z \in Nat /\ b * z \in Nat
  BY <1>3, <1>4
<1> QED
  BY <1>3, <1>4, <1>5, <1>6

LEMMA NeverNearer ==
  ASSUME NEW t \in Nat, t > 0, NEW f \in Nat, f < t, NEW l \in Nat, l <= t,
         NEW q \in Nat, NEW b \in {0, 1}, NEW e \in Int,
         b = 1 => l <= f, b = 0 => f <= l
  PROVE  Square(t * b - f) + 2 * t * l * (q + b) + t * t * (q + e)
           <= Square(t * e - f) + 2 * t * l * (q + e) + t * t * (q + b)
<1> DEFINE X == Square(t * b - f) + 2 * t * l * (q + b) + t * t * (q + e)
           Y == Square(t * e - f) + 2 * t * l * (q + e) + t * t * (q + b)
           Z == t * e * (e - 1) - t * b * (b - 1) + 2 * (b - e) * (f - l)
<1>1. Y - X = t * Z
  BY DEF Square
<1>2. Z >= 0
  <2>1. CASE b = 1
    <3>1. (e - 1) * (t * e - 2 * (f - l)) >= 0
      BY <2>1, BestIsOne
    <3>2. Z = (e - 1) * (t * e - 2 * (f - l))
      BY <2>1
    <3> QED
      BY <3>1, <3>2
  <2>2. CASE b = 0
    <3>1. e * (t * (e - 1) + 2 * (l - f)) >= 0
      BY <2>2, BestIsZero
    <3>2. Z = e * (t * (e - 1) + 2 * (l - f))
      BY <2>2
    <3> QED
      BY <3>1, <3>2
  <2> QED
    BY <2>1, <2>2
<1>3. X \in Int /\ Y \in Int /\ Z \in Int
  BY DEF Square
<1> HIDE DEF X, Y, Z
<1>4. t * Z >= 0
  BY <1>2, <1>3
<1>5. X <= Y
  BY <1>1, <1>3, <1>4
<1> QED
  BY <1>5 DEF X, Y

LEMMA GapSquare ==
  ASSUME NEW x \in Int, NEW y \in Int
  PROVE  Gap(x, y) * Gap(x, y) = Square(x - y)
<1>1. CASE x > y
  BY <1>1 DEF Gap, Square
<1>2. CASE ~(x > y)
  <2>1. (y - x) * (y - x) = (x - y) * (x - y)
    OBVIOUS
  <2> QED
    BY <1>2, <2>1 DEF Gap, Square
<1> QED
  BY <1>1, <1>2

(* The least of some numbers.                                              *)
LEMMA Least ==
  ASSUME NEW S, IsFiniteSet(S), S # {}, NEW h, \A x \in S : h[x] \in Nat
  PROVE  \E m \in S : \A x \in S : h[m] <= h[x]
<1> DEFINE T == {s \in SUBSET S :
                   s # {} => \E m \in s : \A x \in s : h[m] <= h[x]}
<1>1. ASSUME NEW s \in SUBSET S, \A t \in SUBSET s : t # s => t \in T
      PROVE  s \in T
  <2> SUFFICES ASSUME s # {}
               PROVE  \E m \in s : \A x \in s : h[m] <= h[x]
    OBVIOUS
  <2>1. PICK p, t : p \in s /\ t = s \ {p}
    OBVIOUS
  <2>2. t \in T
    BY <1>1, <2>1
  <2>3. CASE t = {}
    BY <2>1, <2>3
  <2>4. CASE t # {}
    <3>1. PICK m \in t : \A x \in t : h[m] <= h[x]
      BY <2>2, <2>4
    <3>2. h[p] \in Nat /\ \A x \in t : h[x] \in Nat
      BY <2>1
    <3>3. CASE h[m] <= h[p]
      BY <2>1, <3>1, <3>3
    <3>4. CASE h[p] <= h[m]
      BY <2>1, <3>1, <3>2, <3>4
    <3> QED
      BY <3>1, <3>2, <3>3, <3>4
  <2> QED
    BY <2>3, <2>4
<1> QED
  <2> HIDE DEF T
  <2>1. SUBSET S \subseteq T
    BY <1>1, SubsetInduction
  <2>2. S \in T
    BY <2>1
  <2> QED
    BY <2>2 DEF T

(* Everybody who is served is ahead of everybody who is not.               *)
LEMMA ServedFirst ==
  ASSUME SplitTyped, NEW v \in Served, NEW w \in Credited, w \notin Served
  PROVE  v \in Ahead(w)
<1>1. v \in Credited /\ v # w /\ Credited # {}
  BY DEF Served
<1>2. v \in Nat /\ w \in Nat /\ \A u \in Credited : u \in Nat /\ Fraction(u) \in Nat
  BY <1>1, Parts
<1>3. SUFFICES ASSUME v \notin Ahead(w)
               PROVE  FALSE
  OBVIOUS
<1>4. Ahead(w) \subseteq Ahead(v)
  <2>1. w \in Ahead(v)
    BY <1>1, <1>2, <1>3 DEF Ahead
  <2> SUFFICES ASSUME NEW u \in Ahead(w)
               PROVE  u \in Ahead(v)
    OBVIOUS
  <2>2. u \in Credited
    BY DEF Ahead
  <2>3. /\ u \in Nat /\ v \in Nat /\ w \in Nat /\ Fraction(u) \in Nat
        /\ Fraction(v) \in Nat /\ Fraction(w) \in Nat
    BY <1>1, <1>2, <2>2
  <2>4. Fraction(w) > Fraction(v) \/ (Fraction(w) = Fraction(v) /\ w < v)
    BY <2>1 DEF Ahead
  <2>5. Fraction(u) > Fraction(w) \/ (Fraction(u) = Fraction(w) /\ u < w)
    BY DEF Ahead
  <2>6. Fraction(u) > Fraction(v) \/ (Fraction(u) = Fraction(v) /\ u < v)
    BY <2>3, <2>4, <2>5
  <2> QED
    BY <2>2, <2>6 DEF Ahead
<1>5. IsFiniteSet(Ahead(v)) /\ IsFiniteSet(Ahead(w))
  BY CreditedFinite, FS_Subset DEF Ahead
<1>6. /\ Cardinality(Ahead(w)) <= Cardinality(Ahead(v))
      /\ Cardinality(Ahead(w)) \in Nat /\ Cardinality(Ahead(v)) \in Nat
  BY <1>4, <1>5, FS_Subset, FS_CardinalityType
<1>7. Remainder \in Nat
  BY <1>1, RemainderBound
<1> QED
  BY <1>6, <1>7 DEF Served

(* The fraction from which on a left-over satoshi is given.                *)
LEMMA Threshold ==
  ASSUME SplitTyped, Credited # {}
  PROVE  \E l \in Nat :
           /\ l <= Total
           /\ \A w \in Served : l <= Fraction(w)
           /\ \A w \in Credited \ Served : Fraction(w) <= l
<1>1. /\ Total \in Nat
      /\ \A w \in Credited : Fraction(w) \in Nat /\ Fraction(w) <= Total
  BY Parts
<1>2. Served \subseteq Credited
  BY DEF Served
<1>3. CASE Served = {}
  BY <1>1, <1>3
<1>4. CASE Served # {}
  <2> DEFINE h == [w \in Credited |-> Fraction(w)]
  <2>1. IsFiniteSet(Served) /\ \A w \in Served : h[w] \in Nat
    BY <1>1, <1>2, CreditedFinite, FS_Subset
  <2>2. PICK m \in Served : \A w \in Served : h[m] <= h[w]
    <3> HIDE DEF h
    <3> QED
      BY <1>4, <2>1, Least
  <2>3. m \in Credited /\ \A w \in Served : Fraction(m) <= Fraction(w)
    BY <1>2, <2>2
  <2>4. \A w \in Credited \ Served : Fraction(w) <= Fraction(m)
    <3> SUFFICES ASSUME NEW w \in Credited, w \notin Served
                 PROVE  Fraction(w) <= Fraction(m)
      OBVIOUS
    <3>1. m \in Ahead(w)
      BY ServedFirst
    <3> QED
      BY <1>1, <2>3, <3>1 DEF Ahead
  <2> QED
    BY <1>1, <2>3, <2>4
<1> QED
  BY <1>3, <1>4

(* No other way to hand out the same satoshis is closer to the exact       *)
(* shares (squared distances): below the threshold an extra satoshi moves  *)
(* a worker further away than it moves one above it closer.                *)
THEOREM AlwaysFairest == SplitSpec => []Fairest
<1>1. SplitTyped => Fairest
  <2> SUFFICES ASSUME SplitTyped, Credited # {},
                      NEW c \in [Credited -> 0..Distributable],
                      SumOf(c) = Distributable
               PROVE  Unfairness(Credit) <= Unfairness(c)
    BY DEF Fairest
  <2>1. PICK l \in Nat :
          /\ l <= Total
          /\ \A w \in Served : l <= Fraction(w)
          /\ \A w \in Credited \ Served : Fraction(w) <= l
    BY Threshold
  <2> DEFINE Far(a) == [w \in Credited |->
                          Gap(Total * a[w], Distributable * score[w])
                            * Gap(Total * a[w], Distributable * score[w])]
  <2>2. ASSUME NEW w \in Credited
        PROVE  /\ Far(Credit)[w] \in Nat /\ Far(c)[w] \in Nat
               /\ Credit[w] \in Nat /\ c[w] \in Nat
               /\ Far(Credit)[w] + 2 * Total * l * Credit[w] + Total * Total * c[w]
                    <= Far(c)[w] + 2 * Total * l * c[w] + Total * Total * Credit[w]
    <3>1. PICK b, q, f, e, t, x :
            /\ b = IF w \in Served THEN 1 ELSE 0
            /\ q = Whole(w) /\ f = Fraction(w)
            /\ e = c[w] - q /\ t = Total /\ x = Distributable * score[w]
      OBVIOUS
    <3>2. c[w] \in Nat
      BY Parts
    <3>3. /\ t \in Nat /\ t > 0 /\ q \in Nat /\ f \in Nat /\ f < t
          /\ b \in {0, 1} /\ e \in Int /\ l <= t
          /\ x = t * q + f
      BY <2>1, <3>1, <3>2, Parts
    <3>4. (b = 1 => l <= f) /\ (b = 0 => f <= l)
      BY <2>1, <3>1
    <3>5. Credit[w] = q + b /\ c[w] = q + e /\ q + b \in Nat /\ q + e \in Nat
      BY <3>1, <3>2, <3>3 DEF Credit, Served
    <3>6. Far(Credit)[w] = Square(t * b - f)
      <4>1. PICK z : z = t * (q + b)
        OBVIOUS
      <4>2. t \in Nat /\ f \in Nat /\ q \in Nat /\ b \in Int /\ q + b >= 0
        BY <3>3, <3>5
      <4>3. Gap(z, x) * Gap(z, x) = Square(t * b - f)
        <5>1. z \in Int /\ x \in Int /\ z - x = t * b - f
          BY <3>3, <4>1, <4>2
        <5> QED
          BY <5>1, GapSquare
      <4>4. z = Total * Credit[w]
        BY <3>1, <3>5, <4>1
      <4> QED
        BY <3>1, <4>3, <4>4
    <3>7. Far(c)[w] = Square(t * e - f)
      <4>1. PICK z : z = t * (q + e)
        OBVIOUS
      <4>2. t \in Nat /\ f \in Nat /\ q \in Nat /\ e \in Int /\ q + e >= 0
        BY <3>3, <3>5
      <4>3. Gap(z, x) * Gap(z, x) = Square(t * e - f)
        <5>1. z \in Int /\ x \in Int /\ z - x = t * e - f
          BY <3>3, <4>1, <4>2
        <5> QED
          BY <5>1, GapSquare
      <4>4. z = Total * c[w]
        BY <3>1, <3>5, <4>1
      <4> QED
        BY <3>1, <4>3, <4>4
    <3>8. Square(t * b - f) \in Nat /\ Square(t * e - f) \in Nat
      BY <3>3 DEF Square
    <3>9. Square(t * b - f) + 2 * t * l * (q + b) + t * t * (q + e)
            <= Square(t * e - f) + 2 * t * l * (q + e) + t * t * (q + b)
      BY <3>3, <3>4, NeverNearer
    <3> QED
      BY <3>1, <3>5, <3>6, <3>7, <3>8, <3>9
  <2>3. PICK a, b : a = 2 * Total * l /\ b = Total * Total
    OBVIOUS
  <2>4. a \in Nat /\ b \in Nat
    BY <2>3, Parts
  <2>5. Better(Far(Credit), Far(c), a, b, Credit, c, Credited)
    BY <2>2, <2>3 DEF Better
  <2>6. /\ Unfairness(Credit) = Sums(Far(Credit), Credited)[Credited]
        /\ Unfairness(c) = Sums(Far(c), Credited)[Credited]
    BY SumOfSums DEF Unfairness
  <2>7. Sums(Credit, Credited)[Credited] = Sums(c, Credited)[Credited]
    BY SumOfSums, ExactlyAll
  <2> HIDE DEF Far
  <2>8. Sums(Far(Credit), Credited)[Credited] <= Sums(Far(c), Credited)[Credited]
    BY <2>4, <2>5, <2>7, CreditedFinite, SumsBetter
  <2> QED
    BY <2>6, <2>8
<1> QED
  BY <1>1, SplitAlwaysTyped, PTL

-----------------------------------------------------------------------------
(* One more share in the window.                                           *)
LEMMA SumsFewer ==
  ASSUME NEW S, IsFiniteSet(S), NEW f, NEW g, NEW w \in S,
         \A x \in S : f[x] \in Nat /\ g[x] \in Nat /\ f[x] <= g[x], f[w] < g[w]
  PROVE  Sums(f, S)[S] < Sums(g, S)[S]
<1> DEFINE T == {s \in SUBSET S : /\ Sums(f, S)[s] <= Sums(g, S)[s]
                                  /\ w \in s => Sums(f, S)[s] < Sums(g, S)[s]}
<1>1. ASSUME NEW s \in SUBSET S, \A t \in SUBSET s : t # s => t \in T
      PROVE  s \in T
  <2>1. CASE s = {}
    <3>1. Sums(f, S)[s] = 0 /\ Sums(g, S)[s] = 0
      BY <2>1, SumsStep
    <3> QED
      BY <2>1, <3>1
  <2>2. CASE s # {}
    <3>0. PICK p, t : p = Picked(s) /\ t = s \ {p}
      OBVIOUS
    <3>1. /\ p \in s /\ p \in S /\ t # s
          /\ t \in SUBSET S /\ t \in SUBSET s
      BY <2>2, <3>0, SumsPick
    <3>2. /\ Sums(f, S)[s] = f[p] + Sums(f, S)[t]
          /\ Sums(g, S)[s] = g[p] + Sums(g, S)[t]
      BY <2>2, <3>0, SumsSplit
    <3>3. Sums(f, S)[t] \in Nat /\ Sums(g, S)[t] \in Nat
      BY <3>1, SumsNat
    <3>4. /\ Sums(f, S)[t] <= Sums(g, S)[t]
          /\ w \in t => Sums(f, S)[t] < Sums(g, S)[t]
      BY <1>1, <3>1
    <3>5. f[p] \in Nat /\ g[p] \in Nat /\ f[p] <= g[p] /\ (p = w => f[p] < g[p])
      BY <3>1
    <3>6. w \in s => p = w \/ w \in t
      BY <3>0
    <3> QED
      BY <3>2, <3>3, <3>4, <3>5, <3>6
  <2> QED
    BY <2>1, <2>2
<1> QED
  <2> HIDE DEF T
  <2>1. SUBSET S \subseteq T
    BY <1>1, SubsetInduction
  <2>2. S \in T
    BY <2>1
  <2> QED
    BY <2>2 DEF T

Raised(f, g, w, d, S) ==
  \A x \in S : f[x] \in Nat /\ g[x] = f[x] + IF x = w THEN d ELSE 0

RaisedTotal(f, g, w, d, S) ==
  Sums(g, S)[S] = Sums(f, S)[S] + d /\ f[w] <= Sums(f, S)[S]

LEMMA SumsRaise ==
  ASSUME NEW S, IsFiniteSet(S), NEW f, NEW g, NEW w \in S, NEW d \in Nat,
         Raised(f, g, w, d, S)
  PROVE  RaisedTotal(f, g, w, d, S)
<1> USE DEF Raised
<1> DEFINE T == {s \in SUBSET S :
                   /\ Sums(g, S)[s] = Sums(f, S)[s] + IF w \in s THEN d ELSE 0
                   /\ w \in s => f[w] <= Sums(f, S)[s]}
<1>1. ASSUME NEW s \in SUBSET S, \A t \in SUBSET s : t # s => t \in T
      PROVE  s \in T
  <2>1. CASE s = {}
    <3>1. Sums(f, S)[s] = 0 /\ Sums(g, S)[s] = 0
      BY <2>1, SumsStep
    <3> QED
      BY <2>1, <3>1
  <2>2. CASE s # {}
    <3>0. PICK p, t : p = Picked(s) /\ t = s \ {p}
      OBVIOUS
    <3>1. /\ p \in s /\ p \in S /\ t # s
          /\ t \in SUBSET S /\ t \in SUBSET s
      BY <2>2, <3>0, SumsPick
    <3>2. /\ Sums(f, S)[s] = f[p] + Sums(f, S)[t]
          /\ Sums(g, S)[s] = g[p] + Sums(g, S)[t]
      BY <2>2, <3>0, SumsSplit
    <3>3. Sums(f, S)[t] \in Nat
      BY <3>1, SumsNat
    <3>4. /\ Sums(g, S)[t] = Sums(f, S)[t] + IF w \in t THEN d ELSE 0
          /\ w \in t => f[w] <= Sums(f, S)[t]
      BY <1>1, <3>1
    <3>5. f[p] \in Nat /\ g[p] = f[p] + IF p = w THEN d ELSE 0
      BY <3>1
    <3>6. CASE p = w
      <4>1. w \notin t /\ w \in s
        BY <3>0, <3>1, <3>6
      <4>2. Sums(g, S)[s] = Sums(f, S)[s] + d /\ f[w] <= Sums(f, S)[s]
        BY <3>2, <3>3, <3>4, <3>5, <3>6, <4>1
      <4> QED
        BY <4>1, <4>2
    <3>7. CASE p # w /\ w \in s
      <4>1. w \in t
        BY <3>0, <3>7
      <4>2. Sums(g, S)[s] = Sums(f, S)[s] + d /\ f[w] <= Sums(f, S)[s]
        BY <3>2, <3>3, <3>4, <3>5, <3>7, <4>1
      <4> QED
        BY <3>7, <4>2
    <3>8. CASE p # w /\ w \notin s
      <4>1. w \notin t
        BY <3>0, <3>8
      <4>2. Sums(g, S)[s] = Sums(f, S)[s] + 0
        BY <3>2, <3>3, <3>4, <3>5, <3>8, <4>1
      <4> QED
        BY <3>8, <4>2
    <3> QED
      BY <3>6, <3>7, <3>8
  <2> QED
    BY <2>1, <2>2
<1> QED
  <2> HIDE DEF T
  <2>1. SUBSET S \subseteq T
    BY <1>1, SubsetInduction
  <2>2. S \in T
    BY <2>1
  <2> QED
    BY <2>2 DEF T, RaisedTotal

(* The exact share of the worker whose score grows with the total does not *)
(* shrink, and no other share grows; a share is q whole satoshis and f of  *)
(* t parts of one.                                                         *)
Exact(D, s, t, q, f) == D * s = t * q + f
NoLess(t, u, q, f, p, g) == q <= p /\ (q = p => u * f <= t * g)
NoMore(t, u, q, f, p, g) == p <= q /\ (q = p => t * g <= u * f)

LEMMA Grows ==
  ASSUME NEW D \in Nat, NEW s \in Nat, NEW r \in Nat, NEW t \in Nat, NEW u \in Nat,
         t > 0, s <= t, s <= r, u - t = r - s,
         NEW q \in Nat, NEW f \in Nat, NEW p \in Nat, NEW g \in Nat, g < u,
         Exact(D, s, t, q, f), Exact(D, r, u, p, g)
  PROVE  NoLess(t, u, q, f, p, g)
<1>0. PICK d \in Nat : d = r - s
  OBVIOUS
<1>a. r = s + d /\ u = t + d
  BY <1>0
<1>b. D * s = t * q + f /\ D * (s + d) = (t + d) * p + g /\ g < t + d
  BY <1>a DEF Exact
<1>1. t * (D * (s + d)) - (t + d) * (D * s) = D * d * (t - s)
  OBVIOUS
<1>2. D * d * (t - s) >= 0
  <2>1. D * d \in Nat /\ t - s \in Nat
    OBVIOUS
  <2> QED
    BY <2>1
<1>3. t * ((t + d) * p + g) >= (t + d) * (t * q + f)
  <2>1. PICK x \in Nat, y \in Nat : x = D * s /\ y = D * (s + d)
    OBVIOUS
  <2>2. t * y >= (t + d) * x
    <3>1. t * y - (t + d) * x = D * d * (t - s)
      BY <1>1, <2>1
    <3>2. t * y \in Int /\ (t + d) * x \in Int
      OBVIOUS
    <3> QED
      BY <1>2, <3>1, <3>2
  <2>3. x = t * q + f /\ y = (t + d) * p + g
    BY <1>b, <2>1
  <2> QED
    BY <2>2, <2>3
<1>4. q <= p
  <2> SUFFICES ASSUME p + 1 <= q
               PROVE  FALSE
    OBVIOUS
  <2>1. t * (t + d) * (q - p - 1) >= 0
    <3>1. t * (t + d) \in Nat /\ q - p - 1 \in Nat
      OBVIOUS
    <3> QED
      BY <3>1
  <2>2. t * (t + d - g) > 0
    <3>1. t + d - g \in Nat /\ t + d - g > 0
      BY <1>b
    <3> QED
      BY <3>1
  <2>3. (t + d) * f >= 0
    OBVIOUS
  <2> QED
    BY <1>3, <2>1, <2>2, <2>3
<1>5. ASSUME q = p
      PROVE  (t + d) * f <= t * g
  BY <1>3, <1>5
<1> QED
  BY <1>4, <1>5, <1>a DEF NoLess

LEMMA Shrinks ==
  ASSUME NEW D \in Nat, NEW s \in Nat, NEW t \in Nat, NEW u \in Nat, t > 0, t <= u,
         NEW q \in Nat, NEW f \in Nat, NEW p \in Nat, NEW g \in Nat, f < t,
         Exact(D, s, t, q, f), Exact(D, s, u, p, g)
  PROVE  NoMore(t, u, q, f, p, g)
<1>0. PICK d \in Nat : d = u - t
  OBVIOUS
<1>a. u = t + d
  BY <1>0
<1>b. D * s = t * q + f /\ D * s = (t + d) * p + g
  BY <1>a DEF Exact
<1>3. (t + d) * (t * q + f) >= t * ((t + d) * p + g)
  <2>1. PICK x \in Nat : x = D * s
    OBVIOUS
  <2>2. (t + d) * x >= t * x
    <3>1. (t + d) * x - t * x = d * x /\ d * x >= 0
      OBVIOUS
    <3>2. t * x \in Int /\ (t + d) * x \in Int
      OBVIOUS
    <3> QED
      BY <3>1, <3>2
  <2>3. x = t * q + f /\ x = (t + d) * p + g
    BY <1>b, <2>1
  <2> QED
    BY <2>2, <2>3
<1>4. p <= q
  <2> SUFFICES ASSUME q + 1 <= p
               PROVE  FALSE
    OBVIOUS
  <2>1. t * (t + d) * (p - q - 1) >= 0
    <3>1. t * (t + d) \in Nat /\ p - q - 1 \in Nat
      OBVIOUS
    <3> QED
      BY <3>1
  <2>2. (t + d) * (t - f) > 0
    <3>1. t - f \in Nat /\ t - f > 0 /\ t + d > 0
      OBVIOUS
    <3> QED
      BY <3>1
  <2>3. t * g >= 0
    OBVIOUS
  <2> QED
    BY <1>3, <2>1, <2>2, <2>3
<1>5. ASSUME q = p
      PROVE  t * g <= (t + d) * f
  BY <1>3, <1>5
<1> QED
  BY <1>4, <1>5, <1>a DEF NoMore

NotAhead(u, i, t, k) == u * i <= t * k

LEMMA NoOvertaking ==
  ASSUME NEW t \in Nat, t > 0, NEW u \in Nat, u > 0,
         NEW i \in Nat, NEW j \in Nat, NEW k \in Nat, NEW l \in Nat,
         NEW v \in Nat, NEW w \in Nat,
         NotAhead(u, i, t, k), NotAhead(t, l, u, j),
         i > j \/ (i = j /\ w < v), l > k \/ (l = k /\ v < w)
  PROVE  FALSE
<1>1. u * (i - j) >= 0 /\ t * (l - k) >= 0
  OBVIOUS
<1>2. u * (i - j) = u * i - u * j /\ t * (l - k) = t * l - t * k
  OBVIOUS
<1>3. u * (i - j) = 0 /\ t * (l - k) = 0
  BY <1>1, <1>2 DEF NotAhead
<1>4. i = j /\ l = k
  BY <1>3
<1> QED
  BY <1>4

(* What is known of an allocation, before a step and after it.             *)
Allocation ==
  Credited # {} =>
    /\ IsFiniteSet(Credited)
    /\ Distributable \in Nat
    /\ Total \in Nat /\ Total > 0
    /\ Total = Sums(score, Credited)[Credited]
    /\ Sums(Credit, Credited)[Credited] = Distributable
    /\ \A w \in Credited :
         /\ w \in Nat /\ score[w] \in Nat
         /\ Whole(w) \in Nat /\ Fraction(w) \in Nat /\ Fraction(w) < Total
         /\ Exact(Distributable, score[w], Total, Whole(w), Fraction(w))
         /\ Credit[w] = Whole(w) + IF w \in Served THEN 1 ELSE 0
    /\ \A v \in Served : \A w \in Credited \ Served :
         \/ Fraction(v) > Fraction(w)
         \/ Fraction(v) = Fraction(w) /\ v < w

LEMMA Allocated == SplitTyped => Allocation
<1> SUFFICES ASSUME SplitTyped, Credited # {}
             PROVE  Allocation
  BY DEF Allocation
<1>1. IsFiniteSet(Credited)
  BY CreditedFinite
<1>2. Total = Sums(score, Credited)[Credited]
  BY SumOfSums DEF Total
<1>3. Sums(Credit, Credited)[Credited] = Distributable
  BY SumOfSums, ExactlyAll
<1>4. ASSUME NEW w \in Credited
      PROVE  Credit[w] = Whole(w) + IF w \in Served THEN 1 ELSE 0
  BY DEF Credit, Served
<1>5. ASSUME NEW v \in Served, NEW w \in Credited \ Served
      PROVE  \/ Fraction(v) > Fraction(w)
             \/ Fraction(v) = Fraction(w) /\ v < w
  BY ServedFirst DEF Ahead
<1> QED
  BY <1>1, <1>2, <1>3, <1>4, <1>5, Parts DEF Allocation, Exact

(* If the worker whose score grew lost a satoshi, somebody else gained one *)
(* by overtaking him, though no exact share but his has grown.             *)
LEMMA ShareAdded ==
  ASSUME SplitTyped, Allocation, Allocation',
         NEW w \in Workers, NEW d \in Difficulty, AddShare(w, d), w \in Credited
  PROVE  Credit'[w] >= Credit[w]
<1>1. /\ d \in Nat /\ Distributable' = Distributable
      /\ score' \in [Workers -> Nat] /\ score'[w] = score[w] + d
      /\ \A v \in Workers : v # w => score'[v] = score[v]
  BY SplitAssumption DEF AddShare, SplitTyped, Distributable
<1>2. Credited' = Credited /\ Credited # {} /\ Credited \subseteq Workers
  BY <1>1 DEF Credited, SplitTyped
<1>3. /\ IsFiniteSet(Credited)
      /\ Distributable \in Nat
      /\ Total \in Nat /\ Total > 0
      /\ Total = Sums(score, Credited)[Credited]
      /\ Sums(Credit, Credited)[Credited] = Distributable
      /\ \A v \in Credited :
           /\ v \in Nat /\ score[v] \in Nat
           /\ Whole(v) \in Nat /\ Fraction(v) \in Nat /\ Fraction(v) < Total
           /\ Exact(Distributable, score[v], Total, Whole(v), Fraction(v))
           /\ Credit[v] = Whole(v) + IF v \in Served THEN 1 ELSE 0
      /\ \A v \in Served : \A x \in Credited \ Served :
           \/ Fraction(v) > Fraction(x)
           \/ Fraction(v) = Fraction(x) /\ v < x
  BY <1>2 DEF Allocation
<1>4. /\ Total' \in Nat /\ Total' > 0
      /\ Total' = Sums(score', Credited)[Credited]
      /\ Sums(Credit', Credited)[Credited] = Distributable
      /\ \A v \in Credited :
           /\ score'[v] \in Nat
           /\ Whole(v)' \in Nat /\ Fraction(v)' \in Nat /\ Fraction(v)' < Total'
           /\ Exact(Distributable, score'[v], Total', Whole(v)', Fraction(v)')
           /\ Credit'[v] = Whole(v)' + IF v \in Served' THEN 1 ELSE 0
      /\ \A v \in Served' : \A x \in Credited \ Served' :
           \/ Fraction(v)' > Fraction(x)'
           \/ Fraction(v)' = Fraction(x)' /\ v < x
  BY <1>1, <1>2 DEF Allocation
<1>5. Total' = Total + d /\ score[w] <= Total
  <2>1. PICK f, g, S : f = score /\ g = score' /\ S = Credited
    OBVIOUS
  <2>2. Raised(f, g, w, d, S) /\ w \in S
    BY <1>1, <1>2, <1>3, <2>1 DEF Raised
  <2>3. RaisedTotal(f, g, w, d, S)
    BY <1>1, <1>3, <2>1, <2>2, SumsRaise
  <2> QED
    BY <1>3, <1>4, <2>1, <2>3 DEF RaisedTotal
<1>6. NoLess(Total, Total', Whole(w), Fraction(w), Whole(w)', Fraction(w)')
  <2>1. score[w] <= score'[w] /\ Total' - Total = score'[w] - score[w]
    BY <1>1, <1>3, <1>5
  <2> QED
    BY <1>3, <1>4, <1>5, <2>1, Grows
<1>7. ASSUME NEW v \in Credited, v # w
      PROVE  NoMore(Total, Total', Whole(v), Fraction(v), Whole(v)', Fraction(v)')
  <2>1. score'[v] = score[v] /\ Total <= Total'
    BY <1>1, <1>2, <1>3, <1>5, <1>7
  <2> QED
    BY <1>3, <1>4, <2>1, Shrinks
<1>8. SUFFICES ASSUME Credit'[w] < Credit[w]
               PROVE  FALSE
  BY <1>3, <1>4
<1>9. /\ w \in Served /\ w \in Credited \ Served' /\ Whole(w)' = Whole(w)
      /\ Total' * Fraction(w) <= Total * Fraction(w)'
  BY <1>3, <1>4, <1>6, <1>8 DEF NoLess
<1>10. \A v \in Credited : Credit[v] \in Nat /\ Credit'[v] \in Nat
  BY <1>3, <1>4
<1>11. PICK v \in Credited : Credit'[v] > Credit[v]
  <2> SUFFICES ASSUME \A v \in Credited : Credit'[v] <= Credit[v]
               PROVE  FALSE
    BY <1>10
  <2>1. PICK f, g, S : f = Credit' /\ g = Credit /\ S = Credited
    OBVIOUS
  <2>2. /\ \A x \in S : f[x] \in Nat /\ g[x] \in Nat /\ f[x] <= g[x]
        /\ f[w] < g[w] /\ w \in S /\ IsFiniteSet(S)
    BY <1>3, <1>8, <1>10, <2>1
  <2>3. Sums(f, S)[S] < Sums(g, S)[S]
    BY <2>2, SumsFewer
  <2> QED
    BY <1>3, <1>4, <2>1, <2>3
<1>12. v # w
  BY <1>8, <1>10, <1>11
<1>13. /\ v \in Served' /\ v \in Credited \ Served /\ Whole(v)' = Whole(v)
       /\ Total * Fraction(v)' <= Total' * Fraction(v)
  BY <1>3, <1>4, <1>7, <1>11, <1>12 DEF NoMore
<1>14. Fraction(w) > Fraction(v) \/ (Fraction(w) = Fraction(v) /\ w < v)
  BY <1>3, <1>9, <1>13
<1>15. Fraction(v)' > Fraction(w)' \/ (Fraction(v)' = Fraction(w)' /\ v < w)
  BY <1>4, <1>9, <1>13
<1>16. /\ NotAhead(Total', Fraction(w), Total, Fraction(w)')
       /\ NotAhead(Total, Fraction(v)', Total', Fraction(v))
  BY <1>9, <1>13 DEF NotAhead
<1> QED
  BY <1>3, <1>4, <1>9, <1>13, <1>14, <1>15, <1>16, NoOvertaking

(* One more share in the window never costs its worker a satoshi, although *)
(* everybody's remainders are ranked anew.                                 *)
THEOREM MoreWorkAlwaysPays == SplitSpec => MoreWorkNeverPaysLess
<1> DEFINE PaysMore == \A w \in Credited :
                     score'[w] > score[w] => Credit'[w] >= Credit[w]
<1>1. SplitTyped /\ SplitTyped' /\ Allocation /\ Allocation' /\ [SplitNext]_splitVars
        => [PaysMore]_splitVars
  <2> SUFFICES ASSUME SplitTyped, Allocation, Allocation', SplitNext,
                      NEW x \in Credited, score'[x] > score[x]
               PROVE  Credit'[x] >= Credit[x]
    OBVIOUS
  <2>1. x \in Workers /\ score[x] \in Nat
    BY DEF Credited, SplitTyped
  <2>2. CASE AddFee
    BY <2>1, <2>2 DEF AddFee
  <2>3. ASSUME NEW w \in Workers, NEW d \in Difficulty, AddShare(w, d)
        PROVE  Credit'[x] >= Credit[x]
    <3>1. x = w
      BY <2>1, <2>3 DEF AddShare, SplitTyped
    <3> QED
      BY <2>3, <3>1, ShareAdded
  <2> QED
    BY <2>2, <2>3 DEF SplitNext
<1> QED
  BY <1>1, SplitAlwaysTyped, Allocated, PTL DEF SplitSpec, MoreWorkNeverPaysLess

(***************************************************************************)
(* What becomes of them: PayoutCommands.                                   *)
(***************************************************************************)

USE DEF ledgerVars

(* A batch whose credits nobody else may have.                             *)
Keeps(i) == batch[i] \in {"planned", "psbt_ready", "broadcast", "confirmed",
                          "paid"}

Attached == {"broadcast", "confirmed", "paid"}

(* While nothing was written on stale ground, a payment and its batch are  *)
(* at the same point, although a late check may have put the payment back. *)
RowsAgree ==
  \A i \in Batches :
    /\ payment[i] = "psbt_ready" <=> batch[i] = "psbt_ready"
    /\ payment[i] \in Attached <=> batch[i] \in Attached
    /\ txid[i] <=> payment[i] \in Attached
    /\ sent[i] => payment[i] \in Attached \cup {"psbt_ready"}

(* What a running command has read that is still so when it writes.        *)
ReadsHold ==
  \A o \in Operators : \A i \in Batches :
    command[o].batch = i =>
      /\ command[o].kind = "unsend" => ~sent[i]
      /\ command[o].kind \in {"check", "record", "settle"} => txid[i]

KeptOnce ==
  /\ \A i, j \in Batches :
       i # j /\ Keeps(i) /\ Keeps(j) => links[i] \cap links[j] = {}
  /\ \A i \in Batches : \A c \in links[i] :
       Keeps(i) => credit[c] \in {"planned", "paid"}

(* What a check found out.                                                 *)
ChecksSound ==
  \A o \in Operators :
    command[o].kind \in {"check", "record"} => command[o].state \in Attached

CommandsSound == ~stale => RowsAgree /\ ReadsHold /\ KeptOnce

-----------------------------------------------------------------------------
Flags == [Batches -> BOOLEAN]

LEMMA ReadsTypeOK ==
  ASSUME TypeOK, NEW o \in Operators, NEW c,
         command' = [command EXCEPT ![o] = c],
         c \in [kind : Kinds \cup {"none"}, batch : Batches \cup {NoBatch},
                read : SUBSET Credits, state : States],
         UNCHANGED <<ledgerVars, sent, mined, stale>>
  PROVE  TypeOK'
BY DEF TypeOK

LEMMA StepTypeOK ==
  ASSUME TypeOK, ChecksSound, [Next]_vars
  PROVE  TypeOK'
<1>0. Idle \in [kind : Kinds \cup {"none"}, batch : Batches \cup {NoBatch},
                read : SUBSET Credits, state : States]
  BY DEF Idle, States
<1>1. ASSUME NEW o \in Operators, NEW i \in Batches, Reads(o, i)
      PROVE  TypeOK'
  <2>1. PICK kind \in Kinds, read \in SUBSET Credits, state \in States :
          Begin(o, kind, i, read, state)
    BY <1>1 DEF Reads, Plan, Cancel, Build, Attach, CancelPsbt,
                Check, Settle, Kinds, States
  <2> QED BY <2>1, ReadsTypeOK DEF Begin, Holds
<1>2. ASSUME NEW o \in Operators, ReadPayment(o)
      PROVE  TypeOK'
  <2>1. PICK state \in States :
          Holds(o, [command[o] EXCEPT !.kind = "record", !.state = state])
    BY <1>2 DEF ReadPayment, States, TypeOK
  <2>2. [command[o] EXCEPT !.kind = "record", !.state = state]
          \in [kind : Kinds \cup {"none"}, batch : Batches \cup {NoBatch},
              read : SUBSET Credits, state : States]
    BY <2>1 DEF TypeOK, Kinds
  <2> QED BY <2>1, <2>2, ReadsTypeOK DEF Holds
<1>3. ASSUME NEW o \in Operators, Die(o)
      PROVE  TypeOK'
  BY <1>0, <1>3, ReadsTypeOK DEF Die, Holds
<1>4. ASSUME NEW o \in Operators, NEW i \in Batches, Writes(o, i)
      PROVE  TypeOK'
  <2>1. /\ command' \in [Operators -> [kind : Kinds \cup {"none"},
                                       batch : Batches \cup {NoBatch},
                                       read : SUBSET Credits, state : States]]
        /\ UNCHANGED <<sent, mined>>
    BY <1>0, <1>4
    DEF Writes, WritePlan, WriteCancel, WritePsbt, WriteTxid, WriteCancelPsbt,
        WriteCheck, WriteSettlement, Transaction,
       TypeOK
  <2>2. command[o].read \in SUBSET Credits /\ command[o].state \in States
    BY DEF TypeOK
  <2>3. CASE WritePlan(o, i)
    BY <2>1, <2>2, <2>3 DEF WritePlan, TypeOK
  <2>4. CASE WriteCancel(o, i) \/ WriteCancelPsbt(o, i)
    <3>1. credit' \in [Credits -> {"pending", "planned", "paid"}]
      BY <2>4 DEF WriteCancel, WriteCancelPsbt, Release, TypeOK
    <3>2. batch' \in [Batches -> {"absent", "planned", "psbt_ready",
                                 "broadcast", "confirmed", "paid", "cancelled"}]
      BY <2>4 DEF WriteCancel, WriteCancelPsbt, TypeOK
    <3>3. payment' \in [Batches -> {"none", "psbt_ready", "broadcast",
                                   "confirmed", "paid", "cancelled"}]
      BY <2>4 DEF WriteCancel, WriteCancelPsbt, TypeOK
    <3>4. stale' \in BOOLEAN /\ UNCHANGED <<links, txid>>
      BY <2>4 DEF WriteCancel, WriteCancelPsbt, TypeOK
    <3> QED
      BY <2>1, <3>1, <3>2, <3>3, <3>4 DEF TypeOK
  <2>5. CASE WritePsbt(o, i)
    BY <2>1, <2>5 DEF WritePsbt, TypeOK
  <2>7. CASE WriteTxid(o, i)
    BY <2>1, <2>7 DEF WriteTxid, TypeOK
  <2>8. CASE WriteCheck(o, i)
    <3>1. command[o].state \in Attached
      BY <2>8 DEF WriteCheck, Transaction, ChecksSound
    <3> QED
      BY <2>1, <2>8, <3>1 DEF WriteCheck, Attached, TypeOK
  <2>9. CASE WriteSettlement(o, i)
    BY <2>1, <2>9 DEF WriteSettlement, TypeOK
  <2> QED
    BY <1>4, <2>3, <2>4, <2>5, <2>7, <2>8, <2>9 DEF Writes
<1>5. ASSUME NEW i \in Batches, Sign(i) \/ Mined(i)
      PROVE  TypeOK'
  <2>1. {txid, sent, mined} \subseteq Flags
    BY DEF TypeOK, Flags
  <2>2. {txid', sent', mined'} \subseteq Flags
    BY <1>5, <2>1 DEF Sign, Mined, Flags
  <2> QED
    BY <1>5, <2>2 DEF Sign, Mined, TypeOK, Flags
<1>6. CASE UNCHANGED vars
  BY <1>6 DEF vars, TypeOK
<1> QED
  BY <1>1, <1>2, <1>3, <1>4, <1>5, <1>6 DEF Next

LEMMA StepChecksSound ==
  ASSUME TypeOK, ChecksSound, [Next]_vars
  PROVE  ChecksSound'
<1>1. ASSUME NEW o \in Operators, NEW i \in Batches, Reads(o, i)
      PROVE  ChecksSound'
  BY <1>1 DEF Reads, Plan, Cancel, Build, Attach, CancelPsbt, Check,
              Settle, Begin, Holds, ChecksSound, Attached, TypeOK
<1>2. ASSUME NEW o \in Operators, ReadPayment(o)
      PROVE  ChecksSound'
  BY <1>2 DEF ReadPayment, Holds, ChecksSound, Attached, TypeOK
<1>3. ASSUME NEW o \in Operators, command' = [command EXCEPT ![o] = Idle]
      PROVE  ChecksSound'
  BY <1>3 DEF ChecksSound, Idle, TypeOK
<1>4. ASSUME UNCHANGED command
      PROVE  ChecksSound'
  BY <1>4 DEF ChecksSound
<1> QED
  BY <1>1, <1>2, <1>3, <1>4
  DEF Next, Die, Holds, Writes, WritePlan, WriteCancel, WritePsbt,
      WriteTxid, WriteCancelPsbt, WriteCheck,
      WriteSettlement, Transaction, Sign, Mined, vars

-----------------------------------------------------------------------------
(* Rows and reads.                                                         *)

(* A command that only reads, or dies.                                     *)
LEMMA ReadsSound ==
  ASSUME TypeOK, CommandsSound, NEW o \in Operators, NEW c,
         command' = [command EXCEPT ![o] = c],
         UNCHANGED <<ledgerVars, sent, mined, stale>>,
         ~stale => /\ c.kind = "unsend" => \A i \in Batches :
                                            c.batch = i => ~sent[i]
                   /\ c.kind \in {"check", "record", "settle"} =>
                        \A i \in Batches : c.batch = i => txid[i]
  PROVE  CommandsSound'
<1> SUFFICES ASSUME ~stale
             PROVE  RowsAgree' /\ ReadsHold' /\ KeptOnce'
  BY DEF CommandsSound
<1>1. RowsAgree' /\ KeptOnce'
  BY DEF CommandsSound, RowsAgree, KeptOnce, Keeps
<1>2. ReadsHold'
  BY DEF CommandsSound, ReadsHold, TypeOK
<1> QED
  BY <1>1, <1>2

LEMMA ReadStepSound ==
  ASSUME TypeOK, CommandsSound, NEW o \in Operators, NEW i \in Batches,
         Reads(o, i)
  PROVE  CommandsSound'
<1>1. CASE Plan(o, i) \/ Cancel(o, i) \/ Build(o, i) \/ Attach(o, i)
  <2>1. PICK kind, read, state :
          /\ kind \in {"plan", "cancel", "build", "attach"}
          /\ Begin(o, kind, i, read, state)
    BY <1>1 DEF Plan, Cancel, Build, Attach
  <2> QED
    BY <2>1, ReadsSound DEF Begin, Holds
<1>2. CASE CancelPsbt(o, i)
  BY <1>2, ReadsSound DEF CancelPsbt, Begin, Holds
<1>3. CASE Check(o, i)
  <2>1. PICK state : Begin(o, "check", i, {}, state)
    BY <1>3 DEF Check
  <2>2. txid[i]
    BY <1>3 DEF Check
  <2> DEFINE c == [kind |-> "check", batch |-> i, read |-> {}, state |-> state]
  <2>3. c.kind = "check" /\ c.batch = i
    OBVIOUS
  <2>4. /\ command' = [command EXCEPT ![o] = c]
        /\ UNCHANGED <<ledgerVars, sent, mined, stale>>
    BY <2>1 DEF Begin, Holds
  <2> HIDE DEF c
  <2> QED
    BY <2>2, <2>3, <2>4, ReadsSound
<1>4. CASE Settle(o, i)
  <2>1. ~stale => txid[i]
    BY <1>4 DEF Settle, CommandsSound, RowsAgree, Attached
  <2> QED
    BY <1>4, <2>1, ReadsSound DEF Settle, Begin, Holds
<1> QED
  BY <1>1, <1>2, <1>3, <1>4 DEF Reads

LEMMA OtherReadSound ==
  ASSUME TypeOK, CommandsSound, NEW o \in Operators, ReadPayment(o) \/ Die(o)
  PROVE  CommandsSound'
<1>1. CASE ReadPayment(o)
  <2>1. PICK state :
          Holds(o, [command[o] EXCEPT !.kind = "record", !.state = state])
    BY <1>1 DEF ReadPayment, TypeOK
  <2>2. ~stale => \A i \in Batches : command[o].batch = i => txid[i]
    BY <1>1 DEF ReadPayment, CommandsSound, ReadsHold
  <2> DEFINE c == [command[o] EXCEPT !.kind = "record", !.state = state]
  <2>3. c.kind = "record" /\ c.batch = command[o].batch
    BY DEF TypeOK
  <2>4. /\ command' = [command EXCEPT ![o] = c]
        /\ UNCHANGED <<ledgerVars, sent, mined, stale>>
    BY <2>1 DEF Holds
  <2> HIDE DEF c
  <2> QED
    BY <2>2, <2>3, <2>4, ReadsSound
<1>2. CASE Die(o)
  BY <1>2, ReadsSound DEF Die, Holds, Idle
<1> QED
  BY <1>1, <1>2

(* A command that has written reads no more; what others have read stays   *)
(* as it was.                                                              *)
LEMMA ReadsOutliveWrites ==
  ASSUME TypeOK, ReadsHold, NEW o \in Operators, NEW i \in Batches,
         NEW kind, Transaction(o, kind, i),
         \A j \in Batches : txid[j] => txid'[j]
  PROVE  ReadsHold'
BY DEF ReadsHold, Transaction, Idle, TypeOK

(* The credits of a batch go back when it ends.                            *)
LEMMA ReleaseKeeps ==
  ASSUME TypeOK, KeptOnce, NEW i \in Batches, Release(links[i]), links' = links,
         batch' = [batch EXCEPT ![i] = "cancelled"], Keeps(i)
  PROVE  KeptOnce'
<1>1. \A j \in Batches : Keeps(j)' => Keeps(j) /\ j # i
  BY DEF Keeps, TypeOK
<1>2. ASSUME NEW j \in Batches, Keeps(j)', NEW c \in links[j]
      PROVE  credit'[c] \in {"planned", "paid"}
  <2>1. c \notin links[i] /\ c \in Credits /\ credit[c] \in {"planned", "paid"}
    BY <1>1, <1>2 DEF KeptOnce, TypeOK
  <2> QED
    BY <2>1 DEF Release
<1> QED
  BY <1>1, <1>2 DEF KeptOnce

LEMMA WritePlanSound ==
  ASSUME TypeOK, CommandsSound, NEW o \in Operators, NEW i \in Batches,
         WritePlan(o, i)
  PROVE  CommandsSound'
<1> SUFFICES ASSUME ~stale
             PROVE  RowsAgree' /\ ReadsHold' /\ KeptOnce'
  BY DEF CommandsSound, WritePlan
<1> DEFINE S == command[o].read
<1>0. RowsAgree /\ ReadsHold /\ KeptOnce
  BY DEF CommandsSound
<1>1. /\ batch[i] = "absent"
      /\ \A c \in S : c \in Credits /\ credit[c] = "pending"
      /\ \A j \in Batches : batch'[j] = IF j = i THEN "planned" ELSE batch[j]
      /\ \A j \in Batches : links'[j] = IF j = i THEN S ELSE links[j]
      /\ \A c \in Credits : credit'[c] = IF c \in S THEN "planned"
                                         ELSE credit[c]
      /\ UNCHANGED <<payment, txid, sent>>
  BY DEF WritePlan, Transaction, Reservable, TypeOK
<1>2. RowsAgree'
  BY <1>0, <1>1 DEF RowsAgree, Attached
<1>3. ReadsHold'
  BY <1>0, ReadsOutliveWrites DEF WritePlan
<1>4. ASSUME NEW j \in Batches, j # i, Keeps(j)'
      PROVE  Keeps(j) /\ links[j] \cap S = {}
  BY <1>0, <1>1, <1>4 DEF Keeps, KeptOnce
<1>5. ASSUME NEW j \in Batches, Keeps(j)', NEW c \in links'[j]
      PROVE  credit'[c] \in {"planned", "paid"}
  BY <1>0, <1>1, <1>4, <1>5 DEF KeptOnce, TypeOK
<1>6. KeptOnce'
  BY <1>0, <1>1, <1>4, <1>5 DEF KeptOnce
<1> QED
  BY <1>2, <1>3, <1>6

LEMMA WriteCancelSound ==
  ASSUME TypeOK, CommandsSound, NEW o \in Operators, NEW i \in Batches,
         WriteCancel(o, i)
  PROVE  CommandsSound'
<1> SUFFICES ASSUME ~stale'
             PROVE  RowsAgree' /\ ReadsHold' /\ KeptOnce'
  BY DEF CommandsSound
<1>1. ~stale /\ batch[i] = "planned" /\ RowsAgree /\ ReadsHold /\ KeptOnce
  BY DEF WriteCancel, CommandsSound
<1>2. RowsAgree'
  <2>1. \A j \in Batches : batch'[j] = IF j = i THEN "cancelled" ELSE batch[j]
    BY DEF WriteCancel, TypeOK
  <2> QED
    BY <1>1, <2>1 DEF WriteCancel, Transaction, RowsAgree, Attached
<1>3. ReadsHold'
  BY <1>1, ReadsOutliveWrites DEF WriteCancel
<1>4. KeptOnce'
  BY <1>1, ReleaseKeeps DEF WriteCancel, Keeps
<1> QED
  BY <1>2, <1>3, <1>4

(* Writes that leave the credits alone, and move a batch only among the    *)
(* states that keep them.                                                  *)
LEMMA KeepsOnKeeping ==
  ASSUME KeptOnce, links' = links, credit' = credit,
         \A j \in Batches : Keeps(j)' => Keeps(j)
  PROVE  KeptOnce'
BY DEF KeptOnce

LEMMA WritePsbtSound ==
  ASSUME TypeOK, CommandsSound, NEW o \in Operators, NEW i \in Batches,
         WritePsbt(o, i)
  PROVE  CommandsSound'
<1> SUFFICES ASSUME ~stale'
             PROVE  RowsAgree' /\ ReadsHold' /\ KeptOnce'
  BY DEF CommandsSound
<1>1. ~stale /\ batch[i] = "planned" /\ RowsAgree /\ ReadsHold /\ KeptOnce
  BY DEF WritePsbt, CommandsSound
<1>2. \A j \in Batches :
        /\ batch'[j] = IF j = i THEN "psbt_ready" ELSE batch[j]
        /\ payment'[j] = IF j = i THEN "psbt_ready" ELSE payment[j]
  BY <1>1 DEF WritePsbt, TypeOK
<1>3. RowsAgree'
  BY <1>1, <1>2 DEF WritePsbt, Transaction, RowsAgree, Attached
<1>4. ReadsHold'
  BY <1>1, ReadsOutliveWrites DEF WritePsbt
<1>5. KeptOnce'
  BY <1>1, <1>2, KeepsOnKeeping DEF WritePsbt, Keeps
<1> QED
  BY <1>3, <1>4, <1>5

LEMMA WriteTxidSound ==
  ASSUME TypeOK, CommandsSound, NEW o \in Operators, NEW i \in Batches,
         WriteTxid(o, i)
  PROVE  CommandsSound'
<1> SUFFICES ASSUME ~stale
             PROVE  RowsAgree' /\ ReadsHold' /\ KeptOnce'
  BY DEF CommandsSound, WriteTxid
<1>1. RowsAgree /\ ReadsHold /\ KeptOnce
  BY DEF CommandsSound
<1>2. txid \in Flags
  BY DEF TypeOK, Flags
<1>3. \A j \in Batches :
        /\ batch'[j] = IF j = i /\ batch[j] = "psbt_ready" THEN "broadcast"
                       ELSE batch[j]
        /\ payment'[j] = IF j = i /\ payment[j] = "psbt_ready" THEN "broadcast"
                         ELSE payment[j]
        /\ txid'[j] <=> (txid[j] \/ (j = i /\ payment[j] = "psbt_ready"))
  BY <1>2 DEF WriteTxid, TypeOK, Flags
<1>4. RowsAgree'
  BY <1>1, <1>3 DEF WriteTxid, Transaction, RowsAgree, Attached
<1>5. ReadsHold'
  BY <1>1, <1>3, ReadsOutliveWrites DEF WriteTxid
<1>6. KeptOnce'
  BY <1>1, <1>3, KeepsOnKeeping DEF WriteTxid, Keeps
<1> QED
  BY <1>4, <1>5, <1>6

LEMMA WriteCancelPsbtSound ==
  ASSUME TypeOK, CommandsSound, NEW o \in Operators, NEW i \in Batches,
         WriteCancelPsbt(o, i)
  PROVE  CommandsSound'
<1> SUFFICES ASSUME ~stale'
             PROVE  RowsAgree' /\ ReadsHold' /\ KeptOnce'
  BY DEF CommandsSound
<1>1. ~stale /\ payment[i] = "psbt_ready" /\ RowsAgree /\ ReadsHold /\ KeptOnce
  BY DEF WriteCancelPsbt, CommandsSound
<1>2. batch[i] = "psbt_ready" /\ ~txid[i] /\ ~sent[i]
  BY <1>1 DEF RowsAgree, ReadsHold, Attached, WriteCancelPsbt, Transaction
<1>3. \A j \in Batches :
        /\ batch'[j] = IF j = i THEN "cancelled" ELSE batch[j]
        /\ payment'[j] = IF j = i THEN "cancelled" ELSE payment[j]
  BY <1>2 DEF WriteCancelPsbt, TypeOK
<1>4. RowsAgree'
  BY <1>1, <1>2, <1>3 DEF WriteCancelPsbt, Transaction, RowsAgree, Attached
<1>5. ReadsHold'
  BY <1>1, ReadsOutliveWrites DEF WriteCancelPsbt
<1>6. batch' = [batch EXCEPT ![i] = "cancelled"]
  BY <1>2 DEF WriteCancelPsbt, TypeOK
<1>7. KeptOnce'
  BY <1>1, <1>2, <1>6, ReleaseKeeps DEF WriteCancelPsbt, Keeps
<1> QED
  BY <1>4, <1>5, <1>7

LEMMA WriteCheckSound ==
  ASSUME TypeOK, ChecksSound, CommandsSound, NEW o \in Operators,
         NEW i \in Batches, WriteCheck(o, i)
  PROVE  CommandsSound'
<1> SUFFICES ASSUME ~stale
             PROVE  RowsAgree' /\ ReadsHold' /\ KeptOnce'
  BY DEF CommandsSound, WriteCheck
<1>1. RowsAgree /\ ReadsHold /\ KeptOnce
  BY DEF CommandsSound
<1>2. txid[i] /\ batch[i] \in Attached
  BY <1>1 DEF RowsAgree, ReadsHold, WriteCheck, Transaction
<1>3. command[o].state \in Attached
  BY DEF ChecksSound, WriteCheck, Transaction
<1>4. /\ \A j \in Batches : payment'[j] = IF j = i THEN command[o].state
                                          ELSE payment[j]
      /\ \A j \in Batches : j # i => batch'[j] = batch[j]
      /\ batch'[i] \in Attached
  BY <1>2, <1>3 DEF WriteCheck, TypeOK
<1>5. RowsAgree'
  BY <1>1, <1>2, <1>3, <1>4 DEF WriteCheck, Transaction, RowsAgree, Attached
<1>6. ReadsHold'
  BY <1>1, ReadsOutliveWrites DEF WriteCheck
<1>7. KeptOnce'
  BY <1>1, <1>2, <1>4, KeepsOnKeeping DEF WriteCheck, Keeps, Attached
<1> QED
  BY <1>5, <1>6, <1>7

LEMMA WriteSettlementSound ==
  ASSUME TypeOK, CommandsSound, NEW o \in Operators, NEW i \in Batches,
         WriteSettlement(o, i)
  PROVE  CommandsSound'
<1> SUFFICES ASSUME ~stale
             PROVE  RowsAgree' /\ ReadsHold' /\ KeptOnce'
  BY DEF CommandsSound, WriteSettlement
<1>1. RowsAgree /\ ReadsHold /\ KeptOnce
  BY DEF CommandsSound
<1>2. txid[i] /\ batch[i] \in Attached
  BY <1>1 DEF RowsAgree, ReadsHold, WriteSettlement, Transaction
<1>3. /\ \A j \in Batches :
           /\ batch'[j] = IF j = i THEN "paid" ELSE batch[j]
           /\ payment'[j] = IF j = i THEN "paid" ELSE payment[j]
      /\ \A c \in Credits : credit'[c] = IF c \in links[i] THEN "paid"
                                         ELSE credit[c]
  BY DEF WriteSettlement, TypeOK
<1>4. RowsAgree'
  BY <1>1, <1>2, <1>3 DEF WriteSettlement, Transaction, RowsAgree, Attached
<1>5. ReadsHold'
  BY <1>1, ReadsOutliveWrites DEF WriteSettlement
<1>6. \A j \in Batches : Keeps(j)' => Keeps(j)
  BY <1>2, <1>3 DEF Keeps, Attached
<1>7. KeptOnce'
  BY <1>1, <1>3, <1>6 DEF WriteSettlement, KeptOnce, TypeOK
<1> QED
  BY <1>4, <1>5, <1>7

(* The signer and the chain.  No PSBT is signed while a guard that has     *)
(* seen it unsigned is about to cancel it.                                 *)
LEMMA OutsideSound ==
  ASSUME TypeOK, CommandsSound, NEW i \in Batches,
         Sign(i) \/ Mined(i)
  PROVE  CommandsSound'
<1> SUFFICES ASSUME ~stale
             PROVE  RowsAgree' /\ ReadsHold' /\ KeptOnce'
  BY DEF CommandsSound, Sign, Mined
<1>1. RowsAgree /\ ReadsHold /\ KeptOnce
  BY DEF CommandsSound
<1>2. UNCHANGED <<credit, links, batch, payment, txid, command>>
  BY DEF Sign, Mined
<1>3. sent \in Flags
  BY DEF TypeOK, Flags
<1>4. KeptOnce'
  BY <1>1, <1>2, KeepsOnKeeping DEF Keeps
<1>5. CASE Sign(i)
  <2>1. \A j \in Batches : sent'[j] <=> (sent[j] \/ j = i)
    BY <1>3, <1>5 DEF Sign, Flags
  <2>2. payment[i] \in Attached \cup {"psbt_ready"}
    BY <1>5 DEF Sign, Attached, TypeOK
  <2>3. RowsAgree'
    BY <1>1, <1>2, <2>1, <2>2 DEF RowsAgree
  <2>4. ReadsHold'
    BY <1>1, <1>2, <1>5, <2>1 DEF Sign, ReadsHold
  <2> QED
    BY <1>4, <2>3, <2>4
<1>6. CASE sent' = sent
  BY <1>1, <1>2, <1>4, <1>6 DEF RowsAgree, ReadsHold
<1> QED
  BY <1>5, <1>6 DEF Mined

LEMMA StepSound ==
  ASSUME TypeOK, ChecksSound, CommandsSound, [Next]_vars
  PROVE  CommandsSound'
<1>1. ASSUME NEW o \in Operators, NEW i \in Batches, Writes(o, i)
      PROVE  CommandsSound'
  BY <1>1, WritePlanSound, WriteCancelSound, WritePsbtSound,
     WriteTxidSound, WriteCancelPsbtSound, WriteCheckSound,
     WriteSettlementSound DEF Writes
<1>2. CASE UNCHANGED vars
  BY <1>2 DEF vars, CommandsSound, RowsAgree, ReadsHold, KeptOnce, Keeps
<1> QED
  BY <1>1, <1>2, ReadStepSound, OtherReadSound, OutsideSound DEF Next

-----------------------------------------------------------------------------
(* Theorems.                                                               *)

(* Every variable keeps its type, whatever commands interleave, and a      *)
(* check has found a transaction that can be recorded as broadcast,        *)
(* confirmed or paid.                                                      *)
THEOREM CommandsAlwaysTyped == Spec => [](TypeOK /\ ChecksSound)
<1>1. Init => TypeOK /\ ChecksSound
  <2> SUFFICES ASSUME Init
               PROVE  TypeOK /\ ChecksSound
    OBVIOUS
  <2>1. {txid, sent, mined} \subseteq [Batches -> BOOLEAN]
    BY DEF Init
  <2>2. command \in [Operators -> [kind : Kinds \cup {"none"},
                                   batch : Batches \cup {NoBatch},
                                   read : SUBSET Credits, state : States]]
    BY DEF Init, Idle, States
  <2>3. ChecksSound
    BY DEF Init, Idle, ChecksSound
  <2> QED
    BY <2>1, <2>2, <2>3 DEF Init, TypeOK
<1>2. TypeOK /\ ChecksSound /\ [Next]_vars => (TypeOK /\ ChecksSound)'
  BY StepTypeOK, StepChecksSound
<1> QED
  BY <1>1, <1>2, PTL DEF Spec

(* While nothing was written on stale ground, payment and batch agree,     *)
(* what a running command relies on still holds, and every batch that is   *)
(* not over has its credits to itself.                                     *)
THEOREM CommandsAlwaysSound == Spec => []CommandsSound
<1>1. Init => CommandsSound
  BY DEF Init, CommandsSound, RowsAgree, ReadsHold, KeptOnce, Keeps, Attached,
         Idle
<1>2. TypeOK /\ ChecksSound /\ CommandsSound /\ [Next]_vars => CommandsSound'
  BY StepSound
<1> QED
  BY <1>1, <1>2, CommandsAlwaysTyped, PTL DEF Spec

(* Whatever the commands of any number of operators interleave, only a     *)
(* cancellation or a PSBT written on stale ground lets a credit be         *)
(* reserved by two batches, or paid by two transactions.                   *)
THEOREM CreditsReservedOnce == Spec => []ReservedOnce
<1>1. CommandsSound => ReservedOnce
  <2> SUFFICES ASSUME CommandsSound, ~stale
               PROVE  ReservedOnce
    BY DEF ReservedOnce
  <2>1. \A i \in Batches : Live(i) \/ sent[i] => Keeps(i)
    BY DEF CommandsSound, RowsAgree, Live, Keeps, Attached
  <2> QED
    BY <2>1 DEF CommandsSound, KeptOnce, ReservedOnce
<1> QED
  BY <1>1, CommandsAlwaysSound, PTL

(* No command takes back a credit that another has marked paid, those      *)
(* that write on stale ground included.                                    *)
THEOREM PaidStaysPaid == Spec => PaidForGood
<1> DEFINE Stays == \A c \in Credits : credit[c] = "paid" => credit'[c] = "paid"
<1>1. TypeOK /\ [Next]_vars => Stays
  <2> SUFFICES ASSUME TypeOK, [Next]_vars
               PROVE  Stays
    OBVIOUS
  <2>1. ASSUME NEW o \in Operators, NEW i \in Batches, Writes(o, i)
        PROVE  Stays
    <3>1. CASE WritePlan(o, i)
      BY <3>1 DEF WritePlan, Reservable
    <3>2. CASE WriteCancel(o, i) \/ WriteCancelPsbt(o, i)
      BY <3>2 DEF WriteCancel, WriteCancelPsbt, Release
    <3>3. CASE WriteSettlement(o, i)
      BY <3>3 DEF WriteSettlement
    <3> QED
      BY <2>1, <3>1, <3>2, <3>3
      DEF Writes, WritePsbt, WriteTxid, WriteCheck
  <2>2. CASE UNCHANGED credit
    BY <2>2
  <2> QED
    BY <2>1, <2>2 DEF Next, vars, Sign, Mined, ReadPayment, Die,
       Holds, Reads, Plan, Cancel, Build, Attach, CancelPsbt, Check,
       Settle, Begin
<1> QED
  BY <1>1, CommandsAlwaysTyped, PTL DEF Spec, PaidForGood
=============================================================================
