---------------------------- MODULE ScoringProofs ----------------------------
(***************************************************************************)
(* Proofs about Scoring: an evaluation scores no model above 1 and a        *)
(* stricter threshold no higher, and the mAP of a detection is the average  *)
(* precision by its definition, for every dataset.                          *)
(*                                                                          *)
(* The way there: induction over numbers, as the least element outside a    *)
(* set of them; functions defined by recursion; rankings of finite sets and *)
(* their sums; then the matching of one sample, the hits along the ranking  *)
(* of all, and the area under precision and recall, one annotation after    *)
(* the other; at last the steps of an evaluation.                           *)
(***************************************************************************)
EXTENDS Scoring, FiniteSetTheorems, FunctionTheorems, SequenceTheorems, WellFoundedInduction,
        TLAPS

-----------------------------------------------------------------------------
(* Induction, rankings, sums.                                               *)

(* A set of numbers that holds 0 and every successor holds them all. *)
LEMMA SetInduction ==
    ASSUME NEW T, 0 \in T, \A k \in Nat : k \in T => k + 1 \in T
    PROVE  Nat \subseteq T
<1> SUFFICES ASSUME Nat \ T # {} PROVE FALSE
  OBVIOUS
<1>1. PICK R : R = OpToRel(<, Nat)
  OBVIOUS
<1>2. \E x \in Nat \ T : \A y \in Nat \ T : ~(<<y, x>> \in R)
  BY <1>1, NatLessThanWellFounded, WFMin
<1>3. PICK x \in Nat \ T : \A y \in Nat \ T : ~(y < x)
  BY <1>1, <1>2 DEF OpToRel
<1> QED BY <1>3

(* The same up to n. *)
LEMMA BoundedInduction ==
    ASSUME NEW T, NEW n \in Nat, 0 \in T, \A k \in 0..(n - 1) : k \in T => k + 1 \in T
    PROVE  0..n \subseteq T
<1> DEFINE U == {k \in Nat : k <= n => k \in T}
<1>1. 0 \in U
  OBVIOUS
<1>2. ASSUME NEW k \in Nat, k \in U PROVE k + 1 \in U
  BY <1>2
<1> HIDE DEF U
<1>3. Nat \subseteq U
  BY <1>1, <1>2, SetInduction
<1> QED BY <1>3 DEF U

(* A function given by its first value and a step. *)
Recurses(f, n, A, b, G) ==
    f \in [0..n -> A] /\ f[0] = b /\ \A k \in 1..n : f[k] = G[<<k, f[k - 1]>>]

(* There is such a function. *)
LEMMA Recursion ==
    ASSUME NEW n \in Nat, NEW A, NEW b \in A, NEW G \in [(1..n) \X A -> A]
    PROVE  \E f : Recurses(f, n, A, b, G)
<1> DEFINE Goes(f, m) == f[0] = b /\ \A k \in 1..m : f[k] = G[<<k, f[k - 1]>>]
           T == {m \in 0..n : \E f \in [0..m -> A] : Goes(f, m)}
<1>1. 0 \in T
  <2>1. [k \in 0..0 |-> b] \in [0..0 -> A] /\ Goes([k \in 0..0 |-> b], 0)
    OBVIOUS
  <2> HIDE DEF Goes
  <2> QED BY <2>1
<1>2. ASSUME NEW m \in 0..(n - 1), m \in T PROVE m + 1 \in T
  <2>1. PICK f \in [0..m -> A] : Goes(f, m)
    BY <1>2
  <2> DEFINE g == [k \in 0..(m + 1) |-> IF k = m + 1 THEN G[<<m + 1, f[m]>>] ELSE f[k]]
  <2>2. G[<<m + 1, f[m]>>] \in A
    OBVIOUS
  <2>3. g \in [0..(m + 1) -> A]
    BY <2>2
  <2>4. \A k \in 0..m : g[k] = f[k]
    OBVIOUS
  <2>5. g[m + 1] = G[<<m + 1, f[m]>>]
    OBVIOUS
  <2> HIDE DEF g
  <2>6. g[0] = b
    BY <2>1, <2>4
  <2>7. ASSUME NEW k \in 1..(m + 1) PROVE g[k] = G[<<k, g[k - 1]>>]
    <3>1. CASE k = m + 1
      BY <2>4, <2>5, <3>1
    <3>2. CASE k \in 1..m
      BY <2>1, <2>4, <3>2
    <3> QED BY <3>1, <3>2
  <2>8. Goes(g, m + 1)
    BY <2>6, <2>7
  <2> HIDE DEF Goes
  <2> QED BY <2>3, <2>8
<1>3. n \in T
  <2> HIDE DEF T
  <2> QED BY <1>1, <1>2, BoundedInduction
<1> QED BY <1>3 DEF Recurses

-----------------------------------------------------------------------------
(* Orders. *)
(* earlier is a strict total order of S. *)
Orders(earlier, S) ==
    /\ \A x \in S : <<x, x>> \notin earlier
    /\ \A x, y \in S : x = y \/ <<x, y>> \in earlier \/ <<y, x>> \in earlier
    /\ \A x, y, z \in S : <<x, y>> \in earlier /\ <<y, z>> \in earlier => <<x, z>> \in earlier

(* A finite set can be ranked: an element stands behind those before it. *)
LEMMA RankingExists ==
    ASSUME NEW S, IsFiniteSet(S), NEW E, Orders(E, S)
    PROVE  \E order \in [1..Cardinality(S) -> S] :
              \A j, k \in DOMAIN order : j < k => <<order[j], order[k]>> \in E
<1> DEFINE n == Cardinality(S)
           Below(x) == {y \in S : <<y, x>> \in E}
           place == [x \in S |-> Cardinality(Below(x)) + 1]
<1>1. n \in Nat /\ IsFiniteSet(1..n) /\ Cardinality(1..n) = n
  BY FS_CardinalityType, FS_Interval
<1>2. ASSUME NEW x \in S
      PROVE  IsFiniteSet(Below(x)) /\ Cardinality(Below(x)) \in 0..(n - 1)
  <2>1. IsFiniteSet(S \ {x}) /\ Cardinality(S \ {x}) = n - 1
    BY FS_RemoveElement
  <2>2. Below(x) \in SUBSET (S \ {x})
    BY DEF Orders
  <2>3. IsFiniteSet(Below(x)) /\ Cardinality(Below(x)) <= n - 1
    BY <2>1, <2>2, FS_Subset
  <2> QED BY <2>3, <1>1, FS_CardinalityType
<1> HIDE DEF n, Below
<1>3. place \in [S -> 1..n]
  BY <1>1, <1>2
<1>4. ASSUME NEW x \in S, NEW y \in S, <<x, y>> \in E PROVE place[x] < place[y]
  <2>1. Below(x) \in SUBSET Below(y) /\ x \in Below(y) /\ x \notin Below(x)
    BY <1>4 DEF Orders, Below
  <2>2. Cardinality(Below(x)) <= Cardinality(Below(y)) /\ Cardinality(Below(x)) # Cardinality(Below(y))
    BY <1>2, <2>1, FS_Subset
  <2>3. place[x] = Cardinality(Below(x)) + 1 /\ place[y] = Cardinality(Below(y)) + 1
    OBVIOUS
  <2>4. Cardinality(Below(x)) \in Int /\ Cardinality(Below(y)) \in Int
    BY <1>1, <1>2
  <2> HIDE DEF place
  <2> QED BY <2>2, <2>3, <2>4
<1> HIDE DEF place
<1>5. ASSUME NEW x \in S, NEW y \in S, place[x] = place[y] PROVE x = y
  <2>1. place[x] \in Int
    BY <1>1, <1>3
  <2>2. x = y \/ <<x, y>> \in E \/ <<y, x>> \in E
    BY DEF Orders
  <2> QED BY <1>4, <1>5, <2>1, <2>2
<1>6. place \in Injection(S, 1..n)
  BY <1>3, <1>5, Fun_IsInj
<1>7. place \in Surjection(S, 1..n)
  BY <1>1, <1>6, FS_Injection DEF n
<1>8. \A k \in 1..n : \E x \in S : place[x] = k
  BY <1>7 DEF Surjection
<1> DEFINE order == [k \in 1..n |-> CHOOSE x \in S : place[x] = k]
<1>9. order \in [1..n -> S] /\ \A k \in 1..n : place[order[k]] = k
  <2>1. ASSUME NEW k \in 1..n PROVE order[k] \in S /\ place[order[k]] = k
    BY <1>8
  <2> QED BY <2>1
<1>10. ASSUME NEW j \in 1..n, NEW k \in 1..n, j < k PROVE <<order[j], order[k]>> \in E
  <2> HIDE DEF order
  <2>1. order[j] \in S /\ order[k] \in S /\ place[order[j]] = j /\ place[order[k]] = k
    BY <1>9
  <2>2. <<order[k], order[j]>> \notin E
    BY <2>1, <1>4, <1>10
  <2>3. order[j] # order[k]
    BY <2>1, <1>10
  <2> QED BY <2>1, <2>2, <2>3 DEF Orders
<1> HIDE DEF order
<1> QED BY <1>9, <1>10 DEF n

(* order lists every element of S once, as earlier has it. *)
Ranking(order, S, earlier) ==
    /\ Cardinality(S) \in Nat
    /\ order \in [1..Cardinality(S) -> S]
    /\ Len(order) = Cardinality(S)
    /\ \A j, k \in 1..Cardinality(S) : j < k <=> <<order[j], order[k]>> \in earlier
    /\ \A j, k \in 1..Cardinality(S) : order[j] = order[k] => j = k
    /\ \A x \in S : \E k \in 1..Cardinality(S) : order[k] = x

(* What np.argsort returns ranks the set, each element once. *)
LEMMA RankedIs ==
    ASSUME NEW S, IsFiniteSet(S), NEW E, Orders(E, S)
    PROVE  Ranking(Ranked(S, E), S, E)
<1>0. PICK order : order = Ranked(S, E)
  OBVIOUS
<1> DEFINE n == Cardinality(S)
<1>1. n \in Nat /\ IsFiniteSet(1..n) /\ Cardinality(1..n) = n
  BY FS_CardinalityType, FS_Interval
<1>2. order \in [1..n -> S] /\ \A j, k \in DOMAIN order : j < k => <<order[j], order[k]>> \in E
  BY <1>0, RankingExists DEF Ranked
<1>3. \A j, k \in 1..n : order[j] = order[k] => j = k
  <2> SUFFICES ASSUME NEW j \in 1..n, NEW k \in 1..n, order[j] = order[k], j < k PROVE FALSE
    BY <1>1
  <2>1. <<order[j], order[k]>> \in E /\ order[j] \in S
    BY <1>2
  <2> QED BY <2>1 DEF Orders
<1>4. \A j, k \in 1..n : j < k <=> <<order[j], order[k]>> \in E
  <2> SUFFICES ASSUME NEW j \in 1..n, NEW k \in 1..n, <<order[j], order[k]>> \in E, k <= j PROVE FALSE
    BY <1>1, <1>2
  <2>1. order[j] \in S /\ order[k] \in S
    BY <1>2
  <2>2. j # k
    BY <2>1 DEF Orders
  <2>3. <<order[k], order[j]>> \in E
    BY <1>1, <1>2, <2>2
  <2> QED BY <2>1, <2>3 DEF Orders
<1>5. order \in Surjection(1..n, S)
  BY <1>1, <1>2, <1>3, Fun_IsInj, FS_Injection
<1>6. \A x \in S : \E k \in 1..n : order[k] = x
  <2> HIDE DEF n
  <2> QED BY <1>5 DEF Surjection
<1>7. order \in Seq(S) /\ Len(order) = n
  BY <1>1, <1>2
<1>8. Ranking(order, S, E)
  BY <1>1, <1>2, <1>3, <1>4, <1>6, <1>7 DEF Ranking
<1> QED BY <1>0, <1>8

(* A finite set of integers has a maximum. *)
LEMMA MaxIs ==
    ASSUME NEW S \in SUBSET Int, IsFiniteSet(S), S # {}
    PROVE  Max(S) \in S /\ \A x \in S : x <= Max(S)
<1> DEFINE E == {e \in S \X S : e[1] > e[2]}
           n == Cardinality(S)
           order == Ranked(S, E)
<1>1. Orders(E, S)
  BY DEF Orders
<1>2. n \in Nat /\ n # 0
  BY FS_CardinalityType, FS_EmptySet
<1> HIDE DEF n, order
<1>3. /\ order \in [1..n -> S]
      /\ \A j, k \in 1..n : j < k <=> <<order[j], order[k]>> \in E
      /\ \A x \in S : \E k \in 1..n : order[k] = x
  <2> HIDE DEF E
  <2> QED BY <1>1, RankedIs DEF n, order, Ranking
<1>4. order[1] \in S /\ \A x \in S : order[1] >= x
  <2>1. ASSUME NEW k \in 1..n PROVE order[1] >= order[k]
    <3>a. 1 \in 1..n
      BY <1>2
    <3>b. order[1] \in S /\ order[k] \in S
      BY <3>a, <1>3
    <3> order[1] \in Int /\ order[k] \in Int
      BY <3>b
    <3>1. CASE k = 1
      BY <1>2, <1>3, <3>1
    <3>2. CASE 1 < k
      <4>1. <<order[1], order[k]>> \in E
        BY <1>2, <1>3, <3>2
      <4> QED BY <4>1
    <3> QED BY <1>2, <3>1, <3>2
  <2> QED BY <1>2, <1>3, <2>1
<1>5. \E x \in S : \A y \in S : x >= y
  BY <1>4
<1>6. Max(S) \in S /\ \A y \in S : Max(S) >= y
  BY <1>5 DEF Max
<1> QED BY <1>6

One(s) == CHOOSE x \in s : TRUE
Adds(it, F, U) ==
    it = [s \in SUBSET U |-> IF s = {} THEN 0 ELSE F[One(s)] + it[s \ {One(s)}]]

(* SumFunctionOnSet adds up the values, one element after the other. *)
LEMMA SumUnfolded ==
    ASSUME NEW F, NEW S
    PROVE  SumFunctionOnSet(F, S) = (CHOOSE it : Adds(it, F, S))[S]
  BY DEF SumFunctionOnSet, FoldFunctionOnSet, MapThenFoldSet, Adds, One

(* The element added next is one of those left. *)
LEMMA OneIs == ASSUME NEW s, s # {} PROVE One(s) \in s
  BY DEF One

(* Adding up is defined on all subsets. *)
LEMMA AddsExists ==
    ASSUME NEW U, IsFiniteSet(U), NEW F
    PROVE  \E it : Adds(it, F, U)
<1> DEFINE n == Cardinality(U)
           Up(k) == {s \in SUBSET U : Cardinality(s) <= k}
           Does(it, k) == it = [s \in Up(k) |-> IF s = {} THEN 0 ELSE F[One(s)] + it[s \ {One(s)}]]
           T == {k \in 0..n : \E it : Does(it, k)}
<1>1. n \in Nat /\ \A s \in SUBSET U : IsFiniteSet(s) /\ Cardinality(s) \in 0..n
  BY FS_CardinalityType, FS_Subset
<1>a. \A s \in SUBSET U : s # {} => Cardinality(s \ {One(s)}) = Cardinality(s) - 1
  BY <1>1, OneIs, FS_RemoveElement
<1>2. 0 \in T
  <2>1. \A s \in Up(0) : s = {}
    BY <1>1, FS_EmptySet
  <2>2. Does([s \in Up(0) |-> 0], 0)
    BY <2>1
  <2> HIDE DEF Does
  <2> QED BY <1>1, <2>2
<1>3. ASSUME NEW k \in 0..(n - 1), k \in T PROVE k + 1 \in T
  <2>1. PICK it : Does(it, k)
    BY <1>3
  <2> DEFINE new == [s \in Up(k + 1) |-> IF s = {} THEN 0 ELSE F[One(s)] + it[s \ {One(s)}]]
  <2>2. ASSUME NEW s \in Up(k) PROVE s \in Up(k + 1) /\ new[s] = it[s]
    <3>1. s \in Up(k + 1)
      BY <1>1, <1>3
    <3> HIDE DEF Up
    <3> QED BY <2>1, <3>1
  <2>3. ASSUME NEW s \in Up(k + 1), s # {} PROVE s \ {One(s)} \in Up(k)
    BY <1>1, <1>a, <2>3
  <2>4. \A s \in Up(k + 1) : new[s] = IF s = {} THEN 0 ELSE F[One(s)] + new[s \ {One(s)}]
    <3> HIDE DEF Up, Does
    <3>1. SUFFICES ASSUME NEW s \in Up(k + 1)
                   PROVE  new[s] = IF s = {} THEN 0 ELSE F[One(s)] + new[s \ {One(s)}]
      OBVIOUS
    <3>2. new[s] = IF s = {} THEN 0 ELSE F[One(s)] + it[s \ {One(s)}]
      OBVIOUS
    <3> HIDE DEF new
    <3> QED BY <2>2, <2>3, <3>2
  <2>5. Does(new, k + 1)
    <3>1. new = [s \in Up(k + 1) |-> new[s]]
      OBVIOUS
    <3>2. new = [s \in Up(k + 1) |-> IF s = {} THEN 0 ELSE F[One(s)] + new[s \ {One(s)}]]
      <4> HIDE DEF new, Up, Does
      <4> QED BY <2>4, <3>1
    <3> HIDE DEF new, Up
    <3> QED BY <3>2
  <2> HIDE DEF Does
  <2> QED BY <1>1, <2>5
<1>4. n \in T
  <2> HIDE DEF T
  <2> QED BY <1>1, <1>2, <1>3, BoundedInduction
<1>5. PICK it : Does(it, n)
  BY <1>4
<1>6. Up(n) = SUBSET U
  BY <1>1
<1>7. Adds(it, F, U)
  <2> HIDE DEF Up
  <2> QED BY <1>5, <1>6 DEF Adds
<1> QED BY <1>7

(* A sum does not depend on the set it is part of. *)
LEMMA AddsAgree ==
    ASSUME NEW U, IsFiniteSet(U), NEW F, NEW V \in SUBSET U,
           NEW f, Adds(f, F, U), NEW g, Adds(g, F, V)
    PROVE  \A s \in SUBSET V : f[s] = g[s]
<1> DEFINE n == Cardinality(U)
           P(k) == \A s \in SUBSET V : Cardinality(s) <= k => f[s] = g[s]
           T == {k \in 0..n : P(k)}
<1>1. n \in Nat /\ \A s \in SUBSET V : IsFiniteSet(s) /\ Cardinality(s) \in 0..n
  BY FS_CardinalityType, FS_Subset
<1>2. ASSUME NEW s \in SUBSET V, s # {}
      PROVE  /\ s \ {One(s)} \in SUBSET V
             /\ Cardinality(s \ {One(s)}) = Cardinality(s) - 1
             /\ f[s] = F[One(s)] + f[s \ {One(s)}]
             /\ g[s] = F[One(s)] + g[s \ {One(s)}]
  BY <1>1, <1>2, OneIs, FS_RemoveElement DEF Adds
<1>3. f[{}] = g[{}]
  BY DEF Adds
<1>4. P(0)
  <2>1. ASSUME NEW s \in SUBSET V, Cardinality(s) <= 0 PROVE s = {}
    BY <1>1, <2>1, FS_EmptySet
  <2> QED BY <1>3, <2>1
<1>5. ASSUME NEW k \in 0..(n - 1), P(k) PROVE P(k + 1)
  <2> SUFFICES ASSUME NEW s \in SUBSET V, Cardinality(s) <= k + 1, s # {} PROVE f[s] = g[s]
    BY <1>1, <1>3
  <2>1. Cardinality(s \ {One(s)}) <= k /\ s \ {One(s)} \in SUBSET V
    BY <1>1, <1>2
  <2>2. f[s \ {One(s)}] = g[s \ {One(s)}]
    BY <1>5, <2>1
  <2> QED BY <1>2, <2>2
<1>6. P(n)
  <2> HIDE DEF P
  <2>1. 0 \in T /\ \A k \in 0..(n - 1) : k \in T => k + 1 \in T
    BY <1>1, <1>4, <1>5
  <2> HIDE DEF T
  <2>2. n \in T
    BY <1>1, <2>1, BoundedInduction
  <2> QED BY <2>2 DEF T
<1> QED BY <1>1, <1>6

(* The sums of F over the parts of U. *)
Sums(sum, F, U) ==
    /\ sum \in [SUBSET U -> Int]
    /\ \A s \in SUBSET U : SumFunctionOnSet(F, s) = sum[s]
    /\ sum[{}] = 0
    /\ \A s \in SUBSET U : \A x \in s : sum[s] = F[x] + sum[s \ {x}]

(* A sum over a finite set of integers: any element may be taken out. *)
LEMMA SumIs ==
    ASSUME NEW U, IsFiniteSet(U), NEW F \in [U -> Int]
    PROVE  \E sum : Sums(sum, F, U)
<1>1. PICK sum : Adds(sum, F, U)
  BY AddsExists
<1>2. ASSUME NEW s \in SUBSET U PROVE SumFunctionOnSet(F, s) = sum[s]
  <2>1. PICK g : g = CHOOSE it : Adds(it, F, s)
    OBVIOUS
  <2>2. Adds(g, F, s)
    BY <2>1, AddsExists, FS_Subset
  <2>3. sum[s] = g[s]
    BY <1>1, <2>2, AddsAgree
  <2> QED BY <2>1, <2>3, SumUnfolded
<1> DEFINE n == Cardinality(U)
           P(k) == \A s \in SUBSET U : Cardinality(s) <= k =>
                    sum[s] \in Int /\ \A x \in s : sum[s] = F[x] + sum[s \ {x}]
           T == {k \in 0..n : P(k)}
<1>3. n \in Nat /\ \A s \in SUBSET U : IsFiniteSet(s) /\ Cardinality(s) \in 0..n
  BY FS_CardinalityType, FS_Subset
<1>4. sum[{}] = 0
  BY <1>1 DEF Adds
<1>5. ASSUME NEW s \in SUBSET U, s # {}
      PROVE  /\ One(s) \in s
             /\ sum[s] = F[One(s)] + sum[s \ {One(s)}]
  BY <1>1, <1>5, OneIs DEF Adds
<1>6. P(0)
  <2>1. ASSUME NEW s \in SUBSET U, Cardinality(s) <= 0 PROVE s = {}
    BY <1>3, <2>1, FS_EmptySet
  <2>2. sum[{}] \in Int /\ \A x \in {} : sum[{}] = F[x] + sum[{} \ {x}]
    BY <1>4
  <2>3. ASSUME NEW s \in SUBSET U, Cardinality(s) <= 0
        PROVE  sum[s] \in Int /\ \A x \in s : sum[s] = F[x] + sum[s \ {x}]
    <3>1. s = {}
      BY <2>1, <2>3
    <3> QED BY <2>2, <3>1
  <2> QED BY <2>3
<1>7. ASSUME NEW k \in 0..(n - 1), P(k) PROVE P(k + 1)
  <2> SUFFICES ASSUME NEW s \in SUBSET U, Cardinality(s) <= k + 1, s # {}
               PROVE  sum[s] \in Int /\ \A x \in s : sum[s] = F[x] + sum[s \ {x}]
    <3>1. ASSUME NEW s \in SUBSET U, s = {}
          PROVE  sum[s] \in Int /\ \A x \in s : sum[s] = F[x] + sum[s \ {x}]
      BY <1>4, <3>1
    <3> QED BY <3>1
  <2> DEFINE o == One(s)
  <2>1. o \in s /\ o \in U /\ F[o] \in Int /\ sum[s] = F[o] + sum[s \ {o}]
    BY <1>5
  <2> HIDE DEF o
  <2>2. \A x \in s : Cardinality(s \ {x}) = Cardinality(s) - 1
    BY <1>3, FS_RemoveElement
  <2>3. \A x \in s : /\ sum[s \ {x}] \in Int
                     /\ \A y \in s \ {x} : sum[s \ {x}] = F[y] + sum[(s \ {x}) \ {y}]
    BY <1>3, <1>7, <2>2
  <2>4. sum[s] \in Int
    BY <2>1, <2>3
  <2>5. ASSUME NEW x \in s, x # o PROVE sum[s] = F[x] + sum[s \ {x}]
    <3>1. sum[s \ {o}] = F[x] + sum[(s \ {o}) \ {x}]
      BY <2>1, <2>3, <2>5
    <3>2. sum[s \ {x}] = F[o] + sum[(s \ {x}) \ {o}]
      BY <2>1, <2>3, <2>5
    <3>3. (s \ {o}) \ {x} = (s \ {x}) \ {o}
      OBVIOUS
    <3>4. F[x] \in Int
      OBVIOUS
    <3>5. sum[(s \ {o}) \ {x}] \in Int
      <4>1. Cardinality((s \ {o}) \ {x}) <= k
        <5>1. IsFiniteSet(s \ {o}) /\ x \in s \ {o}
          BY <1>3, <2>5
        <5>2. Cardinality((s \ {o}) \ {x}) = Cardinality(s \ {o}) - 1
          BY <5>1, FS_RemoveElement
        <5> QED BY <1>3, <2>1, <2>2, <5>2
      <4> QED BY <1>7, <4>1
    <3> HIDE DEF P
    <3>6. sum[s] = F[o] + (F[x] + sum[(s \ {o}) \ {x}])
      BY <2>1, <3>1
    <3>7. sum[s \ {x}] = F[o] + sum[(s \ {o}) \ {x}]
      BY <3>2, <3>3
    <3> QED BY <2>1, <3>4, <3>5, <3>6, <3>7
  <2> QED BY <2>1, <2>4, <2>5
<1>8. P(n)
  <2> HIDE DEF P
  <2>1. 0 \in T /\ \A k \in 0..(n - 1) : k \in T => k + 1 \in T
    BY <1>3, <1>6, <1>7
  <2> HIDE DEF T
  <2>2. n \in T
    BY <1>3, <2>1, BoundedInduction
  <2> QED BY <2>2 DEF T
<1>9. sum = [s \in SUBSET U |-> sum[s]]
  <2> HIDE DEF P
  <2> QED BY <1>1 DEF Adds
<1>10. \A s \in SUBSET U : sum[s] \in Int /\ \A x \in s : sum[s] = F[x] + sum[s \ {x}]
  <2> SUFFICES ASSUME NEW s \in SUBSET U
               PROVE  sum[s] \in Int /\ \A x \in s : sum[s] = F[x] + sum[s \ {x}]
    OBVIOUS
  <2>1. Cardinality(s) <= n
    BY <1>3
  <2> QED BY <1>8, <2>1
<1>11. sum \in [SUBSET U -> Int]
  BY <1>9, <1>10
<1> QED BY <1>2, <1>4, <1>10, <1>11 DEF Sums

(* Sums from 1 on, one term at a time. *)
LEMMA SumPrefix ==
    ASSUME NEW n \in Nat, NEW F \in [1..n -> Int]
    PROVE  \E A \in [0..n -> Int] :
              /\ A[0] = 0
              /\ \A k \in 1..n : A[k] = A[k - 1] + F[k]
              /\ A[n] = SumFunction(F)
<1>1. IsFiniteSet(1..n)
  BY FS_Interval
<1>2. PICK sum : Sums(sum, F, 1..n)
  BY <1>1, SumIs
<1> DEFINE A == [k \in 0..n |-> sum[1..k]]
<1>3. \A k \in 0..n : 1..k \in SUBSET (1..n)
  OBVIOUS
<1>4. A \in [0..n -> Int]
  BY <1>2, <1>3 DEF Sums
<1>5. A[0] = 0
  <2>1. 1..0 = {}
    OBVIOUS
  <2> QED BY <1>2, <2>1 DEF Sums
<1>6. ASSUME NEW k \in 1..n PROVE A[k] = A[k - 1] + F[k]
  <2>1. k \in 1..k /\ (1..k) \ {k} = 1..(k - 1) /\ k \in 0..n /\ k - 1 \in 0..n
    OBVIOUS
  <2>a. 1..k \in SUBSET (1..n)
    BY <1>3, <2>1
  <2>2. sum[1..k] = F[k] + sum[(1..k) \ {k}]
    BY <1>2, <2>a, <2>1 DEF Sums
  <2>3. sum[1..(k - 1)] \in Int /\ F[k] \in Int
    BY <1>2, <1>3, <2>1 DEF Sums
  <2>4. A[k] = sum[1..k] /\ A[k - 1] = sum[1..(k - 1)]
    BY <2>1
  <2>5. sum[1..k] = F[k] + sum[1..(k - 1)]
    BY <2>1, <2>2
  <2> HIDE DEF A
  <2> QED BY <2>3, <2>4, <2>5
<1>7. A[n] = SumFunction(F)
  BY <1>2, <1>3 DEF Sums, SumFunction
<1> HIDE DEF A
<1> QED BY <1>4, <1>5, <1>6, <1>7

(* What is below term by term is below in the sum. *)
LEMMA SumMonotone ==
    ASSUME NEW U, IsFiniteSet(U), NEW F \in [U -> Int], NEW G \in [U -> Int],
           \A x \in U : F[x] <= G[x]
    PROVE  SumFunction(F) \in Int /\ SumFunction(G) \in Int /\ SumFunction(F) <= SumFunction(G)
<1>1. PICK f : Sums(f, F, U)
  BY SumIs
<1>2. PICK g : Sums(g, G, U)
  BY SumIs
<1> DEFINE n == Cardinality(U)
           P(k) == \A s \in SUBSET U : Cardinality(s) <= k => f[s] <= g[s]
           T == {k \in 0..n : P(k)}
<1>3. n \in Nat /\ \A s \in SUBSET U : IsFiniteSet(s) /\ Cardinality(s) \in 0..n
  BY FS_CardinalityType, FS_Subset
<1>4. P(0)
  <2>1. ASSUME NEW s \in SUBSET U, Cardinality(s) <= 0 PROVE s = {}
    BY <1>3, <2>1, FS_EmptySet
  <2>2. f[{}] <= g[{}]
    BY <1>1, <1>2 DEF Sums
  <2>3. ASSUME NEW s \in SUBSET U, Cardinality(s) <= 0 PROVE f[s] <= g[s]
    <3>1. s = {}
      BY <2>1, <2>3
    <3> QED BY <2>2, <3>1
  <2> QED BY <2>3
<1>5. ASSUME NEW k \in 0..(n - 1), P(k) PROVE P(k + 1)
  <2> SUFFICES ASSUME NEW s \in SUBSET U, Cardinality(s) <= k + 1, s # {} PROVE f[s] <= g[s]
    <3>1. f[{}] <= g[{}]
      BY <1>1, <1>2 DEF Sums
    <3>2. ASSUME NEW s \in SUBSET U, s = {} PROVE f[s] <= g[s]
      BY <3>1, <3>2
    <3> QED BY <3>2
  <2>1. PICK x \in s : TRUE
    OBVIOUS
  <2>2. Cardinality(s \ {x}) <= k /\ s \ {x} \in SUBSET U
    BY <1>3, FS_RemoveElement
  <2>3. f[s] = F[x] + f[s \ {x}] /\ g[s] = G[x] + g[s \ {x}] /\ F[x] <= G[x]
    BY <1>1, <1>2 DEF Sums
  <2>4. f[s \ {x}] <= g[s \ {x}]
    BY <1>5, <2>2
  <2>5. F[x] \in Int /\ G[x] \in Int /\ f[s \ {x}] \in Int /\ g[s \ {x}] \in Int
    BY <1>1, <1>2, <2>2 DEF Sums
  <2> QED BY <2>3, <2>4, <2>5
<1>6. P(n)
  <2> HIDE DEF P
  <2>1. 0 \in T /\ \A k \in 0..(n - 1) : k \in T => k + 1 \in T
    BY <1>3, <1>4, <1>5
  <2> HIDE DEF T
  <2>2. n \in T
    BY <1>3, <2>1, BoundedInduction
  <2> QED BY <2>2 DEF T
<1>7. DOMAIN F = U /\ DOMAIN G = U
  OBVIOUS
<1>8. U \in SUBSET U /\ f[U] <= g[U]
  BY <1>3, <1>6
<1> QED BY <1>1, <1>2, <1>7, <1>8 DEF Sums, SumFunction

(* So many terms, none above b. *)
LEMMA SumBounded ==
    ASSUME NEW U, IsFiniteSet(U), NEW F \in [U -> Int], NEW b \in Nat,
           \A x \in U : F[x] \in 0..b
    PROVE  SumFunction(F) \in 0..(b * Cardinality(U))
<1>1. PICK f : Sums(f, F, U)
  BY SumIs
<1> DEFINE n == Cardinality(U)
           P(k) == \A s \in SUBSET U : Cardinality(s) <= k => f[s] \in 0..(b * k)
           T == {k \in 0..n : P(k)}
<1>2. n \in Nat /\ \A s \in SUBSET U : IsFiniteSet(s) /\ Cardinality(s) \in 0..n
  BY FS_CardinalityType, FS_Subset
<1>3. P(0)
  <2>1. ASSUME NEW s \in SUBSET U, Cardinality(s) <= 0 PROVE s = {}
    BY <1>2, <2>1, FS_EmptySet
  <2>2. f[{}] = 0 /\ 0 \in 0..(b * 0)
    BY <1>1 DEF Sums
  <2> QED BY <2>1, <2>2
<1>4. ASSUME NEW k \in 0..(n - 1), P(k) PROVE P(k + 1)
  <2> SUFFICES ASSUME NEW s \in SUBSET U, Cardinality(s) <= k + 1, s # {} PROVE f[s] \in 0..(b * (k + 1))
    <3>1. f[{}] = 0 /\ 0 \in 0..(b * (k + 1))
      BY <1>1 DEF Sums
    <3> QED BY <3>1
  <2>1. PICK x \in s : TRUE
    BY <1>2, FS_EmptySet
  <2>2. Cardinality(s \ {x}) <= k /\ s \ {x} \in SUBSET U
    BY <1>2, FS_RemoveElement
  <2>3. f[s] = F[x] + f[s \ {x}] /\ F[x] \in 0..b
    BY <1>1 DEF Sums
  <2>4. f[s \ {x}] \in 0..(b * k)
    BY <1>4, <2>2
  <2>5. b * (k + 1) = b * k + b /\ b * k \in Int
    OBVIOUS
  <2> QED BY <2>3, <2>4, <2>5
<1>5. P(n)
  <2> HIDE DEF P
  <2>1. 0 \in T /\ \A k \in 0..(n - 1) : k \in T => k + 1 \in T
    BY <1>2, <1>3, <1>4
  <2> HIDE DEF T
  <2>2. n \in T
    BY <1>2, <2>1, BoundedInduction
  <2> QED BY <2>2 DEF T
<1>6. f[U] \in 0..(b * n)
  <2>1. U \in SUBSET U /\ Cardinality(U) <= n
    BY <1>2
  <2> QED BY <1>5, <2>1
<1>7. DOMAIN F = U /\ U \in SUBSET U
  OBVIOUS
<1> QED BY <1>1, <1>6, <1>7 DEF Sums, SumFunction

(* Sorting by descending score, with ties in order, is a total order. *)
LEMMA ByScoreOrders ==
    ASSUME NEW D \in SUBSET Int, NEW score \in [D -> Int], NEW S \in SUBSET D
    PROVE  Orders(ByScore(score), S)
<1>1. \A x, y \in S : <<x, y>> \in ByScore(score) <=>
                         score[x] > score[y] \/ (score[x] = score[y] /\ x < y)
  BY DEF ByScore
<1>2. \A x \in S : x \in Int /\ score[x] \in Int
  OBVIOUS
<1> HIDE DEF ByScore
<1> QED BY <1>1, <1>2 DEF Orders

(* What a sample of objects is made of. *)
LEMMA SampleParts ==
    ASSUME NEW task \in Boxed, NEW r \in SamplesOf(task), NEW cls
    PROVE  /\ r.gts \in Seq(Int) /\ Len(r.gts) \in Nat /\ DOMAIN r.gts = 1..Len(r.gts)
           /\ r.preds \in Seq([score : Int, cls : Int, sim : Seq(Int)])
           /\ Len(r.preds) \in Nat /\ DOMAIN r.preds = 1..Len(r.preds)
           /\ \A p \in DOMAIN r.preds : /\ r.preds[p].score \in Int
                                        /\ r.preds[p].sim \in [DOMAIN r.gts -> Int]
           /\ PredsOf(task, r, cls) \subseteq DOMAIN r.preds
           /\ IsFiniteSet(PredsOf(task, r, cls))
           /\ GtsOf(task, r, cls) \subseteq DOMAIN r.gts
           /\ IsFiniteSet(GtsOf(task, r, cls))
<1>1. /\ r.gts \in Seq(Int)
      /\ r.preds \in Seq([score : Int, cls : Int, sim : Seq(Int)])
      /\ \A p \in DOMAIN r.preds : Len(r.preds[p].sim) = Len(r.gts)
  BY DEF SamplesOf, Objects
<1>2. /\ Len(r.gts) \in Nat /\ DOMAIN r.gts = 1..Len(r.gts)
      /\ Len(r.preds) \in Nat /\ DOMAIN r.preds = 1..Len(r.preds)
  BY <1>1
<1>3. IsFiniteSet(DOMAIN r.gts) /\ IsFiniteSet(DOMAIN r.preds)
  BY <1>2, FS_Interval
<1>4. ASSUME NEW p \in DOMAIN r.preds
      PROVE  r.preds[p].score \in Int /\ r.preds[p].sim \in [DOMAIN r.gts -> Int]
  <2>1. r.preds[p] \in [score : Int, cls : Int, sim : Seq(Int)]
    BY <1>1, <1>2, ElementOfSeq
  <2>2. r.preds[p].sim \in Seq(Int) /\ Len(r.preds[p].sim) = Len(r.gts)
    BY <1>1, <2>1
  <2> QED BY <1>2, <2>1, <2>2
<1>5. PredsOf(task, r, cls) \in SUBSET DOMAIN r.preds /\ GtsOf(task, r, cls) \in SUBSET DOMAIN r.gts
  BY DEF PredsOf, GtsOf
<1>6. IsFiniteSet(PredsOf(task, r, cls)) /\ IsFiniteSet(GtsOf(task, r, cls))
  BY <1>3, <1>5, FS_Subset
<1> QED BY <1>1, <1>2, <1>4, <1>5, <1>6

(* There is no more than one best annotation, and there is one among some. *)
LEMMA BestIs ==
    ASSUME NEW D \in SUBSET Int, NEW sim \in [D -> Int], NEW among \in SUBSET D
    PROVE  /\ BestOf(sim, among) \subseteq among
           /\ \A g, h \in BestOf(sim, among) : g = h
           /\ IsFiniteSet(among) /\ among # {} => BestOf(sim, among) # {}
<1>1. BestOf(sim, among) \subseteq among
  BY DEF BestOf
<1>2. \A g, h \in BestOf(sim, among) : g = h
  <2> SUFFICES ASSUME NEW g \in BestOf(sim, among), NEW h \in BestOf(sim, among) PROVE g = h
    OBVIOUS
  <2>1. g \in Int /\ h \in Int /\ sim[g] \in Int /\ sim[h] \in Int
    BY <1>1
  <2> QED BY <2>1 DEF BestOf
<1>3. ASSUME IsFiniteSet(among), among # {} PROVE BestOf(sim, among) # {}
  <2> DEFINE order == Ranked(among, ByScore(sim))
             n == Cardinality(among)
  <2>1. Orders(ByScore(sim), among)
    BY ByScoreOrders
  <2>2. /\ n \in Nat /\ order \in [1..n -> among]
        /\ \A j, k \in 1..n : j < k <=> <<order[j], order[k]>> \in ByScore(sim)
        /\ \A x \in among : \E k \in 1..n : order[k] = x
    BY <1>3, <2>1, RankedIs DEF Ranking
  <2>3. n # 0
    BY <1>3, FS_EmptySet
  <2> HIDE DEF n, order
  <2>4. order[1] \in among
    BY <2>2, <2>3
  <2>5. ASSUME NEW h \in among
        PROVE  sim[order[1]] > sim[h] \/ (sim[order[1]] = sim[h] /\ order[1] <= h)
    <3>1. PICK k \in 1..n : order[k] = h
      BY <2>2
    <3>2. CASE k = 1
      BY <2>4, <3>1, <3>2
    <3>3. CASE 1 < k
      <4>1. <<order[1], h>> \in ByScore(sim)
        BY <2>2, <2>3, <3>1, <3>3
      <4>2. order[1] \in Int /\ h \in Int
        BY <2>4
      <4> QED BY <4>1, <4>2 DEF ByScore
    <3> QED BY <2>2, <3>2, <3>3
  <2>6. order[1] \in BestOf(sim, among)
    BY <2>4, <2>5 DEF BestOf
  <2> QED BY <2>6
<1> QED BY <1>1, <1>2, <1>3

-----------------------------------------------------------------------------
(* Matching. *)

Taken(pairs) == {m[2] : m \in pairs}
OrderOf(task, r, cls) == Ranked(PredsOf(task, r, cls), ByScore(ScoresOf(r.preds)))
FoundBy(task, r, cls, thr, p, taken) == Found(task, r.preds[p].sim, GtsOf(task, r, cls), taken, thr)

(* match is what is matched after the first k predictions, for every k. *)
Matches(match, n, task, r, cls, thr) ==
    /\ match \in [0..n -> SUBSET (PredsOf(task, r, cls) \X GtsOf(task, r, cls))]
    /\ match[0] = {}
    /\ \A k \in 1..n : LET p == OrderOf(task, r, cls)[k] IN
          match[k] = match[k - 1] \union
                        ({p} \X FoundBy(task, r, cls, thr, p, Taken(match[k - 1])))
    /\ match[n] = Match(task, r, cls, thr)

(* The predictions of a sample are gone through in a ranking. *)
LEMMA OrderOfIs ==
    ASSUME NEW task \in Boxed, NEW r \in SamplesOf(task), NEW cls
    PROVE  Ranking(OrderOf(task, r, cls), PredsOf(task, r, cls), ByScore(ScoresOf(r.preds)))
<1>1. /\ DOMAIN r.preds \in SUBSET Int /\ IsFiniteSet(PredsOf(task, r, cls))
      /\ PredsOf(task, r, cls) \in SUBSET DOMAIN r.preds
      /\ ScoresOf(r.preds) \in [DOMAIN r.preds -> Int]
  BY SampleParts DEF ScoresOf
<1>2. Orders(ByScore(ScoresOf(r.preds)), PredsOf(task, r, cls))
  BY <1>1, ByScoreOrders
<1> QED BY <1>1, <1>2, RankedIs DEF OrderOf

(* The matching is built prediction by prediction. *)
LEMMA MatchesExists ==
    ASSUME NEW task \in Boxed, NEW r \in SamplesOf(task), NEW cls, NEW thr
    PROVE  \E match : Matches(match, Cardinality(PredsOf(task, r, cls)), task, r, cls, thr)
<1> DEFINE n == Cardinality(PredsOf(task, r, cls))
           order == OrderOf(task, r, cls)
           A == SUBSET (PredsOf(task, r, cls) \X GtsOf(task, r, cls))
           Step(k, pairs) == pairs \union
              ({order[k]} \X Found(task, r.preds[order[k]].sim, GtsOf(task, r, cls),
                                   {m[2] : m \in pairs}, thr))
           G == [x \in (1..n) \X A |-> Step(x[1], x[2])]
           Good(match) == match = [k \in 0..n |-> IF k = 0 THEN {} ELSE Step(k, match[k - 1])]
<1>1. n \in Nat /\ order \in [1..n -> PredsOf(task, r, cls)] /\ Len(order) = n
  BY OrderOfIs DEF Ranking
<1>2. \A k \in 1..n, pairs \in A : Step(k, pairs) \in A
  <2> SUFFICES ASSUME NEW k \in 1..n, NEW pairs \in A PROVE Step(k, pairs) \in A
    OBVIOUS
  <2>1. Found(task, r.preds[order[k]].sim, GtsOf(task, r, cls), {m[2] : m \in pairs}, thr)
           \subseteq GtsOf(task, r, cls)
    BY DEF Found, BestOf
  <2>2. order[k] \in PredsOf(task, r, cls)
    BY <1>1
  <2> QED BY <2>1, <2>2
<1> HIDE DEF Step, A, order, n
<1>3. G \in [(1..n) \X A -> A]
  BY <1>2
<1>4. {} \in A
  BY DEF A
<1>5. PICK f : Recurses(f, n, A, {}, G)
  <2> HIDE DEF G
  <2> QED BY <1>1, <1>3, <1>4, Recursion
<1>6. \A k \in 1..n : f[k] = Step(k, f[k - 1])
  <2> SUFFICES ASSUME NEW k \in 1..n PROVE f[k] = Step(k, f[k - 1])
    OBVIOUS
  <2>a. k - 1 \in 0..n
    BY <1>1
  <2>1. <<k, f[k - 1]>> \in (1..n) \X A
    BY <1>5, <2>a DEF Recurses
  <2> QED BY <1>5, <2>1 DEF Recurses
<1>7. Good(f)
  <2>1. \A k \in 0..n : f[k] = IF k = 0 THEN {} ELSE Step(k, f[k - 1])
    BY <1>1, <1>5, <1>6 DEF Recurses
  <2> QED BY <1>5, <2>1 DEF Recurses
<1>8. Match(task, r, cls, thr) = (CHOOSE match : Good(match))[n]
  BY <1>1 DEF Match, Step, OrderOf, order
<1>9. PICK match : Good(match) /\ Match(task, r, cls, thr) = match[n]
  <2> HIDE DEF Good
  <2>1. Good(CHOOSE match : Good(match))
    BY <1>7
  <2> QED BY <1>8, <2>1
<1>10. match = f
  <2> DEFINE T == {k \in 0..n : match[k] = f[k]}
  <2>1. 0 \in T
    BY <1>1, <1>5, <1>9 DEF Recurses
  <2>2. ASSUME NEW k \in 0..(n - 1), k \in T PROVE k + 1 \in T
    <3>1. k + 1 \in 1..n /\ k + 1 \in 0..n
      BY <1>1
    <3>2. match[k + 1] = Step(k + 1, match[k])
      <4>1. \A l \in 0..n : match[l] = IF l = 0 THEN {} ELSE Step(l, match[l - 1])
        BY <1>9
      <4> HIDE DEF Good
      <4>2. k + 1 # 0 /\ (k + 1) - 1 = k
        BY <3>1
      <4> QED BY <3>1, <4>1, <4>2
    <3>3. f[k + 1] = Step(k + 1, f[k])
      <4>1. (k + 1) - 1 = k
        OBVIOUS
      <4> QED BY <1>6, <3>1, <4>1
    <3> QED BY <2>2, <3>1, <3>2, <3>3
  <2>3. 0..n \subseteq T
    <3> HIDE DEF T
    <3> QED BY <1>1, <2>1, <2>2, BoundedInduction
  <2>4. \A k \in 0..n : match[k] = f[k]
    BY <2>3
  <2>5. DOMAIN match = 0..n /\ match = [k \in 0..n |-> match[k]]
    BY <1>9
  <2>6. f = [k \in 0..n |-> f[k]]
    BY <1>5 DEF Recurses
  <2> QED BY <2>4, <2>5, <2>6
<1>11. f \in [0..n -> A] /\ f[0] = {} /\ f[n] = Match(task, r, cls, thr)
  BY <1>5, <1>9, <1>10 DEF Recurses
<1>12. \A k \in 1..n : f[k] = f[k - 1] \union
             ({order[k]} \X FoundBy(task, r, cls, thr, order[k], Taken(f[k - 1])))
  BY <1>6 DEF Step, FoundBy, Taken
<1>13. Matches(f, n, task, r, cls, thr)
  BY <1>11, <1>12 DEF Matches, A, order
<1> QED BY <1>13 DEF n

(* What a prediction finds is one annotation, not taken before. *)
LEMMA FoundIs ==
    ASSUME NEW task \in Boxed, NEW r \in SamplesOf(task), NEW cls, NEW thr,
           NEW p \in PredsOf(task, r, cls), NEW taken
    PROVE  LET found == FoundBy(task, r, cls, thr, p, taken) IN
           /\ found \subseteq GtsOf(task, r, cls)
           /\ \A g \in found : g \notin taken
           /\ \A g, h \in found : g = h
<1> DEFINE D == DOMAIN r.gts
           sim == r.preds[p].sim
           among == IF task = "detection" THEN GtsOf(task, r, cls) ELSE GtsOf(task, r, cls) \ taken
<1>1. D \in SUBSET Int /\ sim \in [D -> Int] /\ GtsOf(task, r, cls) \in SUBSET D
  <2>1. p \in DOMAIN r.preds
    BY SampleParts
  <2>2. DOMAIN r.gts = 1..Len(r.gts) /\ r.preds[p].sim \in [DOMAIN r.gts -> Int]
    BY <2>1, SampleParts
  <2>3. GtsOf(task, r, cls) \subseteq DOMAIN r.gts
    BY SampleParts
  <2> QED BY <2>2, <2>3
<1>2. among \in SUBSET D /\ among \subseteq GtsOf(task, r, cls)
  BY <1>1
<1>3. BestOf(sim, among) \subseteq among /\ \A g, h \in BestOf(sim, among) : g = h
  <2> HIDE DEF among, sim, D
  <2> QED BY <1>1, <1>2, BestIs
<1>4. FoundBy(task, r, cls, thr, p, taken)
         = {g \in BestOf(sim, among) : sim[g] >= thr /\ g \notin taken}
  BY DEF FoundBy, Found
<1> HIDE DEF among, sim, D
<1> QED BY <1>2, <1>3, <1>4

(* Every match was made at the place of its prediction. *)
LEMMA MatchMade ==
    ASSUME NEW task \in Boxed, NEW r \in SamplesOf(task), NEW cls, NEW thr, NEW n, NEW match,
           n = Cardinality(PredsOf(task, r, cls)), Matches(match, n, task, r, cls, thr)
    PROVE  \A k \in 0..n : \A m \in match[k] : \E j \in 1..k :
              /\ m[1] = OrderOf(task, r, cls)[j]
              /\ m[2] \in FoundBy(task, r, cls, thr, m[1], Taken(match[j - 1]))
<1> DEFINE order == OrderOf(task, r, cls)
           Made(m, k) == \E j \in 1..k :
              /\ m[1] = order[j]
              /\ m[2] \in FoundBy(task, r, cls, thr, m[1], Taken(match[j - 1]))
           P(k) == \A m \in match[k] : Made(m, k)
           T == {k \in 0..n : P(k)}
<1>1. n \in Nat
  BY OrderOfIs DEF Ranking
<1>2. P(0)
  BY DEF Matches
<1>3. ASSUME NEW k \in 0..(n - 1), P(k) PROVE P(k + 1)
  <2>1. match[k + 1] = match[k] \union
           ({order[k + 1]} \X FoundBy(task, r, cls, thr, order[k + 1], Taken(match[k])))
    <3>1. k + 1 \in 1..n /\ (k + 1) - 1 = k
      BY <1>1
    <3> QED BY <3>1 DEF Matches
  <2>2. ASSUME NEW m \in match[k] PROVE Made(m, k + 1)
    <3>1. PICK j \in 1..k : /\ m[1] = order[j]
                            /\ m[2] \in FoundBy(task, r, cls, thr, m[1], Taken(match[j - 1]))
      BY <1>3
    <3>2. j \in 1..(k + 1)
      OBVIOUS
    <3> QED BY <3>1, <3>2
  <2>3. ASSUME NEW m \in {order[k + 1]} \X FoundBy(task, r, cls, thr, order[k + 1], Taken(match[k]))
        PROVE  Made(m, k + 1)
    <3>1. k + 1 \in 1..(k + 1) /\ (k + 1) - 1 = k
      OBVIOUS
    <3>2. m[1] = order[k + 1] /\ m[2] \in FoundBy(task, r, cls, thr, m[1], Taken(match[k]))
      OBVIOUS
    <3> QED BY <3>1, <3>2
  <2> HIDE DEF Made
  <2> QED BY <2>1, <2>2, <2>3
<1>4. 0..n \subseteq T
  <2> HIDE DEF P
  <2>1. 0 \in T /\ \A k \in 0..(n - 1) : k \in T => k + 1 \in T
    BY <1>1, <1>2, <1>3
  <2> HIDE DEF T
  <2> QED BY <1>1, <2>1, BoundedInduction
<1> QED BY <1>4

(* Nothing matched is given up. *)
LEMMA MatchGrows ==
    ASSUME NEW task \in Boxed, NEW r \in SamplesOf(task), NEW cls, NEW thr, NEW n, NEW match,
           n = Cardinality(PredsOf(task, r, cls)), Matches(match, n, task, r, cls, thr)
    PROVE  \A k \in 0..n : \A j \in 0..k : match[j] \subseteq match[k]
<1> DEFINE P(k) == \A j \in 0..k : match[j] \subseteq match[k]
           T == {k \in 0..n : P(k)}
<1>1. n \in Nat
  BY OrderOfIs DEF Ranking
<1>2. P(0)
  OBVIOUS
<1>3. ASSUME NEW k \in 0..(n - 1), P(k) PROVE P(k + 1)
  <2>1. match[k] \subseteq match[k + 1]
    <3>1. k + 1 \in 1..n /\ (k + 1) - 1 = k
      BY <1>1
    <3> QED BY <3>1 DEF Matches
  <2>2. \A j \in 0..(k + 1) : j = k + 1 \/ j \in 0..k
    OBVIOUS
  <2> QED BY <1>3, <2>1, <2>2
<1>4. 0..n \subseteq T
  <2> HIDE DEF P
  <2>1. 0 \in T /\ \A k \in 0..(n - 1) : k \in T => k + 1 \in T
    BY <1>1, <1>2, <1>3
  <2> HIDE DEF T
  <2> QED BY <1>1, <2>1, BoundedInduction
<1> QED BY <1>4

(* Matching pairs off: no prediction and no annotation is matched twice. *)
LEMMA MatchPairs ==
    ASSUME NEW task \in Boxed, NEW r \in SamplesOf(task), NEW cls, NEW thr
    PROVE  /\ Match(task, r, cls, thr) \subseteq PredsOf(task, r, cls) \X GtsOf(task, r, cls)
           /\ \A l, m \in Match(task, r, cls, thr) : l[1] = m[1] \/ l[2] = m[2] => l = m
<1> DEFINE n == Cardinality(PredsOf(task, r, cls))
           order == OrderOf(task, r, cls)
<1>1. PICK match : Matches(match, n, task, r, cls, thr)
  BY MatchesExists
<1>2. /\ n \in Nat /\ order \in [1..n -> PredsOf(task, r, cls)]
      /\ \A j, k \in 1..n : order[j] = order[k] => j = k
  BY OrderOfIs DEF Ranking
<1> HIDE DEF n
<1>3. Match(task, r, cls, thr) = match[n]
  BY <1>1 DEF Matches
<1>4. match[n] \subseteq PredsOf(task, r, cls) \X GtsOf(task, r, cls) /\ n \in 0..n
  BY <1>1, <1>2 DEF Matches
<1>5. \A k \in 0..n : \A m \in match[k] : \E j \in 1..k :
              /\ m[1] = OrderOf(task, r, cls)[j]
              /\ m[2] \in FoundBy(task, r, cls, thr, m[1], Taken(match[j - 1]))
  BY <1>1, MatchMade DEF n
<1>6. \A k \in 0..n : \A j \in 0..k : match[j] \subseteq match[k]
  BY <1>1, MatchGrows DEF n
<1>a. \A m \in match[n] : \E j \in 1..n :
              /\ m[1] = OrderOf(task, r, cls)[j]
              /\ m[2] \in FoundBy(task, r, cls, thr, m[1], Taken(match[j - 1]))
  BY <1>4, <1>5
<1>7. ASSUME NEW l \in match[n], NEW m \in match[n], l[1] = m[1] \/ l[2] = m[2] PROVE l = m
  <2>1. PICK i \in 1..n : /\ l[1] = order[i]
                          /\ l[2] \in FoundBy(task, r, cls, thr, l[1], Taken(match[i - 1]))
    BY <1>a
  <2>2. PICK j \in 1..n : /\ m[1] = order[j]
                          /\ m[2] \in FoundBy(task, r, cls, thr, m[1], Taken(match[j - 1]))
    BY <1>a
  <2>3. order[i] \in PredsOf(task, r, cls) /\ order[j] \in PredsOf(task, r, cls)
    BY <1>2
  <2>4. /\ l[2] \notin Taken(match[i - 1]) /\ m[2] \notin Taken(match[j - 1])
        /\ i = j => l[2] = m[2]
    BY <2>1, <2>2, <2>3, FoundIs
  <2>5. l[2] \in Taken(match[i]) /\ m[2] \in Taken(match[j])
    <3>1. match[i] = match[i - 1] \union
              ({order[i]} \X FoundBy(task, r, cls, thr, order[i], Taken(match[i - 1])))
      BY <1>1 DEF Matches
    <3>2. match[j] = match[j - 1] \union
              ({order[j]} \X FoundBy(task, r, cls, thr, order[j], Taken(match[j - 1])))
      BY <1>1 DEF Matches
    <3>3. <<order[i], l[2]>> \in match[i] /\ <<order[j], m[2]>> \in match[j]
      BY <2>1, <2>2, <3>1, <3>2
    <3> QED BY <3>3 DEF Taken
  <2>6. CASE i < j
    <3>1. match[i] \subseteq match[j - 1]
      BY <1>2, <1>6, <2>6
    <3>2. l[2] \in Taken(match[j - 1])
      BY <2>5, <3>1 DEF Taken
    <3>3. l[1] # m[1]
      BY <1>2, <2>1, <2>2, <2>6
    <3> QED BY <1>7, <2>4, <3>2, <3>3
  <2>7. CASE j < i
    <3>1. match[j] \subseteq match[i - 1]
      BY <1>2, <1>6, <2>7
    <3>2. m[2] \in Taken(match[i - 1])
      BY <2>5, <3>1 DEF Taken
    <3>3. l[1] # m[1]
      BY <1>2, <2>1, <2>2, <2>7
    <3> QED BY <1>7, <2>4, <3>2, <3>3
  <2>8. CASE i = j
    <3>1. l[1] = m[1] /\ l[2] = m[2]
      BY <2>1, <2>2, <2>4, <2>8
    <3>2. l \in PredsOf(task, r, cls) \X GtsOf(task, r, cls) /\ m \in PredsOf(task, r, cls) \X GtsOf(task, r, cls)
      BY <1>4
    <3> QED BY <3>1, <3>2
  <2> QED BY <2>6, <2>7, <2>8
<1> QED BY <1>3, <1>4, <1>7

(* A lower threshold finds what a higher one finds, and no later: an        *)
(* annotation is taken by the same prediction or by an earlier one.         *)
LEMMA LowerFindsMore ==
    ASSUME NEW task \in Boxed, NEW r \in SamplesOf(task), NEW cls,
           NEW lo \in Int, NEW hi \in Int, lo <= hi
    PROVE  \A m \in Match(task, r, cls, hi) : \E l \in Match(task, r, cls, lo) :
              l[2] = m[2] /\ (l[1] = m[1] \/ <<l[1], m[1]>> \in ByScore(ScoresOf(r.preds)))
<1> DEFINE n == Cardinality(PredsOf(task, r, cls))
           order == OrderOf(task, r, cls)
<1>1. PICK low : Matches(low, n, task, r, cls, lo)
  BY MatchesExists
<1>2. PICK high : Matches(high, n, task, r, cls, hi)
  BY MatchesExists
<1>3. /\ n \in Nat /\ order \in [1..n -> PredsOf(task, r, cls)]
      /\ \A j, k \in 1..n : j < k <=> <<order[j], order[k]>> \in ByScore(ScoresOf(r.preds))
  BY OrderOfIs DEF Ranking
<1>4. /\ \A k \in 1..n : low[k] = low[k - 1] \union
            ({order[k]} \X FoundBy(task, r, cls, lo, order[k], Taken(low[k - 1])))
      /\ low[0] = {} /\ low[n] = Match(task, r, cls, lo)
  BY <1>1 DEF Matches
<1>5. /\ \A k \in 1..n : high[k] = high[k - 1] \union
            ({order[k]} \X FoundBy(task, r, cls, hi, order[k], Taken(high[k - 1])))
      /\ high[0] = {} /\ high[n] = Match(task, r, cls, hi)
  BY <1>2 DEF Matches
<1>6. /\ \A m \in high[n] : \E j \in 1..n :
            /\ m[1] = order[j]
            /\ m[2] \in FoundBy(task, r, cls, hi, m[1], Taken(high[j - 1]))
      /\ \A k \in 0..n : \A m \in low[k] : \E j \in 1..k : m[1] = order[j]
  <2>1. n \in 0..n
    BY <1>3
  <2>2. \A k \in 0..n : \A m \in high[k] : \E j \in 1..k :
            /\ m[1] = order[j]
            /\ m[2] \in FoundBy(task, r, cls, hi, m[1], Taken(high[j - 1]))
    BY <1>2, MatchMade
  <2>3. \A k \in 0..n : \A m \in low[k] : \E j \in 1..k : 
            /\ m[1] = order[j]
            /\ m[2] \in FoundBy(task, r, cls, lo, m[1], Taken(low[j - 1]))
    BY <1>1, MatchMade
  <2> HIDE DEF n, order
  <2> QED BY <2>1, <2>2, <2>3
<1>7. \A k \in 0..n : \A j \in 0..k : low[j] \subseteq low[k]
  BY <1>1, MatchGrows
<1> HIDE DEF n, order
<1> DEFINE T == {k \in 0..n : Taken(high[k]) \subseteq Taken(low[k])}
<1>8. 0 \in T
  <2>1. 0 \in 0..n /\ high[0] = {}
    BY <1>3, <1>5
  <2> QED BY <2>1 DEF Taken
<1>9. ASSUME NEW k \in 0..(n - 1), k \in T PROVE k + 1 \in T
  <2> DEFINE p == order[k + 1]
  <2>1. k + 1 \in 1..n /\ (k + 1) - 1 = k /\ k + 1 \in 0..n /\ Taken(high[k]) \subseteq Taken(low[k])
    BY <1>3, <1>9
  <2>2. /\ low[k + 1] = low[k] \union ({p} \X FoundBy(task, r, cls, lo, p, Taken(low[k])))
        /\ high[k + 1] = high[k] \union ({p} \X FoundBy(task, r, cls, hi, p, Taken(high[k])))
    BY <1>4, <1>5, <2>1
  <2>3. p \in PredsOf(task, r, cls)
    BY <1>3, <2>1
  <2> HIDE DEF p
  <2>4. ASSUME NEW g \in FoundBy(task, r, cls, hi, p, Taken(high[k])), g \notin Taken(low[k])
        PROVE  g \in FoundBy(task, r, cls, lo, p, Taken(low[k]))
    <3>1. g \in GtsOf(task, r, cls)
      BY <2>3, FoundIs
    <3>2. r.preds[p].sim[g] \in Int
      BY <2>3, <3>1, SampleParts
    <3>3. CASE task = "detection"
      BY <2>4, <3>2, <3>3 DEF FoundBy, Found
    <3>4. CASE task # "detection"
      BY <2>1, <2>4, <3>2, <3>4 DEF FoundBy, Found, BestOf
    <3> QED BY <3>3, <3>4
  <2>5. Taken(high[k + 1]) \subseteq Taken(low[k + 1])
    <3> SUFFICES ASSUME NEW m \in high[k + 1] PROVE m[2] \in Taken(low[k + 1])
      BY DEF Taken
    <3>1. Taken(low[k]) \subseteq Taken(low[k + 1])
      BY <2>2 DEF Taken
    <3>2. CASE m \in high[k]
      BY <2>1, <3>1, <3>2 DEF Taken
    <3>3. CASE m \in {p} \X FoundBy(task, r, cls, hi, p, Taken(high[k]))
      <4>1. m[2] \in Taken(low[k]) \/ <<p, m[2]>> \in low[k + 1]
        BY <2>2, <2>4, <3>3
      <4>2. <<p, m[2]>> \in low[k + 1] => m[2] \in Taken(low[k + 1])
        BY DEF Taken
      <4> QED BY <3>1, <4>1, <4>2
    <3> QED BY <2>2, <3>2, <3>3
  <2> QED BY <2>1, <2>5
<1>10. 0..n \subseteq T
  <2> HIDE DEF T
  <2> QED BY <1>3, <1>8, <1>9, BoundedInduction
<1>11. ASSUME NEW m \in high[n]
       PROVE  \E l \in low[n] :
                l[2] = m[2] /\ (l[1] = m[1] \/ <<l[1], m[1]>> \in ByScore(ScoresOf(r.preds)))
  <2>1. PICK j \in 1..n : /\ m[1] = order[j]
                          /\ m[2] \in FoundBy(task, r, cls, hi, m[1], Taken(high[j - 1]))
    BY <1>6
  <2>2. <<order[j], m[2]>> \in high[j]
    BY <1>5, <2>1
  <2>3. m[2] \in Taken(high[j])
    BY <2>2 DEF Taken
  <2>4. m[2] \in Taken(low[j]) /\ j \in 0..n /\ n \in 0..n
    BY <1>3, <1>10, <2>3
  <2>5. PICK l \in low[j] : l[2] = m[2]
    BY <2>4 DEF Taken
  <2>6. PICK i \in 1..j : l[1] = order[i]
    BY <1>6, <2>4
  <2>7. l \in low[n]
    BY <1>3, <1>7, <2>4
  <2>8. i = j \/ <<order[i], order[j]>> \in ByScore(ScoresOf(r.preds))
    BY <1>3
  <2> QED BY <2>1, <2>5, <2>6, <2>7, <2>8
<1> QED BY <1>4, <1>5, <1>11

(* The predictions, and the annotations, of all records: finitely many.     *)
LEMMA UnionFinite ==
    ASSUME NEW D, IsFiniteSet(D), NEW F, \A i \in D : IsFiniteSet(F[i])
    PROVE  IsFiniteSet(UNION {{i} \X F[i] : i \in D})
<1> DEFINE parts == {{i} \X F[i] : i \in D}
           f == [i \in D |-> {i} \X F[i]]
<1>1. f \in Surjection(D, parts)
  BY DEF Surjection
<1>2. IsFiniteSet(parts)
  BY <1>1, FS_Surjection
<1>3. \A i \in D : IsFiniteSet({i} \X F[i])
  BY FS_Singleton, FS_Product
<1>4. \A T \in parts : IsFiniteSet(T)
  BY <1>3
<1> HIDE DEF parts
<1> QED BY <1>2, <1>4, FS_UNION DEF parts

(* They are finitely many, pairs of a record and a place in it. *)
LEMMA AllIs ==
    ASSUME NEW task \in Boxed, NEW rs \in Seq(SamplesOf(task)), NEW cls
    PROVE  /\ IsFiniteSet(AllPreds(task, rs, cls)) /\ IsFiniteSet(AllGts(task, rs, cls))
           /\ \A i \in DOMAIN rs : rs[i] \in SamplesOf(task) /\ i \in Int
           /\ \A x \in AllPreds(task, rs, cls) : /\ x = <<x[1], x[2]>>
                                                 /\ x[1] \in DOMAIN rs
                                                 /\ x[2] \in PredsOf(task, rs[x[1]], cls)
           /\ \A i \in DOMAIN rs : \A p \in PredsOf(task, rs[i], cls) :
                 <<i, p>> \in AllPreds(task, rs, cls)
           /\ \A i \in DOMAIN rs : \A g \in GtsOf(task, rs[i], cls) :
                 <<i, g>> \in AllGts(task, rs, cls)
<1>1. DOMAIN rs = 1..Len(rs) /\ Len(rs) \in Nat
  OBVIOUS
<1>2. \A i \in DOMAIN rs : rs[i] \in SamplesOf(task) /\ i \in Int
  BY <1>1, ElementOfSeq
<1>3. IsFiniteSet(DOMAIN rs)
  BY <1>1, FS_Interval
<1>4. IsFiniteSet(AllPreds(task, rs, cls))
  <2> DEFINE F == [i \in DOMAIN rs |-> PredsOf(task, rs[i], cls)]
  <2>1. \A i \in DOMAIN rs : IsFiniteSet(F[i]) /\ F[i] = PredsOf(task, rs[i], cls)
    BY <1>2, SampleParts
  <2>2. AllPreds(task, rs, cls) = UNION {{i} \X F[i] : i \in DOMAIN rs}
    BY <2>1 DEF AllPreds
  <2> HIDE DEF F
  <2> QED BY <1>3, <2>1, <2>2, UnionFinite
<1>5. IsFiniteSet(AllGts(task, rs, cls))
  <2> DEFINE F == [i \in DOMAIN rs |-> GtsOf(task, rs[i], cls)]
  <2>1. \A i \in DOMAIN rs : IsFiniteSet(F[i]) /\ F[i] = GtsOf(task, rs[i], cls)
    BY <1>2, SampleParts
  <2>2. AllGts(task, rs, cls) = UNION {{i} \X F[i] : i \in DOMAIN rs}
    BY <2>1 DEF AllGts
  <2> HIDE DEF F
  <2> QED BY <1>3, <2>1, <2>2, UnionFinite
<1>6. \A x \in AllPreds(task, rs, cls) : /\ x = <<x[1], x[2]>>
                                         /\ x[1] \in DOMAIN rs
                                         /\ x[2] \in PredsOf(task, rs[x[1]], cls)
  <2> SUFFICES ASSUME NEW i \in DOMAIN rs, NEW x \in {i} \X PredsOf(task, rs[i], cls)
               PROVE  x = <<x[1], x[2]>> /\ x[1] = i /\ x[2] \in PredsOf(task, rs[i], cls)
    BY DEF AllPreds
  <2> QED OBVIOUS
<1>7. ASSUME NEW i \in DOMAIN rs, NEW p \in PredsOf(task, rs[i], cls)
      PROVE  <<i, p>> \in AllPreds(task, rs, cls)
  <2>1. <<i, p>> \in {i} \X PredsOf(task, rs[i], cls)
    OBVIOUS
  <2> QED BY <2>1 DEF AllPreds
<1>8. ASSUME NEW i \in DOMAIN rs, NEW g \in GtsOf(task, rs[i], cls)
      PROVE  <<i, g>> \in AllGts(task, rs, cls)
  <2>1. <<i, g>> \in {i} \X GtsOf(task, rs[i], cls)
    OBVIOUS
  <2> QED BY <2>1 DEF AllGts
<1> QED BY <1>2, <1>4, <1>5, <1>6, <1>7, <1>8

(* The ranking of all predictions of a class. *)
RankingOf(task, rs, cls) ==
    Ranked(AllPreds(task, rs, cls), Overall(rs, AllPreds(task, rs, cls)))

(* All predictions of a class are ranked by the descending score. *)
LEMMA RankingIs ==
    ASSUME NEW task \in Boxed, NEW rs \in Seq(SamplesOf(task)), NEW cls
    PROVE  Ranking(RankingOf(task, rs, cls), AllPreds(task, rs, cls),
                   Overall(rs, AllPreds(task, rs, cls)))
<1> DEFINE all == AllPreds(task, rs, cls)
           score(x) == rs[x[1]].preds[x[2]].score
<1>1. ASSUME NEW x \in all
      PROVE  x = <<x[1], x[2]>> /\ x[1] \in Int /\ x[2] \in Int /\ score(x) \in Int
  <2>1. x = <<x[1], x[2]>> /\ x[1] \in DOMAIN rs /\ x[2] \in PredsOf(task, rs[x[1]], cls)
    BY AllIs
  <2>2. x[1] \in Int /\ rs[x[1]] \in SamplesOf(task)
    BY <2>1, AllIs
  <2>3. x[2] \in DOMAIN rs[x[1]].preds
    BY <2>1, <2>2, SampleParts
  <2>a. DOMAIN rs[x[1]].preds = 1..Len(rs[x[1]].preds)
    BY <2>2, SampleParts
  <2>b. x[2] \in Int
    BY <2>2, <2>3, <2>a
  <2>c. rs[x[1]].preds[x[2]].score \in Int
    BY <2>2, <2>3, SampleParts
  <2>4. x[2] \in Int /\ score(x) \in Int
    BY <2>b, <2>c
  <2> QED BY <2>1, <2>2, <2>4
<1>2. \A x, y \in all : <<x, y>> \in Overall(rs, all) <=>
         \/ score(x) > score(y)
         \/ score(x) = score(y) /\ (x[1] < y[1] \/ (x[1] = y[1] /\ x[2] < y[2]))
  BY DEF Overall
<1> HIDE DEF all, score
<1>3. Orders(Overall(rs, all), all)
  <2>1. ASSUME NEW x \in all PROVE <<x, x>> \notin Overall(rs, all)
    BY <1>1, <1>2
  <2>2. ASSUME NEW x \in all, NEW y \in all
        PROVE  x = y \/ <<x, y>> \in Overall(rs, all) \/ <<y, x>> \in Overall(rs, all)
    <3>1. x[1] = y[1] /\ x[2] = y[2] => x = y
      BY <1>1
    <3> QED BY <1>1, <1>2, <3>1
  <2>3. ASSUME NEW x \in all, NEW y \in all, NEW z \in all,
               <<x, y>> \in Overall(rs, all), <<y, z>> \in Overall(rs, all)
        PROVE  <<x, z>> \in Overall(rs, all)
    <3>1. /\ x[1] \in Int /\ x[2] \in Int /\ score(x) \in Int
          /\ y[1] \in Int /\ y[2] \in Int /\ score(y) \in Int
          /\ z[1] \in Int /\ z[2] \in Int /\ score(z) \in Int
      BY <1>1
    <3>2. \/ score(x) > score(y)
          \/ score(x) = score(y) /\ (x[1] < y[1] \/ (x[1] = y[1] /\ x[2] < y[2]))
      BY <1>2, <2>3
    <3>3. \/ score(y) > score(z)
          \/ score(y) = score(z) /\ (y[1] < z[1] \/ (y[1] = z[1] /\ y[2] < z[2]))
      BY <1>2, <2>3
    <3>4. \/ score(x) > score(z)
          \/ score(x) = score(z) /\ (x[1] < z[1] \/ (x[1] = z[1] /\ x[2] < z[2]))
      BY <3>1, <3>2, <3>3
    <3> QED BY <1>2, <3>4
  <2> QED BY <2>1, <2>2, <2>3 DEF Orders
<1>4. IsFiniteSet(all)
  BY AllIs DEF all
<1> QED BY <1>3, <1>4, RankedIs DEF RankingOf, all

(* An earlier match of a record is earlier among all. *)
LEMMA EarlierOverall ==
    ASSUME NEW task \in Boxed, NEW rs \in Seq(SamplesOf(task)), NEW cls, NEW i \in DOMAIN rs,
           NEW p \in PredsOf(task, rs[i], cls), NEW q \in PredsOf(task, rs[i], cls)
    PROVE  <<q, p>> \in ByScore(ScoresOf(rs[i].preds))
              <=> <<<<i, q>>, <<i, p>>>> \in Overall(rs, AllPreds(task, rs, cls))
<1>1. i \in Int /\ rs[i] \in SamplesOf(task)
  BY AllIs
<1>2. p \in DOMAIN rs[i].preds /\ q \in DOMAIN rs[i].preds
  BY <1>1, SampleParts
<1>3. <<i, p>> \in AllPreds(task, rs, cls) /\ <<i, q>> \in AllPreds(task, rs, cls)
  BY AllIs
<1>4. <<q, p>> \in ByScore(ScoresOf(rs[i].preds)) <=>
         \/ rs[i].preds[q].score > rs[i].preds[p].score
         \/ rs[i].preds[q].score = rs[i].preds[p].score /\ q < p
  BY <1>2 DEF ByScore, ScoresOf
<1>5. <<<<i, q>>, <<i, p>>>> \in Overall(rs, AllPreds(task, rs, cls)) <=>
         \/ rs[i].preds[q].score > rs[i].preds[p].score
         \/ rs[i].preds[q].score = rs[i].preds[p].score /\ (i < i \/ (i = i /\ q < p))
  BY <1>3 DEF Overall
<1> QED BY <1>1, <1>4, <1>5

-----------------------------------------------------------------------------
(* Counting hits along the ranking. *)

HitsAt(order, hits, k) == {j \in 1..k : order[j] \in hits}

(* There are no more hits than places. *)
LEMMA HitsAtFinite ==
    ASSUME NEW order, NEW hits, NEW k \in Nat
    PROVE  IsFiniteSet(HitsAt(order, hits, k)) /\ Cardinality(HitsAt(order, hits, k)) \in 0..k
<1>1. IsFiniteSet(1..k) /\ Cardinality(1..k) = k
  BY FS_Interval
<1>2. HitsAt(order, hits, k) \in SUBSET (1..k)
  BY DEF HitsAt
<1> QED BY <1>1, <1>2, FS_Subset, FS_CardinalityType

(* At every place a lower threshold has hit as often as a higher one. *)
LEMMA LowerHitsMore ==
    ASSUME NEW task \in Boxed, NEW rs \in Seq(SamplesOf(task)), NEW cls,
           NEW lo \in Int, NEW hi \in Int, lo <= hi,
           NEW k \in 0..Cardinality(AllPreds(task, rs, cls))
    PROVE  Cardinality(HitsAt(RankingOf(task, rs, cls), Hits(task, rs, cls, hi), k))
              <= Cardinality(HitsAt(RankingOf(task, rs, cls), Hits(task, rs, cls, lo), k))
<1> DEFINE all == AllPreds(task, rs, cls)
           n == Cardinality(all)
           order == RankingOf(task, rs, cls)
           High == HitsAt(order, Hits(task, rs, cls, hi), k)
           Low == HitsAt(order, Hits(task, rs, cls, lo), k)
           Same(j, l) == \E m \in Match(task, rs[order[j][1]], cls, hi),
                            h \in Match(task, rs[order[j][1]], cls, lo) :
                            m[1] = order[j][2] /\ h[2] = m[2] /\ order[l] = <<order[j][1], h[1]>>
<1>1. /\ n \in Nat /\ order \in [1..n -> all]
      /\ \A j, l \in 1..n : j < l <=> <<order[j], order[l]>> \in Overall(rs, all)
      /\ \A j, l \in 1..n : order[j] = order[l] => j = l
      /\ \A x \in all : \E j \in 1..n : order[j] = x
  BY RankingIs DEF Ranking
<1>2. k \in Nat /\ k <= n
  BY <1>1
<1> HIDE DEF n, order
<1>3. \A j \in 1..k : j \in 1..n /\ order[j] \in all
  BY <1>1, <1>2
<1>4. ASSUME NEW j \in High PROVE \E l \in Low : Same(j, l)
  <2> DEFINE i == order[j][1]  p == order[j][2]
  <2>1. j \in 1..k /\ order[j] \in Hits(task, rs, cls, hi) /\ order[j] \in all
    BY <1>3 DEF HitsAt
  <2>2. order[j] = <<i, p>> /\ i \in DOMAIN rs /\ p \in PredsOf(task, rs[i], cls)
        /\ rs[i] \in SamplesOf(task)
    BY <2>1, AllIs
  <2> HIDE DEF i, p
  <2>3. PICK m \in Match(task, rs[i], cls, hi) : m[1] = p
    BY <2>1 DEF Hits, i, p
  <2>4. PICK h \in Match(task, rs[i], cls, lo) :
           h[2] = m[2] /\ (h[1] = m[1] \/ <<h[1], m[1]>> \in ByScore(ScoresOf(rs[i].preds)))
    BY <2>2, LowerFindsMore
  <2>5. h[1] \in PredsOf(task, rs[i], cls)
    BY <2>2, MatchPairs
  <2>6. <<i, h[1]>> \in all
    BY <2>2, <2>5, AllIs
  <2>7. PICK l \in 1..n : order[l] = <<i, h[1]>>
    BY <1>1, <2>6
  <2>8. l <= j
    <3>1. CASE h[1] = p
      BY <1>1, <1>3, <2>1, <2>2, <2>7, <3>1
    <3>2. CASE <<h[1], p>> \in ByScore(ScoresOf(rs[i].preds))
      <4>1. <<order[l], order[j]>> \in Overall(rs, all)
        BY <2>2, <2>5, <2>7, <3>2, EarlierOverall
      <4>2. l < j
        BY <1>1, <1>3, <2>1, <4>1
      <4> QED BY <1>1, <1>2, <2>1, <4>2
    <3> QED BY <2>3, <2>4, <3>1, <3>2
  <2>9. l \in 1..k
    BY <1>1, <1>2, <2>1, <2>8
  <2>10. order[l] \in Hits(task, rs, cls, lo)
    BY <2>4, <2>6, <2>7 DEF Hits
  <2>11. Same(j, l)
    BY <2>3, <2>4, <2>7 DEF i, p
  <2>12. l \in Low
    BY <2>9, <2>10 DEF HitsAt
  <2> QED BY <2>11, <2>12
<1> DEFINE f == [j \in High |-> CHOOSE l \in Low : Same(j, l)]
<1>5. ASSUME NEW j \in High PROVE f[j] \in Low /\ Same(j, f[j])
  <2> HIDE DEF High, Low, Same
  <2> QED BY <1>4
<1>6. f \in [High -> Low]
  <2> HIDE DEF High, Low, Same
  <2> QED BY <1>4
<1> HIDE DEF f
<1>7. ASSUME NEW a \in High, NEW b \in High, f[a] = f[b] PROVE a = b
  <2>1. /\ a \in 1..n /\ b \in 1..n
        /\ order[a] \in all /\ order[b] \in all
    BY <1>3 DEF HitsAt
  <2>2. PICK m \in Match(task, rs[order[a][1]], cls, hi), h \in Match(task, rs[order[a][1]], cls, lo) :
           m[1] = order[a][2] /\ h[2] = m[2] /\ order[f[a]] = <<order[a][1], h[1]>>
    BY <1>5
  <2>3. PICK s \in Match(task, rs[order[b][1]], cls, hi), t \in Match(task, rs[order[b][1]], cls, lo) :
           s[1] = order[b][2] /\ t[2] = s[2] /\ order[f[b]] = <<order[b][1], t[1]>>
    BY <1>5
  <2>4. order[a][1] = order[b][1] /\ h[1] = t[1]
    BY <1>7, <2>2, <2>3
  <2>5. rs[order[a][1]] \in SamplesOf(task)
    BY <2>1, AllIs
  <2>6. h = t
    BY <2>2, <2>3, <2>4, <2>5, MatchPairs
  <2>7. m = s
    BY <2>2, <2>3, <2>4, <2>5, <2>6, MatchPairs
  <2>8. order[a][2] = order[b][2]
    BY <2>2, <2>3, <2>7
  <2>9. order[a] = <<order[a][1], order[a][2]>> /\ order[b] = <<order[b][1], order[b][2]>>
    BY <2>1, AllIs
  <2>10. order[a] = order[b]
    BY <2>4, <2>8, <2>9
  <2> QED BY <1>1, <2>1, <2>10
<1>8. f \in Injection(High, Low)
  <2> HIDE DEF High, Low
  <2> QED BY <1>6, <1>7, Fun_IsInj
<1>9. IsFiniteSet(Low)
  BY <1>2, HitsAtFinite
<1>10. Cardinality(High) <= Cardinality(Low)
  <2> HIDE DEF High, Low
  <2> QED BY <1>8, <1>9, FS_Injection
<1> QED BY <1>10 DEF order

(* There are no more hits than annotations. *)
LEMMA HitsHaveAnnotations ==
    ASSUME NEW task \in Boxed, NEW rs \in Seq(SamplesOf(task)), NEW cls, NEW thr,
           NEW k \in 0..Cardinality(AllPreds(task, rs, cls))
    PROVE  /\ Cardinality(AllGts(task, rs, cls)) \in Nat
           /\ Cardinality(HitsAt(RankingOf(task, rs, cls), Hits(task, rs, cls, thr), k))
                 <= Cardinality(AllGts(task, rs, cls))
<1> DEFINE all == AllPreds(task, rs, cls)
           n == Cardinality(all)
           order == RankingOf(task, rs, cls)
           At == HitsAt(order, Hits(task, rs, cls, thr), k)
           Gts == AllGts(task, rs, cls)
           Of(j, g) == \E m \in Match(task, rs[order[j][1]], cls, thr) :
                          m[1] = order[j][2] /\ g = <<order[j][1], m[2]>>
<1>1. /\ n \in Nat /\ order \in [1..n -> all]
      /\ \A j, l \in 1..n : order[j] = order[l] => j = l
  BY RankingIs DEF Ranking
<1>2. k \in Nat /\ k <= n
  BY <1>1
<1> HIDE DEF n, order
<1>3. \A j \in 1..k : j \in 1..n /\ order[j] \in all
  BY <1>1, <1>2
<1>4. ASSUME NEW j \in At PROVE \E g \in Gts : Of(j, g)
  <2> DEFINE i == order[j][1]  p == order[j][2]
  <2>1. j \in 1..k /\ order[j] \in Hits(task, rs, cls, thr) /\ order[j] \in all
    BY <1>3 DEF HitsAt
  <2>2. i \in DOMAIN rs /\ rs[i] \in SamplesOf(task)
    BY <2>1, AllIs
  <2> HIDE DEF i, p
  <2>3. PICK m \in Match(task, rs[i], cls, thr) : m[1] = p
    BY <2>1 DEF Hits, i, p
  <2>4. m[2] \in GtsOf(task, rs[i], cls)
    BY <2>2, MatchPairs
  <2>5. <<i, m[2]>> \in Gts
    BY <2>2, <2>4, AllIs
  <2> QED BY <2>3, <2>5 DEF i, p
<1> DEFINE f == [j \in At |-> CHOOSE g \in Gts : Of(j, g)]
<1>5. ASSUME NEW j \in At PROVE f[j] \in Gts /\ Of(j, f[j])
  <2> HIDE DEF At, Gts, Of
  <2> QED BY <1>4
<1>6. f \in [At -> Gts]
  <2> HIDE DEF At, Gts, Of
  <2> QED BY <1>4
<1> HIDE DEF f
<1>7. ASSUME NEW a \in At, NEW b \in At, f[a] = f[b] PROVE a = b
  <2>1. /\ a \in 1..n /\ b \in 1..n
        /\ order[a] \in all /\ order[b] \in all
    BY <1>3 DEF HitsAt
  <2>2. PICK m \in Match(task, rs[order[a][1]], cls, thr) :
           m[1] = order[a][2] /\ f[a] = <<order[a][1], m[2]>>
    BY <1>5
  <2>3. PICK s \in Match(task, rs[order[b][1]], cls, thr) :
           s[1] = order[b][2] /\ f[b] = <<order[b][1], s[2]>>
    BY <1>5
  <2>4. order[a][1] = order[b][1] /\ m[2] = s[2]
    <3>1. <<order[a][1], m[2]>> = <<order[b][1], s[2]>>
      BY <1>7, <2>2, <2>3
    <3> QED BY <3>1
  <2>5. rs[order[a][1]] \in SamplesOf(task)
    BY <2>1, AllIs
  <2>6. m = s
    BY <2>2, <2>3, <2>4, <2>5, MatchPairs
  <2>7. order[a][2] = order[b][2]
    BY <2>2, <2>3, <2>6
  <2>8. order[a] = <<order[a][1], order[a][2]>> /\ order[b] = <<order[b][1], order[b][2]>>
    BY <2>1, AllIs
  <2> QED BY <1>1, <2>1, <2>4, <2>7, <2>8
<1>8. f \in Injection(At, Gts)
  <2> HIDE DEF At, Gts
  <2> QED BY <1>6, <1>7, Fun_IsInj
<1>9. IsFiniteSet(Gts)
  BY AllIs
<1>10. Cardinality(At) <= Cardinality(Gts) /\ Cardinality(Gts) \in Nat
  <2> HIDE DEF At, Gts
  <2> QED BY <1>8, <1>9, FS_Injection, FS_CardinalityType
<1> QED BY <1>10 DEF order

(* Division by a positive number. *)
LEMMA DivIs ==
    ASSUME NEW a \in Nat, NEW k \in Nat \ {0}
    PROVE  a \div k \in Nat /\ k * (a \div k) <= a /\ a < k * (a \div k) + k
  OBVIOUS

(* A greater number has no lower quotient. *)
LEMMA DivMonotone ==
    ASSUME NEW a \in Nat, NEW b \in Nat, a <= b, NEW k \in Nat \ {0}
    PROVE  a \div k <= b \div k
<1> DEFINE p == a \div k  q == b \div k
<1>1. p \in Nat /\ k * p <= a /\ q \in Nat /\ b < k * q + k
  BY DivIs
<1> HIDE DEF p, q
<1>2. SUFFICES ASSUME p >= q + 1 PROVE FALSE
  BY <1>1 DEF p, q
<1>3. PICK d \in Nat : p = q + 1 + d
  BY <1>1, <1>2
<1>4. k * p = k * q + k + k * d /\ k * d \in Nat /\ k * q \in Nat
  BY <1>1, <1>3
<1> QED BY <1>1, <1>4

(* A number of at most b times k has a quotient of at most b. *)
LEMMA DivBounded ==
    ASSUME NEW k \in Nat \ {0}, NEW b \in Nat, NEW a \in 0..(b * k)
    PROVE  a \div k \in 0..b
<1> DEFINE p == a \div k
<1>1. p \in Nat /\ k * p <= a /\ a \in Nat /\ a <= b * k
  BY DivIs
<1> HIDE DEF p
<1>2. SUFFICES ASSUME p >= b + 1 PROVE FALSE
  BY <1>1 DEF p
<1>3. PICK d \in Nat : p = b + 1 + d
  BY <1>1, <1>2
<1>4. k * p = b * k + k + k * d /\ k * d \in Nat /\ b * k \in Nat
  BY <1>1, <1>3
<1> QED BY <1>1, <1>4

(* A ratio of at most one, and one that grows with its numerator. *)
LEMMA RatioIs ==
    ASSUME NEW a \in Nat, NEW k \in Nat \ {0}
    PROVE  Ratio(a, k) \in Nat /\ (a <= k => Ratio(a, k) <= Unit)
<1> DEFINE x == a * Unit
<1>1. Unit \in Nat /\ x \in Nat
  BY ScoringAssumption
<1>2. ASSUME a <= k PROVE x \in 0..(Unit * k)
  <2>1. PICK d \in Nat : k = a + d
    BY <1>2
  <2>2. Unit * k = a * Unit + d * Unit /\ d * Unit \in Nat
    BY <1>1, <2>1
  <2> QED BY <1>1, <2>2
<1>3. Ratio(a, k) = x \div k
  BY DEF Ratio
<1> HIDE DEF x
<1>4. ASSUME a <= k PROVE x \div k \in 0..Unit
  BY <1>1, <1>2, <1>4, DivBounded
<1>5. x \div k \in Nat
  BY <1>1, DivIs
<1> QED BY <1>3, <1>4, <1>5

(* A ratio grows with its numerator. *)
LEMMA RatioMonotone ==
    ASSUME NEW a \in Nat, NEW b \in Nat, a <= b, NEW k \in Nat \ {0}
    PROVE  Ratio(a, k) <= Ratio(b, k)
<1> DEFINE x == a * Unit  y == b * Unit
<1>1. Unit \in Nat
  BY ScoringAssumption
<1>2. x \in Nat /\ y \in Nat /\ x <= y
  <2>1. PICK d \in Nat : b = a + d
    OBVIOUS
  <2>2. b * Unit = a * Unit + d * Unit /\ d * Unit \in Nat /\ a * Unit \in Nat
    BY <1>1, <2>1
  <2> QED BY <2>2
<1>3. Ratio(a, k) = x \div k /\ Ratio(b, k) = y \div k
  BY DEF Ratio
<1> HIDE DEF x, y
<1> QED BY <1>2, <1>3, DivMonotone

-----------------------------------------------------------------------------
(* The area. *)

(* Hits up to every place. *)
Tp(order, hits, n) == [k \in 0..n |-> Cardinality(HitsAt(order, hits, k))]

(* The precision for the m-th annotation found: the best of those cuts.     *)
Cuts(tp, n, m) == {Ratio(tp[j], j) : j \in {i \in 1..n : tp[i] >= m}}
Best(tp, n, m) == Max({0} \union Cuts(tp, n, m))

(* tp counts in steps of one, from 0 up to no more than total. *)
Counts(tp, n, total) ==
    /\ n \in Nat /\ total \in Nat \ {0}
    /\ tp \in [0..n -> Nat] /\ tp[0] = 0 /\ tp[n] <= total
    /\ \A k \in 0..n : tp[k] <= k
    /\ \A k \in 1..n : tp[k] = tp[k - 1] \/ tp[k] = tp[k - 1] + 1
    /\ \A k \in 0..n : \A j \in 0..k : tp[j] <= tp[k]

(* Hits are counted so. *)
LEMMA TpCounts ==
    ASSUME NEW n \in Nat, NEW order, NEW hits, NEW total \in Nat \ {0},
           Cardinality(HitsAt(order, hits, n)) <= total
    PROVE  Counts(Tp(order, hits, n), n, total)
<1> DEFINE At(k) == HitsAt(order, hits, k)
           tp == Tp(order, hits, n)
<1>1. \A k \in 0..n : IsFiniteSet(At(k)) /\ Cardinality(At(k)) \in 0..k
  BY HitsAtFinite
<1>2. \A k \in 0..n : tp[k] = Cardinality(At(k))
  BY DEF Tp
<1>3. ASSUME NEW k \in 0..n, NEW j \in 0..k PROVE tp[j] <= tp[k]
  <2>1. At(j) \in SUBSET At(k) /\ j \in 0..n
    BY DEF HitsAt
  <2> HIDE DEF At, tp
  <2> QED BY <1>1, <1>2, <2>1, FS_Subset
<1>4. ASSUME NEW k \in 1..n PROVE tp[k] = tp[k - 1] \/ tp[k] = tp[k - 1] + 1
  <2>1. At(k) = At(k - 1) \/ At(k) = At(k - 1) \union {k}
    BY DEF HitsAt
  <2>2. k - 1 \in 0..n
    OBVIOUS
  <2> HIDE DEF At, tp
  <2>3. tp[k] = Cardinality(At(k)) /\ tp[k - 1] = Cardinality(At(k - 1)) /\ IsFiniteSet(At(k - 1))
    BY <1>1, <1>2, <2>2
  <2> QED BY <2>1, <2>3, FS_AddElement
<1>5. tp \in [0..n -> Nat]
  BY <1>1 DEF Tp
<1> HIDE DEF tp, At
<1>6. tp[0] = 0 /\ tp[n] <= total /\ \A k \in 0..n : tp[k] <= k
  <2>1. tp[0] = Cardinality(At(0)) /\ Cardinality(At(0)) \in 0..0
    BY <1>1, <1>2
  <2>2. tp[n] = Cardinality(At(n))
    BY <1>2
  <2> QED BY <1>1, <1>2, <2>1, <2>2 DEF At
<1> QED BY <1>3, <1>4, <1>5, <1>6 DEF Counts, tp

(* The best precision is one of those of the cuts, or 0, and at most 1. *)
LEMMA BestIsRatio ==
    ASSUME NEW n, NEW total, NEW tp, Counts(tp, n, total), NEW m \in Nat
    PROVE  /\ {0} \union Cuts(tp, n, m) \subseteq Int /\ IsFiniteSet({0} \union Cuts(tp, n, m))
           /\ Best(tp, n, m) \in {0} \union Cuts(tp, n, m)
           /\ \A x \in {0} \union Cuts(tp, n, m) : x <= Best(tp, n, m)
           /\ Best(tp, n, m) \in 0..Unit
<1> DEFINE J == {i \in 1..n : tp[i] >= m}
           cuts == {Ratio(tp[j], j) : j \in J}
           f == [j \in J |-> Ratio(tp[j], j)]
<1>1. IsFiniteSet(J)
  <2>1. IsFiniteSet(1..n) /\ J \in SUBSET (1..n)
    BY FS_Interval DEF Counts
  <2> HIDE DEF J
  <2> QED BY <2>1, FS_Subset
<1>2. \A j \in J : Ratio(tp[j], j) \in Nat /\ Ratio(tp[j], j) <= Unit
  <2> SUFFICES ASSUME NEW j \in 1..n PROVE Ratio(tp[j], j) \in Nat /\ Ratio(tp[j], j) <= Unit
    OBVIOUS
  <2>1. tp[j] \in Nat /\ tp[j] <= j /\ j \in Nat \ {0}
    BY DEF Counts
  <2> QED BY <2>1, RatioIs
<1>3. IsFiniteSet(cuts)
  <2> HIDE DEF J
  <2>1. f \in Surjection(J, cuts)
    BY DEF Surjection
  <2> HIDE DEF f, cuts
  <2> QED BY <1>1, <2>1, FS_Surjection
<1>4. cuts \subseteq Nat /\ \A x \in cuts : x <= Unit
  BY <1>2
<1> HIDE DEF cuts
<1>5. IsFiniteSet({0} \union cuts)
  BY <1>3, FS_Union, FS_Singleton
<1>6. {0} \union cuts \in SUBSET Int /\ {0} \union cuts # {}
  BY <1>4
<1>7. Best(tp, n, m) = Max({0} \union cuts)
  BY DEF Best, Cuts, cuts
<1>8. Best(tp, n, m) \in {0} \union cuts /\ \A x \in {0} \union cuts : x <= Best(tp, n, m)
  BY <1>5, <1>6, <1>7, MaxIs
<1>9. Best(tp, n, m) \in 0..Unit
  <2>1. Unit \in Nat
    BY ScoringAssumption
  <2>2. \A x \in {0} \union cuts : x \in 0..Unit
    BY <1>4, <2>1
  <2> QED BY <1>8, <2>2
<1> QED BY <1>5, <1>6, <1>8, <1>9 DEF cuts, Cuts

(* Precision and recall, bracketed. *)
Precisions(tp, n) ==
    [k \in 0..(n + 1) |-> IF k = 0 THEN Unit ELSE IF k = n + 1 THEN 0 ELSE Ratio(tp[k], k)]
Recalls(tp, n, total) == [k \in 0..(n + 1) |-> IF k = n + 1 THEN total ELSE tp[k]]

(* Where another annotation is found, the envelope is the best precision    *)
(* of the cuts that find so many.                                           *)
LEMMA EnvelopeIsBest ==
    ASSUME NEW n, NEW total, NEW tp, Counts(tp, n, total), NEW k \in 1..n, tp[k] = tp[k - 1] + 1
    PROVE  Envelope(Precisions(tp, n), k) = Best(tp, n, tp[k])
<1> DEFINE mpre == Precisions(tp, n)
<1>0. mpre = [l \in 0..(n + 1) |->
          IF l = 0 THEN Unit ELSE IF l = n + 1 THEN 0 ELSE Ratio(tp[l], l)]
  BY DEF Precisions
<1> HIDE DEF mpre
<1>1. n \in Nat /\ tp \in [0..n -> Nat]
  BY DEF Counts
<1>2. ASSUME NEW i \in 1..n PROVE tp[i] >= tp[k] <=> i >= k
  <2>1. i \in 0..n /\ k \in 0..n /\ k - 1 \in 0..n /\ tp[i] \in Nat /\ tp[k] \in Nat /\ tp[k - 1] \in Nat
    BY <1>1
  <2>2. CASE i >= k
    <3>1. k \in 0..i
      BY <2>2
    <3> QED BY <2>1, <2>2, <3>1 DEF Counts
  <2>3. CASE i < k
    <3>1. i \in 0..(k - 1)
      BY <2>3
    <3>2. tp[i] <= tp[k - 1]
      BY <2>1, <3>1 DEF Counts
    <3> QED BY <2>1, <2>3, <3>2
  <2> QED BY <2>2, <2>3
<1>3. {mpre[j] : j \in {i \in DOMAIN mpre : i >= k}}
         = {0} \union {Ratio(tp[j], j) : j \in {i \in 1..n : tp[i] >= tp[k]}}
  <2>1. \A j \in 1..n : mpre[j] = Ratio(tp[j], j)
    BY <1>0, <1>1
  <2>2. mpre[n + 1] = 0
    BY <1>0, <1>1
  <2>3. \A j \in DOMAIN mpre : j >= k <=> j = n + 1 \/ (j \in 1..n /\ tp[j] >= tp[k])
    BY <1>0, <1>1, <1>2
  <2>4. n + 1 \in DOMAIN mpre /\ 1..n \subseteq DOMAIN mpre
    BY <1>0, <1>1
  <2> HIDE DEF Ratio
  <2>5. ASSUME NEW j \in {i \in DOMAIN mpre : i >= k}
        PROVE  mpre[j] \in {0} \union {Ratio(tp[l], l) : l \in {i \in 1..n : tp[i] >= tp[k]}}
    BY <2>1, <2>2, <2>3
  <2>6. ASSUME NEW j \in {i \in 1..n : tp[i] >= tp[k]}
        PROVE  Ratio(tp[j], j) \in {mpre[l] : l \in {i \in DOMAIN mpre : i >= k}}
    BY <2>1, <2>3, <2>4
  <2>7. 0 \in {mpre[l] : l \in {i \in DOMAIN mpre : i >= k}}
    BY <2>2, <2>3, <2>4
  <2> QED BY <2>5, <2>6, <2>7
<1> QED BY <1>3 DEF Envelope, Best, Cuts, mpre

(* The envelope is a number. *)
LEMMA EnvelopeIs ==
    ASSUME NEW n, NEW total, NEW tp, Counts(tp, n, total), NEW k \in 0..(n + 1)
    PROVE  /\ Envelope(Precisions(tp, n), k) \in Int
           /\ k = n + 1 => Envelope(Precisions(tp, n), k) = 0
<1> DEFINE mpre == Precisions(tp, n)
<1>0. mpre = [l \in 0..(n + 1) |->
          IF l = 0 THEN Unit ELSE IF l = n + 1 THEN 0 ELSE Ratio(tp[l], l)]
  BY DEF Precisions
<1> HIDE DEF mpre
<1> DEFINE J == {i \in DOMAIN mpre : i >= k}
           V == {mpre[j] : j \in J}
           f == [j \in J |-> mpre[j]]
<1>1. n \in Nat /\ tp \in [0..n -> Nat] /\ Unit \in Nat
  BY ScoringAssumption DEF Counts
<1>2. \A j \in DOMAIN mpre : mpre[j] \in Int
  <2> SUFFICES ASSUME NEW j \in 0..(n + 1) PROVE mpre[j] \in Int
    BY <1>0
  <2>1. CASE j = 0 \/ j = n + 1
    BY <1>0, <1>1, <2>1
  <2>2. CASE j \in 1..n
    <3>1. tp[j] \in Nat /\ j \in Nat \ {0}
      BY <1>1, <2>2
    <3>2. Ratio(tp[j], j) \in Nat
      BY <3>1, RatioIs
    <3> QED BY <1>0, <1>1, <2>2, <3>2
  <2> QED BY <1>1, <2>1, <2>2
<1>3. IsFiniteSet(J) /\ J \in SUBSET DOMAIN mpre
  <2>1. IsFiniteSet(0..(n + 1)) /\ DOMAIN mpre = 0..(n + 1)
    BY <1>0, <1>1, FS_Interval
  <2>2. J \in SUBSET (0..(n + 1))
    BY <2>1
  <2> HIDE DEF J
  <2> QED BY <2>1, <2>2, FS_Subset
<1>4. k \in J
  BY <1>0, <1>1
<1>5. V \in SUBSET Int /\ V # {}
  BY <1>2, <1>4
<1>6. IsFiniteSet(V)
  <2> HIDE DEF J
  <2>1. f \in Surjection(J, V)
    BY DEF Surjection
  <2> HIDE DEF f, V
  <2> QED BY <1>3, <2>1, FS_Surjection
<1>7. Envelope(Precisions(tp, n), k) = Max(V)
  BY DEF Envelope, mpre
<1>8. Max(V) \in V
  <2> HIDE DEF V
  <2> QED BY <1>5, <1>6, MaxIs
<1>9. ASSUME k = n + 1 PROVE V = {0}
  <2>1. J = {n + 1} /\ mpre[n + 1] = 0
    BY <1>0, <1>1, <1>9
  <2> QED BY <2>1
<1> HIDE DEF V
<1> QED BY <1>5, <1>7, <1>8, <1>9

(* The area under the steps is the sum, over the annotations, of the best   *)
(* precision with which each is found.                                      *)
LEMMA AreaByAnnotation ==
    ASSUME NEW n, NEW total, NEW tp, Counts(tp, n, total), NEW mrec, mrec = Recalls(tp, n, total)
    PROVE  SumFunction([k \in 1..(n + 1) |->
                           (mrec[k] - mrec[k - 1]) * Envelope(Precisions(tp, n), k)])
              = SumFunction([m \in 1..total |-> Best(tp, n, m)])
<1> DEFINE area == [k \in 1..(n + 1) |-> (mrec[k] - mrec[k - 1]) * Envelope(Precisions(tp, n), k)]
           best == [m \in 1..total |-> Best(tp, n, m)]
<1>1. /\ n \in Nat /\ total \in Nat \ {0} /\ tp \in [0..n -> Nat] /\ tp[0] = 0 /\ tp[n] <= total
      /\ \A k \in 1..n : tp[k] = tp[k - 1] \/ tp[k] = tp[k - 1] + 1
      /\ \A k \in 0..n : tp[k] <= tp[n]
  <2>1. n \in Nat
    BY DEF Counts
  <2>2. \A k \in 0..n : k \in 0..n /\ n \in 0..n
    BY <2>1
  <2> QED BY <2>1, <2>2 DEF Counts
<1>2. /\ \A k \in 0..(n + 1) : mrec[k] \in Int
      /\ \A k \in 0..n : mrec[k] = tp[k]
  BY <1>1 DEF Recalls
<1>3. \A k \in 0..(n + 1) : Envelope(Precisions(tp, n), k) \in Int /\ (k = n + 1 => Envelope(Precisions(tp, n), k) = 0)
  BY EnvelopeIs
<1>4. ASSUME NEW k \in 1..(n + 1)
      PROVE  area[k] = (mrec[k] - mrec[k - 1]) * Envelope(Precisions(tp, n), k) /\ area[k] \in Int
  <2>1. k \in 0..(n + 1) /\ k - 1 \in 0..(n + 1)
    BY <1>1
  <2>2. mrec[k] \in Int /\ mrec[k - 1] \in Int /\ Envelope(Precisions(tp, n), k) \in Int
    BY <1>2, <1>3, <2>1
  <2> QED BY <2>2
<1>5. area \in [1..(n + 1) -> Int]
  BY <1>4
<1>6. best \in [1..total -> Int]
  <2>1. \A m \in 1..total : Best(tp, n, m) \in Int
    <3> SUFFICES ASSUME NEW m \in 1..total PROVE Best(tp, n, m) \in Int
      OBVIOUS
    <3>1. m \in Nat
      BY <1>1
    <3>2. Best(tp, n, m) \in 0..Unit
      BY <3>1, BestIsRatio
    <3> QED BY <3>2, ScoringAssumption
  <2> QED BY <2>1
<1>7. PICK A \in [0..(n + 1) -> Int] :
         /\ A[0] = 0
         /\ \A k \in 1..(n + 1) : A[k] = A[k - 1] + area[k]
         /\ A[n + 1] = SumFunction(area)
  <2> HIDE DEF area
  <2>1. n + 1 \in Nat
    BY <1>1
  <2> QED BY <1>5, <2>1, SumPrefix
<1>8. PICK B \in [0..total -> Int] :
         /\ B[0] = 0
         /\ \A m \in 1..total : B[m] = B[m - 1] + best[m]
         /\ B[total] = SumFunction(best)
  <2> HIDE DEF best
  <2> QED BY <1>1, <1>6, SumPrefix
<1>9. \A m \in 1..total : best[m] = Best(tp, n, m)
  OBVIOUS
<1> HIDE DEF area, best
<1> DEFINE T == {k \in 0..n : A[k] = B[tp[k]]}
<1>10. 0 \in T
  BY <1>1, <1>7, <1>8
<1>11. ASSUME NEW k \in 0..(n - 1), k \in T PROVE k + 1 \in T
  <2>1. k + 1 \in 1..n /\ k + 1 \in 1..(n + 1) /\ (k + 1) - 1 = k /\ k \in 0..n /\ k + 1 \in 0..n
    BY <1>1
  <2>2. mrec[k + 1] = tp[k + 1] /\ mrec[k] = tp[k] /\ tp[k] \in Nat /\ tp[k + 1] \in Nat
        /\ tp[k + 1] <= total
    BY <1>1, <1>2, <2>1
  <2>3. A[k + 1] = A[k] + area[k + 1] /\ area[k + 1] = (tp[k + 1] - tp[k]) * Envelope(Precisions(tp, n), k + 1)
    <3>1. A[k + 1] = A[(k + 1) - 1] + area[k + 1]
      BY <1>7, <2>1
    <3>2. area[k + 1] = (mrec[k + 1] - mrec[(k + 1) - 1]) * Envelope(Precisions(tp, n), k + 1)
      BY <1>4, <2>1
    <3>3. area[k + 1] = (tp[k + 1] - tp[k]) * Envelope(Precisions(tp, n), k + 1)
      <4>1. mrec[(k + 1) - 1] = tp[k]
        BY <2>1, <2>2
      <4> QED BY <2>2, <3>2, <4>1
    <3>4. A[(k + 1) - 1] = A[k]
      BY <2>1
    <3> QED BY <3>1, <3>3, <3>4, Zenon
  <2>4. A[k] = B[tp[k]] /\ A[k] \in Int
    <3>1. A[k] = B[tp[k]]
      BY <1>11
    <3>2. k \in 0..(n + 1)
      BY <1>1, <2>1
    <3>3. A[k] \in Int
      BY <3>2
    <3> QED BY <3>1, <3>3
  <2>5. CASE tp[k + 1] = tp[k]
    <3>1. area[k + 1] = 0
      <4>1. Envelope(Precisions(tp, n), k + 1) \in Int /\ tp[k + 1] - tp[k] = 0
        BY <1>3, <2>1, <2>2, <2>5
      <4> QED BY <2>3, <4>1
    <3> QED BY <2>1, <2>3, <2>4, <2>5, <3>1
  <2>6. CASE tp[k + 1] = tp[k] + 1
    <3>1. Envelope(Precisions(tp, n), k + 1) = Best(tp, n, tp[k + 1])
      <4>1. PICK j \in 1..n : j = k + 1
        BY <2>1
      <4>2. j - 1 = k
        BY <2>1, <4>1
      <4>3. tp[j] = tp[j - 1] + 1
        BY <2>6, <4>1, <4>2
      <4>4. Envelope(Precisions(tp, n), j) = Best(tp, n, tp[j])
        BY <4>3, EnvelopeIsBest
      <4> QED BY <4>1, <4>4, Zenon
    <3>2. tp[k + 1] \in 1..total /\ tp[k + 1] - 1 = tp[k] /\ tp[k + 1] - tp[k] = 1
      <4>1. total \in Nat
        BY <1>1
      <4>2. tp[k] \in Nat /\ tp[k + 1] <= total
        BY <2>2
      <4> DEFINE a == tp[k]  b == tp[k + 1]
      <4>3. a \in Nat /\ b <= total /\ b = a + 1
        BY <4>2, <2>6
      <4> HIDE DEF a, b
      <4>4. b \in 1..total /\ b - 1 = a /\ b - a = 1
        BY <4>1, <4>3
      <4> QED BY <4>4 DEF a, b
    <3>3. B[tp[k + 1]] = B[tp[k]] + Best(tp, n, tp[k + 1])
      BY <1>8, <1>9, <3>2
    <3>4. area[k + 1] = Best(tp, n, tp[k + 1])
      <4>1. Envelope(Precisions(tp, n), k + 1) \in Int
        BY <1>3, <2>1
      <4> QED BY <2>3, <3>1, <3>2, <4>1
    <3> QED BY <2>1, <2>3, <2>4, <3>3, <3>4
  <2> QED BY <1>1, <2>1, <2>5, <2>6
<1>12. A[n] = B[tp[n]]
  <2>1. 0..n \subseteq T
    <3> HIDE DEF T
    <3> QED BY <1>1, <1>10, <1>11, BoundedInduction
  <2>2. n \in 0..n
    BY <1>1
  <2> QED BY <2>1, <2>2
<1>13. A[n + 1] = A[n]
  <2>1. n + 1 \in 1..(n + 1) /\ (n + 1) - 1 = n /\ n \in 0..(n + 1) /\ n + 1 \in 0..(n + 1)
    BY <1>1
  <2>2. area[n + 1] = (mrec[n + 1] - mrec[n]) * Envelope(Precisions(tp, n), n + 1)
    BY <1>4, <2>1
  <2>3. area[n + 1] = 0
    BY <1>2, <1>3, <2>1, <2>2
  <2>4. A[n + 1] = A[n] + area[n + 1] /\ A[n] \in Int
    BY <1>7, <2>1
  <2> QED BY <2>3, <2>4
<1> DEFINE U == {m \in 0..total : m >= tp[n] => B[m] = B[tp[n]]}
<1>14. 0 \in U
  <2>1. tp[n] \in Nat
    BY <1>1
  <2> QED BY <1>1, <2>1
<1>15. ASSUME NEW m \in 0..(total - 1), m \in U PROVE m + 1 \in U
  <2>1. m + 1 \in 1..total /\ (m + 1) - 1 = m /\ m + 1 \in 0..total /\ m \in 0..total /\ tp[n] \in Nat
    BY <1>1
  <2>2. ASSUME m + 1 > tp[n] PROVE B[m + 1] = B[m]
    <3>1. {i \in 1..n : tp[i] >= m + 1} = {}
      BY <1>1, <2>1, <2>2
    <3>2. Cuts(tp, n, m + 1) = {}
      BY <3>1 DEF Cuts
    <3>3. Best(tp, n, m + 1) \in {0}
      <4>1. m + 1 \in Nat
        BY <2>1
      <4>2. Best(tp, n, m + 1) \in {0} \union Cuts(tp, n, m + 1)
        BY <4>1, BestIsRatio
      <4> QED BY <3>2, <4>2
    <3>4. B[m + 1] = B[m] + Best(tp, n, m + 1) /\ B[m] \in Int
      BY <1>8, <1>9, <2>1
    <3> QED BY <3>3, <3>4
  <2>3. CASE m + 1 = tp[n]
    BY <2>1, <2>3
  <2>4. CASE m + 1 > tp[n]
    <3>1. m >= tp[n]
      BY <2>1, <2>4
    <3> QED BY <1>15, <2>1, <2>2, <2>4, <3>1
  <2>5. CASE m + 1 < tp[n]
    BY <2>1, <2>5
  <2> QED BY <2>1, <2>3, <2>4, <2>5
<1>16. B[total] = B[tp[n]]
  <2>1. 0..total \subseteq U
    <3> HIDE DEF U
    <3>1. total \in Nat
      BY <1>1
    <3> QED BY <1>14, <1>15, <3>1, BoundedInduction
  <2>2. total \in 0..total
    BY <1>1
  <2> QED BY <1>1, <2>1, <2>2
<1> QED BY <1>7, <1>8, <1>12, <1>13, <1>16 DEF area, best

(* What is summed for a class: for every annotation, or for one when there  *)
(* is none, the best precision with which it is found.                      *)
TotalOf(task, rs, cls) == Max({Cardinality(AllGts(task, rs, cls)), 1})
CountOf(task, rs, cls) == Cardinality(AllPreds(task, rs, cls))
HitsTo(task, rs, cls, thr) ==
    Tp(RankingOf(task, rs, cls), Hits(task, rs, cls, thr), CountOf(task, rs, cls))
BestFor(task, rs, cls, thr) ==
    [m \in 1..TotalOf(task, rs, cls) |->
        Best(HitsTo(task, rs, cls, thr), CountOf(task, rs, cls), m)]

(* The hits of a class are counted up to no more than its annotations. *)
LEMMA HitsToCounts ==
    ASSUME NEW task \in Boxed, NEW rs \in Seq(SamplesOf(task)), NEW cls, NEW thr
    PROVE  /\ TotalOf(task, rs, cls) \in Nat \ {0} /\ CountOf(task, rs, cls) \in Nat
           /\ Cardinality(AllGts(task, rs, cls)) \in Nat
           /\ TotalOf(task, rs, cls) = IF Cardinality(AllGts(task, rs, cls)) = 0 THEN 1
                                       ELSE Cardinality(AllGts(task, rs, cls))
           /\ Len(RankingOf(task, rs, cls)) = CountOf(task, rs, cls)
           /\ Counts(HitsTo(task, rs, cls, thr), CountOf(task, rs, cls), TotalOf(task, rs, cls))
<1> DEFINE n == CountOf(task, rs, cls)
           g == Cardinality(AllGts(task, rs, cls))
           total == TotalOf(task, rs, cls)
           order == RankingOf(task, rs, cls)
           hits == Hits(task, rs, cls, thr)
<1>1. n \in Nat /\ Len(order) = n
  BY RankingIs DEF Ranking, CountOf
<1>2. n \in 0..Cardinality(AllPreds(task, rs, cls))
  BY <1>1 DEF CountOf
<1>3. g \in Nat /\ Cardinality(HitsAt(order, hits, n)) <= g
  BY <1>2, HitsHaveAnnotations
<1>4. total = Max({g, 1})
  BY DEF TotalOf
<1>5. Cardinality(HitsAt(order, hits, n)) \in Nat
  BY <1>1, HitsAtFinite
<1>6. HitsTo(task, rs, cls, thr) = Tp(order, hits, n)
  BY DEF HitsTo
<1> HIDE DEF n, g, total, order, hits
<1>7. total \in Nat \ {0} /\ total = IF g = 0 THEN 1 ELSE g
  <2>1. {g, 1} \in SUBSET Int /\ {g, 1} # {}
    BY <1>3
  <2>2. IsFiniteSet({g, 1})
    <3>1. {g, 1} = {g} \union {1}
      OBVIOUS
    <3>2. IsFiniteSet({g}) /\ IsFiniteSet({1})
      BY FS_Singleton
    <3> QED BY <3>1, <3>2, FS_Union
  <2>3. total \in {g, 1} /\ g <= total /\ 1 <= total
    BY <1>4, <2>1, <2>2, MaxIs
  <2> QED BY <1>3, <2>3
<1>8. Cardinality(HitsAt(order, hits, n)) <= total
  BY <1>3, <1>5, <1>7
<1>9. Counts(Tp(order, hits, n), n, total)
  BY <1>1, <1>7, <1>8, TpCounts
<1> QED BY <1>1, <1>3, <1>6, <1>7, <1>9 DEF n, total, g, order

(* compute_ap adds up, over the annotations, the best precision of each. *)
LEMMA ClassApIs ==
    ASSUME NEW task \in Boxed, NEW rs \in Seq(SamplesOf(task)), NEW cls, NEW thr
    PROVE  ClassAp(task, rs, cls, thr) = IF CountOf(task, rs, cls) = 0 THEN 0
              ELSE SumFunction(BestFor(task, rs, cls, thr)) \div TotalOf(task, rs, cls)
<1> DEFINE n == CountOf(task, rs, cls)
           g == Cardinality(AllGts(task, rs, cls))
           total == TotalOf(task, rs, cls)
           order == RankingOf(task, rs, cls)
           hits == Hits(task, rs, cls, thr)
           tp == HitsTo(task, rs, cls, thr)
           hitsTo(k) == Cardinality({j \in 1..k : order[j] \in hits})
           mrec == [k \in 0..(n + 1) |-> IF k = n + 1 THEN Max({g, 1}) ELSE hitsTo(k)]
           mpre == [k \in 0..(n + 1) |->
                    IF k = 0 THEN Unit ELSE IF k = n + 1 THEN 0 ELSE Ratio(hitsTo(k), k)]
<1>1. n \in Nat /\ Len(order) = n /\ Counts(tp, n, total)
  BY HitsToCounts
<1>2. tp = [k \in 0..n |-> Cardinality(HitsAt(order, hits, k))]
  BY DEF HitsTo, Tp
<1>3. ClassAp(task, rs, cls, thr) = ComputeAp(order, hits, g)
  BY DEF ClassAp, RankingOf
<1>4. ComputeAp(order, hits, g) =
         IF n = 0 THEN 0
         ELSE SumFunction([k \in 1..(n + 1) |-> (mrec[k] - mrec[k - 1]) * Envelope(mpre, k)])
                 \div Max({g, 1})
  BY <1>1 DEF ComputeAp
<1>5. total = Max({g, 1})
  BY DEF TotalOf
<1> HIDE DEF n, order, hits, tp, total
<1>6. \A k \in 0..n : hitsTo(k) = tp[k]
  BY <1>2 DEF HitsAt
<1>7. mrec = Recalls(tp, n, total)
  <2>1. ASSUME NEW k \in 0..(n + 1)
        PROVE  (IF k = n + 1 THEN Max({g, 1}) ELSE hitsTo(k)) = (IF k = n + 1 THEN total ELSE tp[k])
    <3>1. k = n + 1 \/ k \in 0..n
      BY <1>1
    <3> HIDE DEF hitsTo, g
    <3> QED BY <1>5, <1>6, <3>1
  <2> HIDE DEF hitsTo, g
  <2> QED BY <2>1 DEF Recalls
<1>8. mpre = Precisions(tp, n)
  <2>1. ASSUME NEW k \in 0..(n + 1)
        PROVE  (IF k = 0 THEN Unit ELSE IF k = n + 1 THEN 0 ELSE Ratio(hitsTo(k), k))
                  = (IF k = 0 THEN Unit ELSE IF k = n + 1 THEN 0 ELSE Ratio(tp[k], k))
    <3>1. k = n + 1 \/ k \in 0..n
      BY <1>1
    <3> HIDE DEF hitsTo
    <3> QED BY <1>6, <3>1
  <2> HIDE DEF hitsTo
  <2> QED BY <2>1 DEF Precisions
<1> HIDE DEF hitsTo, mrec, mpre, g
<1>9. SumFunction([k \in 1..(n + 1) |-> (mrec[k] - mrec[k - 1]) * Envelope(mpre, k)])
         = SumFunction([m \in 1..total |-> Best(tp, n, m)])
  BY <1>1, <1>7, <1>8, AreaByAnnotation
<1>10. BestFor(task, rs, cls, thr) = [m \in 1..total |-> Best(tp, n, m)]
  BY DEF BestFor, total, tp, n
<1> QED BY <1>3, <1>4, <1>5, <1>9, <1>10 DEF n, total

(* Every summand is a fraction. *)
LEMMA BestForIs ==
    ASSUME NEW task \in Boxed, NEW rs \in Seq(SamplesOf(task)), NEW cls, NEW thr
    PROVE  /\ BestFor(task, rs, cls, thr) \in [1..TotalOf(task, rs, cls) -> Int]
           /\ \A m \in 1..TotalOf(task, rs, cls) : BestFor(task, rs, cls, thr)[m] \in 0..Unit
<1> DEFINE n == CountOf(task, rs, cls)
           total == TotalOf(task, rs, cls)
           tp == HitsTo(task, rs, cls, thr)
<1>1. total \in Nat \ {0} /\ Counts(tp, n, total)
  BY HitsToCounts
<1>2. BestFor(task, rs, cls, thr) = [m \in 1..total |-> Best(tp, n, m)]
  BY DEF BestFor
<1> HIDE DEF n, total, tp
<1>3. ASSUME NEW m \in 1..total PROVE Best(tp, n, m) \in 0..Unit
  <2>1. m \in Nat
    BY <1>1
  <2> QED BY <1>1, <2>1, BestIsRatio
<1>4. 0..Unit \subseteq Int
  BY ScoringAssumption
<1> QED BY <1>2, <1>3, <1>4 DEF total

(* A class scores between 0 and 1. *)
LEMMA ClassApBounded ==
    ASSUME NEW task \in Boxed, NEW rs \in Seq(SamplesOf(task)), NEW cls, NEW thr
    PROVE  ClassAp(task, rs, cls, thr) \in 0..Unit
<1> DEFINE total == TotalOf(task, rs, cls)
           best == BestFor(task, rs, cls, thr)
<1>1. total \in Nat \ {0} /\ Unit \in Nat
  BY HitsToCounts, ScoringAssumption
<1>2. best \in [1..total -> Int] /\ \A m \in 1..total : best[m] \in 0..Unit
  BY BestForIs
<1>3. ClassAp(task, rs, cls, thr) \in {0, SumFunction(best) \div total}
  BY ClassApIs
<1> HIDE DEF total, best
<1>4. IsFiniteSet(1..total) /\ Cardinality(1..total) = total
  BY <1>1, FS_Interval
<1>5. SumFunction(best) \in 0..(Unit * Cardinality(1..total))
  BY <1>1, <1>2, <1>4, SumBounded
<1>6. SumFunction(best) \in 0..(Unit * total)
  BY <1>4, <1>5
<1>7. SumFunction(best) \div total \in 0..Unit
  BY <1>1, <1>6, DivBounded
<1> QED BY <1>1, <1>3, <1>7

(* A stricter threshold finds no annotation with a better precision. *)
LEMMA BestForMonotone ==
    ASSUME NEW task \in Boxed, NEW rs \in Seq(SamplesOf(task)), NEW cls,
           NEW lo \in Int, NEW hi \in Int, lo <= hi, NEW m \in 1..TotalOf(task, rs, cls)
    PROVE  BestFor(task, rs, cls, hi)[m] <= BestFor(task, rs, cls, lo)[m]
<1> DEFINE n == CountOf(task, rs, cls)
           total == TotalOf(task, rs, cls)
           high == HitsTo(task, rs, cls, hi)
           low == HitsTo(task, rs, cls, lo)
           order == RankingOf(task, rs, cls)
<1>1. total \in Nat \ {0} /\ Counts(high, n, total) /\ Counts(low, n, total) /\ n \in Nat
  BY HitsToCounts
<1>2. /\ BestFor(task, rs, cls, hi)[m] = Best(high, n, m)
      /\ BestFor(task, rs, cls, lo)[m] = Best(low, n, m)
  BY DEF BestFor
<1>3. \A k \in 0..n : high[k] <= low[k]
  <2> SUFFICES ASSUME NEW k \in 0..n PROVE high[k] <= low[k]
    OBVIOUS
  <2>1. k \in 0..Cardinality(AllPreds(task, rs, cls))
    BY DEF CountOf
  <2>2. /\ high[k] = Cardinality(HitsAt(order, Hits(task, rs, cls, hi), k))
        /\ low[k] = Cardinality(HitsAt(order, Hits(task, rs, cls, lo), k))
    BY DEF HitsTo, Tp
  <2>3. Cardinality(HitsAt(order, Hits(task, rs, cls, hi), k))
           <= Cardinality(HitsAt(order, Hits(task, rs, cls, lo), k))
    BY <2>1, LowerHitsMore
  <2> QED BY <2>2, <2>3
<1>4. m \in Nat
  BY <1>1
<1> HIDE DEF n, total, high, low
<1>5. /\ Best(high, n, m) \in {0} \union Cuts(high, n, m)
      /\ Best(low, n, m) \in 0..Unit
      /\ \A x \in {0} \union Cuts(low, n, m) : x <= Best(low, n, m)
  BY <1>1, <1>4, BestIsRatio
<1>6. CASE Best(high, n, m) = 0
  <2>1. 0 \in {0} \union Cuts(low, n, m)
    OBVIOUS
  <2> QED BY <1>2, <1>5, <1>6, <2>1
<1>7. CASE Best(high, n, m) \in Cuts(high, n, m)
  <2>1. PICK j \in 1..n : high[j] >= m /\ Best(high, n, m) = Ratio(high[j], j)
    BY <1>7 DEF Cuts
  <2>2. j \in 0..n /\ j \in Nat \ {0} /\ high[j] \in Nat /\ low[j] \in Nat /\ high[j] <= low[j]
    <3>1. j \in 0..n /\ j \in Nat \ {0}
      BY <1>1
    <3>2. high[j] \in Nat /\ low[j] \in Nat
      BY <1>1, <3>1 DEF Counts
    <3> QED BY <1>3, <3>1, <3>2
  <2>3. low[j] >= m
    BY <1>4, <2>1, <2>2
  <2>4. Ratio(low[j], j) \in Cuts(low, n, m)
    BY <2>3 DEF Cuts
  <2>5. Ratio(low[j], j) <= Best(low, n, m)
    BY <1>5, <2>4
  <2>6. Ratio(high[j], j) <= Ratio(low[j], j)
    BY <2>2, RatioMonotone
  <2>7. Ratio(high[j], j) \in Nat /\ Ratio(low[j], j) \in Nat
    BY <2>2, RatioIs
  <2>8. Best(low, n, m) \in Int
    BY <1>5, ScoringAssumption
  <2> QED BY <1>2, <2>1, <2>5, <2>6, <2>7, <2>8
<1> QED BY <1>5, <1>6, <1>7

(* A stricter threshold never scores a class higher. *)
LEMMA ClassApMonotone ==
    ASSUME NEW task \in Boxed, NEW rs \in Seq(SamplesOf(task)), NEW cls,
           NEW lo \in Int, NEW hi \in Int, lo <= hi
    PROVE  ClassAp(task, rs, cls, hi) <= ClassAp(task, rs, cls, lo)
<1> DEFINE total == TotalOf(task, rs, cls)
           high == BestFor(task, rs, cls, hi)
           low == BestFor(task, rs, cls, lo)
<1>1. total \in Nat \ {0}
  BY HitsToCounts
<1>2. /\ high \in [1..total -> Int] /\ low \in [1..total -> Int]
      /\ \A m \in 1..total : high[m] \in 0..Unit /\ low[m] \in 0..Unit
  BY BestForIs
<1>3. \A m \in 1..total : high[m] <= low[m]
  BY BestForMonotone
<1>4. \/ CountOf(task, rs, cls) = 0 /\ ClassAp(task, rs, cls, hi) = 0 /\ ClassAp(task, rs, cls, lo) = 0
      \/ /\ ClassAp(task, rs, cls, hi) = SumFunction(high) \div total
         /\ ClassAp(task, rs, cls, lo) = SumFunction(low) \div total
  BY ClassApIs
<1> HIDE DEF total, high, low
<1>5. IsFiniteSet(1..total)
  BY <1>1, FS_Interval
<1>6. SumFunction(high) <= SumFunction(low) /\ SumFunction(low) \in Int
  BY <1>2, <1>3, <1>5, SumMonotone
<1>7. SumFunction(high) \in Nat
  <2>1. Unit \in Nat
    BY ScoringAssumption
  <2>2. SumFunction(high) \in 0..(Unit * Cardinality(1..total))
    BY <1>2, <1>5, <2>1, SumBounded
  <2> QED BY <2>2
<1>8. SumFunction(high) \div total <= SumFunction(low) \div total
  BY <1>1, <1>6, <1>7, DivMonotone
<1> QED BY <1>4, <1>8

-----------------------------------------------------------------------------
(* The classes. *)

(* Finitely many classes are seen. *)
LEMMA ClassesFinite ==
    ASSUME NEW task \in Boxed, NEW rs \in Seq(SamplesOf(task))
    PROVE  IsFiniteSet(ClassesOf(task, rs))
<1> DEFINE Seen(r) == {p.cls : p \in Range(r.preds)} \union Range(r.gts)
           parts == {Seen(r) : r \in Range(rs)}
<1>1. \A i \in DOMAIN rs : rs[i] \in SamplesOf(task)
  BY AllIs
<1>2. ASSUME NEW r \in SamplesOf(task) PROVE IsFiniteSet(Seen(r))
  <2>1. /\ DOMAIN r.gts = 1..Len(r.gts) /\ Len(r.gts) \in Nat
        /\ DOMAIN r.preds = 1..Len(r.preds) /\ Len(r.preds) \in Nat
        /\ PredsOf(task, r, 0) \subseteq DOMAIN r.preds
    BY SampleParts
  <2>2. IsFiniteSet(DOMAIN r.gts) /\ IsFiniteSet(DOMAIN r.preds)
    <3>1. \A k \in Nat : IsFiniteSet(1..k)
      BY FS_Interval
    <3>2. IsFiniteSet(1..Len(r.gts)) /\ IsFiniteSet(1..Len(r.preds))
      BY <2>1, <3>1
    <3> QED BY <2>1, <3>2, Zenon
  <2>3. IsFiniteSet(Range(r.gts))
    <3>1. [g \in DOMAIN r.gts |-> r.gts[g]] \in Surjection(DOMAIN r.gts, Range(r.gts))
      BY DEF Surjection, Range
    <3> QED BY <2>2, <3>1, FS_Surjection
  <2>4. IsFiniteSet({p.cls : p \in Range(r.preds)})
    <3>1. [p \in DOMAIN r.preds |-> r.preds[p].cls]
             \in Surjection(DOMAIN r.preds, {p.cls : p \in Range(r.preds)})
      BY DEF Surjection, Range
    <3> QED BY <2>2, <3>1, FS_Surjection
  <2> QED BY <2>3, <2>4, FS_Union
<1>3. IsFiniteSet(DOMAIN rs)
  <2>1. DOMAIN rs = 1..Len(rs) /\ Len(rs) \in Nat
    OBVIOUS
  <2> QED BY <2>1, FS_Interval
<1>4. IsFiniteSet(parts)
  <2> HIDE DEF Seen
  <2>1. [i \in DOMAIN rs |-> Seen(rs[i])] \in Surjection(DOMAIN rs, parts)
    BY DEF Surjection, Range
  <2> HIDE DEF parts
  <2> QED BY <1>3, <2>1, FS_Surjection
<1>5. \A T \in parts : IsFiniteSet(T)
  <2> HIDE DEF Seen
  <2> QED BY <1>1, <1>2 DEF Range
<1>6. IsFiniteSet(UNION parts)
  <2> HIDE DEF parts
  <2> QED BY <1>4, <1>5, FS_UNION
<1>7. ClassesOf(task, rs) = {0} \/ ClassesOf(task, rs) = UNION parts
  BY DEF ClassesOf
<1>8. IsFiniteSet({0})
  BY FS_Singleton
<1> HIDE DEF parts
<1> QED BY <1>6, <1>7, <1>8

(* A mean of fractions is one. *)
LEMMA MeanApBounded ==
    ASSUME NEW task \in Boxed, NEW rs \in Seq(SamplesOf(task)), NEW thr
    PROVE  MeanAp(task, rs, thr) \in 0..Unit
<1> DEFINE classes == ClassesOf(task, rs)
           F == [c \in classes |-> ClassAp(task, rs, c, thr)]
<1>1. IsFiniteSet(classes) /\ Unit \in Nat
  BY ClassesFinite, ScoringAssumption
<1>2. \A c \in classes : F[c] \in 0..Unit
  BY ClassApBounded
<1>3. F \in [classes -> Int]
  BY <1>1, <1>2
<1>4. MeanAp(task, rs, thr) = IF classes = {} THEN 0 ELSE SumFunction(F) \div Cardinality(classes)
  BY DEF MeanAp
<1> HIDE DEF classes, F
<1>5. CASE classes = {}
  BY <1>1, <1>4, <1>5
<1>6. CASE classes # {}
  <2>1. Cardinality(classes) \in Nat \ {0}
    BY <1>1, <1>6, FS_CardinalityType, FS_EmptySet
  <2>2. SumFunction(F) \in 0..(Unit * Cardinality(classes))
    BY <1>1, <1>2, <1>3, SumBounded
  <2>3. SumFunction(F) \div Cardinality(classes) \in 0..Unit
    BY <1>1, <2>1, <2>2, DivBounded
  <2> QED BY <1>4, <1>6, <2>3
<1> QED BY <1>5, <1>6

(* A stricter threshold never scores the classes higher. *)
LEMMA MeanApMonotone ==
    ASSUME NEW task \in Boxed, NEW rs \in Seq(SamplesOf(task)),
           NEW lo \in Int, NEW hi \in Int, lo <= hi
    PROVE  MeanAp(task, rs, hi) <= MeanAp(task, rs, lo)
<1> DEFINE classes == ClassesOf(task, rs)
           H == [c \in classes |-> ClassAp(task, rs, c, hi)]
           L == [c \in classes |-> ClassAp(task, rs, c, lo)]
<1>1. IsFiniteSet(classes) /\ Unit \in Nat
  BY ClassesFinite, ScoringAssumption
<1>2. \A c \in classes : H[c] \in 0..Unit /\ L[c] \in 0..Unit
  BY ClassApBounded
<1>3. \A c \in classes : H[c] <= L[c]
  BY ClassApMonotone
<1>4. H \in [classes -> Int] /\ L \in [classes -> Int]
  BY <1>1, <1>2
<1>5. /\ MeanAp(task, rs, hi) = IF classes = {} THEN 0 ELSE SumFunction(H) \div Cardinality(classes)
      /\ MeanAp(task, rs, lo) = IF classes = {} THEN 0 ELSE SumFunction(L) \div Cardinality(classes)
  BY DEF MeanAp
<1> HIDE DEF classes, H, L
<1>6. CASE classes = {}
  BY <1>5, <1>6
<1>7. CASE classes # {}
  <2>1. Cardinality(classes) \in Nat \ {0}
    BY <1>1, <1>7, FS_CardinalityType, FS_EmptySet
  <2>2. SumFunction(H) \in 0..(Unit * Cardinality(classes))
    BY <1>1, <1>2, <1>4, SumBounded
  <2>3. SumFunction(H) <= SumFunction(L) /\ SumFunction(L) \in Int
    BY <1>1, <1>3, <1>4, SumMonotone
  <2>4. SumFunction(H) \div Cardinality(classes) <= SumFunction(L) \div Cardinality(classes)
    BY <2>1, <2>2, <2>3, DivMonotone
  <2> QED BY <1>5, <1>7, <2>4
<1> QED BY <1>6, <1>7

(* Suppression keeps some of the candidates. *)
LEMMA NmsIs ==
    ASSUME NEW preds, DOMAIN preds \in SUBSET Int, IsFiniteSet(DOMAIN preds),
           \A p \in DOMAIN preds : preds[p].score \in Int,
           NEW over, NEW from \in SUBSET DOMAIN preds
    PROVE  Nms(preds, over, from) \in Seq(DOMAIN preds)
<1> DEFINE n == Cardinality(from)
           order == Ranked(from, ByScore(ScoresOf(preds)))
           A == Seq(DOMAIN preds)
           Step(k, kept) == IF \A i \in Range(kept) : {i, order[k]} \notin over
                            THEN Append(kept, order[k]) ELSE kept
           G == [x \in (1..n) \X A |-> Step(x[1], x[2])]
           Good(kept) == kept = [k \in 0..n |-> IF k = 0 THEN <<>> ELSE Step(k, kept[k - 1])]
<1>1. n \in Nat /\ order \in [1..n -> from] /\ Len(order) = n
  <2>1. ScoresOf(preds) \in [DOMAIN preds -> Int]
    BY DEF ScoresOf
  <2>2. Orders(ByScore(ScoresOf(preds)), from)
    BY <2>1, ByScoreOrders
  <2>3. IsFiniteSet(from)
    BY FS_Subset
  <2> QED BY <2>2, <2>3, RankedIs DEF Ranking
<1>2. \A k \in 1..n, kept \in A : Step(k, kept) \in A
  <2> SUFFICES ASSUME NEW k \in 1..n, NEW kept \in A PROVE Step(k, kept) \in A
    OBVIOUS
  <2>1. order[k] \in DOMAIN preds
    BY <1>1
  <2>2. Append(kept, order[k]) \in A
    BY <2>1
  <2> HIDE DEF A, order
  <2> QED BY <2>2
<1>3. Nms(preds, over, from) = (CHOOSE kept : Good(kept))[n]
  BY <1>1 DEF Nms
<1>4. <<>> \in A
  OBVIOUS
<1> HIDE DEF Step, A, order, n
<1>5. G \in [(1..n) \X A -> A]
  BY <1>2
<1>6. PICK f : Recurses(f, n, A, <<>>, G)
  <2> HIDE DEF G
  <2> QED BY <1>1, <1>4, <1>5, Recursion
<1>7. \A k \in 1..n : f[k] = Step(k, f[k - 1])
  <2> SUFFICES ASSUME NEW k \in 1..n PROVE f[k] = Step(k, f[k - 1])
    OBVIOUS
  <2>a. k - 1 \in 0..n
    BY <1>1
  <2>1. <<k, f[k - 1]>> \in (1..n) \X A
    BY <1>6, <2>a DEF Recurses
  <2> QED BY <1>6, <2>1 DEF Recurses
<1>8. Good(f)
  <2>1. \A k \in 0..n : f[k] = IF k = 0 THEN <<>> ELSE Step(k, f[k - 1])
    BY <1>1, <1>6, <1>7 DEF Recurses
  <2> QED BY <1>6, <2>1 DEF Recurses
<1>9. PICK kept : Good(kept) /\ Nms(preds, over, from) = kept[n]
  <2> HIDE DEF Good
  <2>1. Good(CHOOSE kept : Good(kept))
    BY <1>8
  <2> QED BY <1>3, <2>1
<1> DEFINE T == {k \in 0..n : kept[k] \in A}
<1>10. 0 \in T
  BY <1>1, <1>4, <1>9
<1>11. ASSUME NEW k \in 0..(n - 1), k \in T PROVE k + 1 \in T
  <2>1. k + 1 \in 1..n /\ k + 1 \in 0..n
    BY <1>1
  <2>2. kept[k + 1] = Step(k + 1, kept[k])
    <3>1. \A l \in 0..n : kept[l] = IF l = 0 THEN <<>> ELSE Step(l, kept[l - 1])
      BY <1>9
    <3> HIDE DEF Good
    <3>2. k + 1 # 0 /\ (k + 1) - 1 = k
      BY <2>1
    <3> QED BY <2>1, <3>1, <3>2
  <2>3. kept[k] \in A
    BY <1>11
  <2>4. Step(k + 1, kept[k]) \in A
    BY <1>2, <2>1, <2>3
  <2> QED BY <2>1, <2>2, <2>4
<1>12. 0..n \subseteq T
  <2> HIDE DEF T
  <2> QED BY <1>1, <1>10, <1>11, BoundedInduction
<1>13. n \in T
  BY <1>1, <1>12
<1> QED BY <1>9, <1>13 DEF A

(* What is decoded of a sample is some of its predictions, so that a record *)
(* is a sample again.                                                       *)
LEMMA DecodedIs ==
    ASSUME NEW task \in Boxed, NEW s \in SamplesOf(task)
    PROVE  /\ Decoded(task, s) \in Seq([score : Int, cls : Int, sim : Seq(Int)])
           /\ \A i \in DOMAIN Decoded(task, s) : \E p \in DOMAIN s.preds :
                 Decoded(task, s)[i] = s.preds[p]
<1> DEFINE P == [score : Int, cls : Int, sim : Seq(Int)]
           Some(d) == d \in Seq(P) /\ \A i \in DOMAIN d : \E p \in DOMAIN s.preds : d[i] = s.preds[p]
<1>1. /\ s.preds \in Seq(P) /\ Len(s.preds) \in Nat /\ DOMAIN s.preds = 1..Len(s.preds)
      /\ PredsOf(task, s, 0) \subseteq DOMAIN s.preds
      /\ \A p \in DOMAIN s.preds : s.preds[p].score \in Int
  BY SampleParts
<1>2. DOMAIN s.preds \in SUBSET Int /\ IsFiniteSet(DOMAIN s.preds)
  <2>1. \A k \in Nat : IsFiniteSet(1..k)
    BY FS_Interval
  <2> QED BY <1>1, <2>1
<1>3. ASSUME NEW from \in SUBSET DOMAIN s.preds
      PROVE  Nms(s.preds, s.over, from) \in Seq(DOMAIN s.preds)
  BY <1>1, <1>2, NmsIs
<1> HIDE DEF P
<1>4. \A p \in DOMAIN s.preds : s.preds[p] \in P
  BY <1>1, ElementOfSeq
<1>5. ASSUME NEW order \in Seq(DOMAIN s.preds) PROVE Some(Take(s.preds, order))
  <2>1. DOMAIN order = 1..Len(order) /\ Len(order) \in Nat
    OBVIOUS
  <2>2. \A i \in DOMAIN order : order[i] \in DOMAIN s.preds
    BY <2>1, ElementOfSeq
  <2>3. Take(s.preds, order) \in [1..Len(order) -> P]
    BY <1>4, <2>1, <2>2 DEF Take
  <2>4. Take(s.preds, order) \in Seq(P)
    BY <2>1, <2>3, SeqDef
  <2>5. \A i \in DOMAIN Take(s.preds, order) : \E p \in DOMAIN s.preds : Take(s.preds, order)[i] = s.preds[p]
    BY <2>2 DEF Take
  <2> QED BY <2>4, <2>5
<1>6. Some(DecodeSegment(s))
  <2> DEFINE kept == Nms(s.preds, s.over, DOMAIN s.preds)
             side == IF Len(kept) > 1 THEN Len(kept) \div 2 + 1 ELSE 1
  <2>1. kept \in Seq(DOMAIN s.preds)
    BY <1>3
  <2>2. DecodeSegment(s) = IF kept = <<>> THEN <<>> ELSE <<s.preds[kept[side]]>>
    BY DEF DecodeSegment
  <2> HIDE DEF kept
  <2>3. CASE kept = <<>>
    <3>1. <<>> \in Seq(P) /\ DOMAIN <<>> = {}
      OBVIOUS
    <3>2. DecodeSegment(s) = <<>>
      BY <2>2, <2>3
    <3> QED BY <3>1, <3>2
  <2>4. CASE kept # <<>>
    <3>1. Len(kept) \in Nat \ {0}
      BY <2>1, <2>4, EmptySeq
    <3>2. side \in 1..Len(kept)
      <4> DEFINE n == Len(kept)  h == n \div 2
      <4>1. h \in Nat /\ 2 * h <= n
        <5> HIDE DEF n
        <5>1. n \in Nat /\ 2 \in Nat \ {0}
          BY <3>1 DEF n
        <5> QED BY <5>1, DivIs
      <4>2. n > 1 => h + 1 \in 1..n
        <5> HIDE DEF h
        <5> QED BY <3>1, <4>1
      <4> QED BY <3>1, <4>2
    <3> HIDE DEF side
    <3>3. kept[side] \in DOMAIN s.preds
      BY <2>1, <3>2, ElementOfSeq
    <3>4. s.preds[kept[side]] \in P
      BY <1>4, <3>3
    <3>5. PICK p \in DOMAIN s.preds : p = kept[side] /\ s.preds[p] \in P
      BY <3>3, <3>4
    <3>6. DecodeSegment(s) = <<s.preds[p]>>
      BY <2>2, <2>4, <3>5
    <3>7. <<s.preds[p]>> \in Seq(P) /\ DOMAIN <<s.preds[p]>> = {1}
      BY <3>5
    <3>8. <<s.preds[p]>>[1] = s.preds[p]
      OBVIOUS
    <3> QED BY <3>6, <3>7, <3>8
  <2> QED BY <2>3, <2>4
<1>7. Above(s.preds, 25) \in SUBSET DOMAIN s.preds /\ Above(s.preds, 5) \in SUBSET DOMAIN s.preds
  BY DEF Above
<1>8. Some(DecodePoses(s)) /\ Some(DecodeObb(s)) /\ Some(DecodeDetections(s))
  <2> HIDE DEF Some
  <2>1. DOMAIN s.preds \in SUBSET DOMAIN s.preds
    OBVIOUS
  <2> QED BY <1>3, <1>5, <1>7, <2>1 DEF DecodePoses, DecodeObb, DecodeDetections
<1>9. Decoded(task, s) \in {DecodeSegment(s), DecodePoses(s), DecodeObb(s), DecodeDetections(s)}
  BY DEF Decoded, Boxed
<1>10. Some(Decoded(task, s))
  <2> HIDE DEF Some
  <2> QED BY <1>6, <1>8, <1>9
<1> QED BY <1>10 DEF P

(* What is kept of a sample is a sample. *)
LEMMA RecordIs ==
    ASSUME NEW task, NEW s \in SamplesOf(task)
    PROVE  Record(task, s) \in SamplesOf(task)
<1>1. CASE task \in Boxed
  <2> DEFINE d == Decoded(task, s)
             P == [score : Int, cls : Int, sim : Seq(Int)]
  <2>1. d \in Seq(P) /\ \A i \in DOMAIN d : \E p \in DOMAIN s.preds : d[i] = s.preds[p]
    BY <1>1, DecodedIs
  <2>2. Record(task, s) = [s EXCEPT !.preds = d]
    BY <1>1 DEF Record
  <2>3. /\ s \in [preds : Seq(P), over : SUBSET SUBSET Nat, gts : Seq(Int)]
        /\ \A i \in DOMAIN s.preds : Len(s.preds[i].sim) = Len(s.gts)
        /\ task = "segment" => Len(s.gts) = 1
    BY <1>1 DEF SamplesOf, Objects
  <2> HIDE DEF d, P
  <2>4. Record(task, s) \in [preds : Seq(P), over : SUBSET SUBSET Nat, gts : Seq(Int)]
    BY <2>1, <2>2, <2>3
  <2>5. Record(task, s).preds = d /\ Record(task, s).gts = s.gts
    BY <2>2, <2>3
  <2>6. \A i \in DOMAIN d : Len(d[i].sim) = Len(s.gts)
    BY <2>1, <2>3
  <2> QED BY <1>1, <2>3, <2>4, <2>5, <2>6 DEF SamplesOf, Objects, P
<1>2. CASE task \notin Boxed
  <2>1. Record(task, s) = [s EXCEPT !.preds = s.preds]
    BY <1>2 DEF Record
  <2>2. s \in [preds : Seq(Int), over : {{}}, gts : IF task = "cls" THEN Int ELSE Seq(Int)]
    BY <1>2 DEF SamplesOf
  <2>3. Record(task, s) = s
    BY <2>1, <2>2
  <2> QED BY <2>3
<1> QED BY <1>1, <1>2

(* The first of a ranking are among the first k. *)
LEMMA TopGrows ==
    ASSUME NEW probs \in Seq(Int), NEW k \in Nat \ {0}
    PROVE  Top(probs, 1) \subseteq Top(probs, k)
<1> DEFINE order == Ranked(DOMAIN probs, ByScore(probs))
           n == Len(probs)
<1>1. n \in Nat
  OBVIOUS
<1>2. \A a, b \in Int : /\ Min({a, b}) \in Int
                        /\ Min({a, b}) = IF a <= b THEN a ELSE b
  <2> SUFFICES ASSUME NEW a \in Int, NEW b \in Int
               PROVE  Min({a, b}) = IF a <= b THEN a ELSE b
    OBVIOUS
  <2> DEFINE Least(x) == x \in {a, b} /\ \A y \in {a, b} : x <= y
  <2>1. Min({a, b}) = CHOOSE x \in {a, b} : \A y \in {a, b} : x <= y
    BY DEF Min
  <2>2. \E x \in {a, b} : \A y \in {a, b} : x <= y
    <3>1. CASE a <= b
      BY <3>1
    <3>2. CASE b <= a
      BY <3>2
    <3> QED BY <3>1, <3>2
  <2>3. Min({a, b}) \in {a, b} /\ \A y \in {a, b} : Min({a, b}) <= y
    BY <2>1, <2>2
  <2> QED BY <2>3
<1>3. Min({1, n}) <= Min({k, n}) /\ Min({1, n}) \in Int /\ Min({k, n}) \in Int
  <2> HIDE DEF n
  <2> QED BY <1>1, <1>2
<1>4. /\ Top(probs, 1) = {order[i] : i \in 1..Min({1, n})}
      /\ Top(probs, k) = {order[i] : i \in 1..Min({k, n})}
  BY DEF Top
<1> HIDE DEF order, n
<1>5. 1..Min({1, n}) \subseteq 1..Min({k, n})
  BY <1>3
<1> QED BY <1>4, <1>5, Zenon

Within(rs, k) == Cardinality({i \in DOMAIN rs : rs[i].gts \in Top(rs[i].preds, k)})

(* What is kept is typed, the verdict is open until the end, and then it is *)
(* what was computed of the records, which do not change any more.          *)
Kept ==
    /\ model \in Deployments
    /\ samples \in Seq(SamplesOf(model.task))
    /\ at \in Nat \ {0}
    /\ records \in Seq(SamplesOf(model.task))
Judged ==
    /\ phase # "done" => verdict = NoVerdict
    /\ verdict.available /\ model.task \in Boxed =>
          \A i \in 1..10 : verdict.ap[i] = MeanAp(model.task, records, Thresholds[i])
    /\ verdict.available /\ model.task = "cls" =>
          /\ verdict.hits = Within(records, 1) /\ verdict.topk = Within(records, TopK)
          /\ verdict.total = Len(records)
IInv == Kept /\ Judged

(* Nothing is kept, and no verdict given, before the first sample. *)
LEMMA InitKept == Init => IInv
<1> SUFFICES ASSUME Init PROVE IInv
  OBVIOUS
<1>1. model \in Deployments /\ samples \in Datasets[model.task]
  BY DEF Init
<1>2. samples \in Seq(SamplesOf(model.task))
  BY <1>1, ScoringAssumption
<1>3. at = 1 /\ records = <<>> /\ verdict = NoVerdict
  BY DEF Init
<1>4. Kept
  BY <1>1, <1>2, <1>3 DEF Kept
<1>5. Judged
  BY <1>3 DEF Judged, NoVerdict
<1> QED BY <1>4, <1>5 DEF IInv

(* Asking changes neither. *)
LEMMA AskKeeps == IInv /\ Ask => IInv'
<1> SUFFICES ASSUME IInv, Ask PROVE IInv'
  OBVIOUS
<1>1. /\ UNCHANGED <<model, samples, annotated, at, records, verdict>>
      /\ phase = "asked"
  BY DEF Ask, inputs
<1>2. Kept'
  BY <1>1 DEF IInv, Kept
<1>3. verdict = NoVerdict
  BY <1>1 DEF IInv, Judged
<1>4. Judged'
  BY <1>1, <1>3 DEF Judged, NoVerdict
<1> QED BY <1>2, <1>4 DEF IInv

(* A run keeps a record of the sample, or ends without a verdict. *)
LEMMA RunKeeps == IInv /\ Run => IInv'
<1> SUFFICES ASSUME IInv, Run PROVE IInv'
  OBVIOUS
<1> DEFINE r == Record(model.task, samples[at])
<1>1. /\ UNCHANGED <<model, samples, annotated, verdict>>
      /\ phase = "running" /\ at <= Len(samples)
      /\ at' \in {at, at + 1}
      /\ records' \in {records, Append(records, r)}
  BY DEF Run, inputs
<1>2. Kept
  BY DEF IInv
<1>3. samples[at] \in SamplesOf(model.task)
  <2>1. samples \in Seq(SamplesOf(model.task)) /\ at \in 1..Len(samples)
    BY <1>1, <1>2 DEF Kept
  <2> QED BY <2>1, ElementOfSeq
<1>4. r \in SamplesOf(model.task)
  BY <1>3, RecordIs
<1> HIDE DEF r
<1>5. Kept'
  <2> DEFINE S == SamplesOf(model.task)
  <2>1. records \in Seq(S) /\ r \in S
    BY <1>2, <1>4 DEF Kept
  <2> HIDE DEF S
  <2>2. records' \in Seq(S)
    BY <1>1, <2>1
  <2>3. records' \in Seq(SamplesOf(model.task))
    BY <2>2 DEF S
  <2>4. at' \in Nat \ {0}
    BY <1>1, <1>2 DEF Kept
  <2> QED BY <1>1, <1>2, <2>3, <2>4 DEF Kept
<1>6. verdict = NoVerdict
  BY <1>1 DEF IInv, Judged
<1>7. Judged'
  BY <1>1, <1>6 DEF Judged, NoVerdict
<1> QED BY <1>5, <1>7 DEF IInv

(* The verdict on boxes is computed of the records. *)
LEMMA ScoreObjectsKeeps == IInv /\ ScoreObjects => IInv'
<1> SUFFICES ASSUME IInv, ScoreObjects PROVE IInv'
  OBVIOUS
<1> DEFINE metrics == [NoVerdict EXCEPT !.available = TRUE,
                          !.ap = [i \in 1..10 |-> MeanAp(model.task, records, Thresholds[i])]]
<1>1. /\ UNCHANGED <<model, samples, annotated, at, records>>
      /\ model.task \in Boxed /\ phase' = "done"
      /\ verdict' = NoVerdict \/ verdict' = metrics
  BY DEF ScoreObjects, Score, inputs
<1>2. Kept'
  BY <1>1 DEF IInv, Kept
<1>3. NoVerdict.available = FALSE
  BY DEF NoVerdict
<1>4. \A i \in 1..10 : metrics.ap[i] = MeanAp(model.task, records, Thresholds[i])
  BY DEF NoVerdict
<1>5. model.task # "cls"
  BY <1>1 DEF Boxed
<1> HIDE DEF metrics
<1>6. verdict'.available => \A i \in 1..10 : verdict'.ap[i] = MeanAp(model.task, records, Thresholds[i])
  BY <1>1, <1>3, <1>4
<1>7. Judged'
  BY <1>1, <1>5, <1>6 DEF Judged
<1> QED BY <1>2, <1>7 DEF IInv

(* The verdict on classes is computed of the records. *)
LEMMA ScoreClassesKeeps == IInv /\ ScoreClasses => IInv'
<1> SUFFICES ASSUME IInv, ScoreClasses PROVE IInv'
  OBVIOUS
<1>1. /\ UNCHANGED <<model, samples, annotated, at, records>>
      /\ model.task = "cls" /\ phase' = "done"
      /\ verdict' = [NoVerdict EXCEPT !.available = TRUE, !.hits = Within(records, 1),
                                      !.topk = Within(records, TopK), !.total = Len(records)]
  BY DEF ScoreClasses, Score, inputs, Within
<1>2. Kept'
  BY <1>1 DEF IInv, Kept
<1>3. /\ verdict'.hits = Within(records, 1) /\ verdict'.topk = Within(records, TopK)
      /\ verdict'.total = Len(records)
  BY <1>1 DEF NoVerdict
<1>4. "cls" \notin Boxed
  BY DEF Boxed
<1>5. Judged'
  BY <1>1, <1>3, <1>4 DEF Judged
<1> QED BY <1>2, <1>5 DEF IInv

(* The verdict on pixels is about no box and no class. *)
LEMMA ScorePixelsKeeps == IInv /\ ScorePixels => IInv'
<1> SUFFICES ASSUME IInv, ScorePixels PROVE IInv'
  OBVIOUS
<1>1. /\ UNCHANGED <<model, samples, annotated, at, records>>
      /\ model.task \in {"depth", "sem"} /\ phase' = "done"
  BY DEF ScorePixels, Score, inputs
<1>2. Kept'
  BY <1>1 DEF IInv, Kept
<1>3. "depth" \notin Boxed /\ "sem" \notin Boxed
  BY DEF Boxed
<1>4. Judged'
  BY <1>1, <1>3 DEF Judged
<1> QED BY <1>2, <1>4 DEF IInv

(* A step of others changes nothing. *)
LEMMA StutterKeeps == IInv /\ UNCHANGED vars => IInv'
<1> SUFFICES ASSUME IInv, UNCHANGED vars PROVE IInv'
  OBVIOUS
<1>1. UNCHANGED <<model, samples, phase, at, records, verdict>>
  BY DEF vars
<1>2. Kept'
  BY <1>1 DEF IInv, Kept
<1>3. Judged'
  BY <1>1 DEF IInv, Judged
<1> QED BY <1>2, <1>3 DEF IInv

(* Hence it always holds. *)
LEMMA Inductive == Spec => []IInv
<1>1. Init => IInv
  BY InitKept
<1>2. IInv /\ [Next]_vars => IInv'
  BY AskKeeps, RunKeeps, ScoreObjectsKeeps, ScoreClassesKeeps, ScorePixelsKeeps, StutterKeeps
     DEF Next
<1> QED BY <1>1, <1>2, PTL DEF Spec

(* What is computed so is bounded. *)
LEMMA IInvBounds == IInv => ScoresBounded
<1> SUFFICES ASSUME IInv PROVE ScoresBounded
  OBVIOUS
<1>1. records \in Seq(SamplesOf(model.task))
  BY DEF IInv, Kept
<1>2. ASSUME Scored(Boxed)
      PROVE  /\ verdict.ap[1] <= Unit
             /\ \A i \in 1..9 : verdict.ap[i + 1] <= verdict.ap[i]
  <2>1. model.task \in Boxed /\ \A i \in 1..10 : verdict.ap[i] = MeanAp(model.task, records, Thresholds[i])
    BY <1>2 DEF IInv, Judged, Scored
  <2>2. verdict.ap[1] <= Unit
    <3>1. MeanAp(model.task, records, Thresholds[1]) \in 0..Unit
      BY <1>1, <2>1, MeanApBounded
    <3>2. Unit \in Nat
      BY ScoringAssumption
    <3>3. verdict.ap[1] = MeanAp(model.task, records, Thresholds[1])
      BY <2>1
    <3> QED BY <3>1, <3>2, <3>3
  <2>3. ASSUME NEW i \in 1..9 PROVE verdict.ap[i + 1] <= verdict.ap[i]
    <3>1. i \in 1..10 /\ i + 1 \in 1..10
      OBVIOUS
    <3>2. /\ Thresholds[i] \in Int /\ Thresholds[i + 1] \in Int
          /\ Thresholds[i] <= Thresholds[i + 1]
      BY <3>1 DEF Thresholds
    <3>3. MeanAp(model.task, records, Thresholds[i + 1]) <= MeanAp(model.task, records, Thresholds[i])
      BY <1>1, <2>1, <3>2, MeanApMonotone
    <3>4. /\ verdict.ap[i] = MeanAp(model.task, records, Thresholds[i])
          /\ verdict.ap[i + 1] = MeanAp(model.task, records, Thresholds[i + 1])
      BY <2>1, <3>1
    <3> QED BY <3>3, <3>4
  <2> QED BY <2>2, <2>3
<1>3. ASSUME Scored({"cls"}) PROVE verdict.hits <= verdict.topk /\ verdict.topk <= verdict.total
  <2>1. /\ model.task = "cls"
        /\ verdict.hits = Within(records, 1) /\ verdict.topk = Within(records, TopK)
        /\ verdict.total = Len(records)
    BY <1>3 DEF IInv, Judged, Scored
  <2> DEFINE In(k) == {i \in DOMAIN records : records[i].gts \in Top(records[i].preds, k)}
  <2>2. DOMAIN records = 1..Len(records) /\ Len(records) \in Nat
    BY <1>1
  <2>3. ASSUME NEW i \in DOMAIN records PROVE records[i].preds \in Seq(Int)
    <3>1. records[i] \in SamplesOf("cls")
      BY <1>1, <2>1, <2>2, ElementOfSeq
    <3> QED BY <3>1 DEF SamplesOf, Boxed
  <2>4. In(1) \in SUBSET In(TopK)
    BY <2>3, TopGrows, ScoringAssumption
  <2>5. In(TopK) \in SUBSET (1..Len(records))
    BY <2>2
  <2>6. IsFiniteSet(1..Len(records)) /\ Cardinality(1..Len(records)) = Len(records)
    <3>1. \A k \in Nat : IsFiniteSet(1..k) /\ Cardinality(1..k) = k
      BY FS_Interval
    <3> QED BY <2>2, <3>1
  <2>7. Within(records, 1) = Cardinality(In(1)) /\ Within(records, TopK) = Cardinality(In(TopK))
    BY DEF Within
  <2> HIDE DEF In
  <2>8. IsFiniteSet(In(TopK)) /\ Cardinality(In(TopK)) <= Len(records)
    BY <2>5, <2>6, FS_Subset
  <2>9. Cardinality(In(1)) <= Cardinality(In(TopK))
    BY <2>4, <2>8, FS_Subset
  <2> QED BY <2>1, <2>7, <2>8, <2>9
<1> QED BY <1>2, <1>3 DEF ScoresBounded

(* What evaluate() returns is bounded, for every deployment, dataset, unit  *)
(* and k: no task scores above 1, a stricter IoU threshold never scores     *)
(* higher, and a class found first is found among the first k.              *)
THEOREM ScoresAreBounded == Spec => []ScoresBounded
  BY Inductive, IInvBounds, PTL

(* What a prediction of a detection goes for: its best annotation, if that  *)
(* is like enough, taken or not.                                            *)
Goal(r, cls, thr, p) ==
    {g \in BestOf(r.preds[p].sim, GtsOf("detection", r, cls)) : r.preds[p].sim[g] >= thr}

(* A detection has boxes, and classes that matter. *)
LEMMA DetectionBoxed == "detection" \in Boxed /\ "detection" # "segment"
  BY DEF Boxed

(* It finds that, unless it is taken. *)
LEMMA GoalFound ==
    ASSUME NEW r, NEW cls, NEW thr, NEW p, NEW taken
    PROVE  FoundBy("detection", r, cls, thr, p, taken) = Goal(r, cls, thr, p) \ taken
<1>1. FoundBy("detection", r, cls, thr, p, taken)
         = {g \in BestOf(r.preds[p].sim, GtsOf("detection", r, cls)) :
               r.preds[p].sim[g] >= thr /\ g \notin taken}
  BY DEF FoundBy, Found
<1> QED BY <1>1 DEF Goal

(* That is the target of the definition. *)
LEMMA GoalIs ==
    ASSUME NEW rs \in Seq(SamplesOf("detection")), NEW cls, NEW thr \in Int,
           NEW i \in DOMAIN rs, NEW p \in PredsOf("detection", rs[i], cls)
    PROVE  /\ Finds(rs, <<i, p>>, cls, thr) <=> Goal(rs[i], cls, thr, p) # {}
           /\ Finds(rs, <<i, p>>, cls, thr)
                 => Goal(rs[i], cls, thr, p) = {Target(rs, <<i, p>>, cls)}
<1> DEFINE r == rs[i]
           sim == r.preds[p].sim
           A == GtsOf("detection", r, cls)
           D == DOMAIN r.gts
           best == BestOf(sim, A)
           Cond(g) == \A h \in A : sim[g] >= sim[h] /\ (h < g => sim[h] < sim[g])
<1>1. r \in SamplesOf("detection")
  BY AllIs, DetectionBoxed
<1>2. D \in SUBSET Int /\ sim \in [D -> Int] /\ A \in SUBSET D /\ IsFiniteSet(A)
  <2>1. p \in DOMAIN r.preds /\ DOMAIN r.gts = 1..Len(r.gts) /\ A \subseteq DOMAIN r.gts /\ IsFiniteSet(A)
    BY <1>1, SampleParts, DetectionBoxed
  <2>2. sim \in [D -> Int]
    BY <1>1, <2>1, SampleParts, DetectionBoxed
  <2> QED BY <2>1, <2>2
<1>3. Annotations(rs, <<i, p>>, cls) = A
  BY DEF Annotations, GtsOf
<1>4. SimOf(rs, <<i, p>>) = sim
  BY DEF SimOf
<1>5. /\ Finds(rs, <<i, p>>, cls, thr) <=> \E g \in A : sim[g] >= thr
      /\ Target(rs, <<i, p>>, cls) = CHOOSE g \in A : Cond(g)
  BY <1>3, <1>4 DEF Finds, Target
<1>6. Goal(r, cls, thr, p) = {g \in best : sim[g] >= thr}
  BY DEF Goal
<1> HIDE DEF r, sim, A, D
<1>7. best \subseteq A /\ (\A g, h \in best : g = h) /\ (A # {} => best # {})
  BY <1>2, BestIs
<1>8. \A g \in A : g \in best <=> Cond(g)
  <2> SUFFICES ASSUME NEW g \in A PROVE g \in best <=> Cond(g)
    OBVIOUS
  <2>1. \A h \in A : (sim[g] > sim[h] \/ (sim[g] = sim[h] /\ g <= h))
                        <=> (sim[g] >= sim[h] /\ (h < g => sim[h] < sim[g]))
    <3> SUFFICES ASSUME NEW h \in A
                 PROVE  (sim[g] > sim[h] \/ (sim[g] = sim[h] /\ g <= h))
                           <=> (sim[g] >= sim[h] /\ (h < g => sim[h] < sim[g]))
      OBVIOUS
    <3>1. g \in Int /\ h \in Int /\ sim[g] \in Int /\ sim[h] \in Int
      BY <1>2
    <3> QED BY <3>1
  <2> QED BY <2>1 DEF BestOf
<1> HIDE DEF best
<1>9. ASSUME NEW b \in best PROVE (CHOOSE g \in A : Cond(g)) = b
  <2>1. b \in A /\ Cond(b)
    BY <1>7, <1>8
  <2> HIDE DEF Cond
  <2>2. (CHOOSE g \in A : Cond(g)) \in A /\ Cond(CHOOSE g \in A : Cond(g))
    BY <2>1
  <2> QED BY <1>7, <1>8, <2>2
<1>10. ASSUME NEW g \in A, sim[g] >= thr PROVE \E b \in best : sim[b] >= thr
  <2>1. PICK b \in best : TRUE
    BY <1>7
  <2>2. b \in A /\ sim[b] >= sim[g]
    BY <1>7, <1>8, <2>1
  <2>3. sim[b] \in Int /\ sim[g] \in Int
    BY <1>2, <2>2
  <2> QED BY <1>10, <2>2, <2>3
<1>11. Finds(rs, <<i, p>>, cls, thr) <=> Goal(r, cls, thr, p) # {}
  BY <1>5, <1>6, <1>7, <1>10
<1>12. ASSUME Finds(rs, <<i, p>>, cls, thr)
       PROVE  Goal(r, cls, thr, p) = {Target(rs, <<i, p>>, cls)}
  <2>1. PICK b \in Goal(r, cls, thr, p) : TRUE
    BY <1>11, <1>12
  <2>2. b \in best
    BY <1>6, <2>1
  <2>3. Target(rs, <<i, p>>, cls) = b
    BY <1>5, <1>9, <2>2
  <2> QED BY <1>6, <1>7, <2>1, <2>2, <2>3
<1> QED BY <1>11, <1>12 DEF r

(* What is taken is what the predictions so far go for.                     *)
LEMMA TakenIs ==
    ASSUME NEW r \in SamplesOf("detection"), NEW cls, NEW thr, NEW n, NEW match,
           n = Cardinality(PredsOf("detection", r, cls)),
           Matches(match, n, "detection", r, cls, thr)
    PROVE  \A k \in 0..n : \A g : g \in Taken(match[k])
              <=> \E j \in 1..k : g \in Goal(r, cls, thr, OrderOf("detection", r, cls)[j])
<1> DEFINE order == OrderOf("detection", r, cls)
           Aim(j) == Goal(r, cls, thr, order[j])
           P(k) == \A g : g \in Taken(match[k]) <=> \E j \in 1..k : g \in Aim(j)
           T == {k \in 0..n : P(k)}
<1>1. n \in Nat
  BY OrderOfIs, DetectionBoxed DEF Ranking
<1>2. P(0)
  BY DEF Matches, Taken
<1>3. ASSUME NEW k \in 0..(n - 1), P(k) PROVE P(k + 1)
  <2>1. match[k + 1] = match[k] \union
           ({order[k + 1]} \X FoundBy("detection", r, cls, thr, order[k + 1], Taken(match[k])))
    <3>1. k + 1 \in 1..n /\ (k + 1) - 1 = k
      BY <1>1
    <3> QED BY <3>1 DEF Matches
  <2>2. FoundBy("detection", r, cls, thr, order[k + 1], Taken(match[k])) = Aim(k + 1) \ Taken(match[k])
    BY GoalFound
  <2> DEFINE new == Aim(k + 1) \ Taken(match[k])
             p == order[k + 1]
  <2>3. match[k + 1] = match[k] \union ({p} \X new)
    BY <2>1, <2>2
  <2> HIDE DEF new, p
  <2>4. Taken(match[k + 1]) = Taken(match[k]) \union new
    <3>1. ASSUME NEW g \in Taken(match[k + 1]) PROVE g \in Taken(match[k]) \union new
      <4>1. PICK m \in match[k + 1] : m[2] = g
        BY DEF Taken
      <4>2. CASE m \in match[k]
        BY <4>1, <4>2 DEF Taken
      <4>3. CASE m \in {p} \X new
        BY <4>1, <4>3
      <4> QED BY <2>3, <4>1, <4>2, <4>3
    <3>2. ASSUME NEW g \in Taken(match[k]) PROVE g \in Taken(match[k + 1])
      BY <2>3 DEF Taken
    <3>3. ASSUME NEW g \in new PROVE g \in Taken(match[k + 1])
      <4>1. <<p, g>> \in match[k + 1] /\ <<p, g>>[2] = g
        BY <2>3
      <4> QED BY <4>1 DEF Taken
    <3> QED BY <3>1, <3>2, <3>3
  <2>5. 1..(k + 1) = (1..k) \union {k + 1}
    BY <1>1
  <2> HIDE DEF Aim
  <2>6. ASSUME NEW g
        PROVE  g \in Taken(match[k + 1]) <=> \E j \in 1..(k + 1) : g \in Aim(j)
    <3>1. g \in Taken(match[k + 1]) <=> g \in Taken(match[k]) \/ g \in Aim(k + 1)
      BY <2>4 DEF new
    <3>2. g \in Taken(match[k]) <=> \E j \in 1..k : g \in Aim(j)
      BY <1>3
    <3>3. (\E j \in 1..(k + 1) : g \in Aim(j)) <=> g \in Aim(k + 1) \/ \E j \in 1..k : g \in Aim(j)
      BY <2>5
    <3> QED BY <3>1, <3>2, <3>3
  <2> QED BY <2>6
<1> HIDE DEF P
<1>4. 0 \in T
  BY <1>1, <1>2
<1>5. \A k \in 0..(n - 1) : k \in T => k + 1 \in T
  BY <1>1, <1>3
<1>6. 0..n \subseteq T
  <2> HIDE DEF T
  <2> QED BY <1>1, <1>4, <1>5, BoundedInduction
<1>7. \A k \in 0..n : P(k)
  BY <1>6
<1> QED BY <1>7 DEF P

(* A prediction is matched just when nobody before it went for the same.    *)
LEMMA HitIs ==
    ASSUME NEW r \in SamplesOf("detection"), NEW cls, NEW thr,
           NEW p \in PredsOf("detection", r, cls)
    PROVE  (\E m \in Match("detection", r, cls, thr) : m[1] = p)
              <=> \E g \in Goal(r, cls, thr, p) : \A q \in PredsOf("detection", r, cls) :
                     <<q, p>> \in ByScore(ScoresOf(r.preds)) => g \notin Goal(r, cls, thr, q)
<1> DEFINE n == Cardinality(PredsOf("detection", r, cls))
           order == OrderOf("detection", r, cls)
           preds == PredsOf("detection", r, cls)
<1>1. PICK match : Matches(match, n, "detection", r, cls, thr)
  BY MatchesExists, DetectionBoxed
<1>2. /\ n \in Nat /\ order \in [1..n -> preds]
      /\ \A j, k \in 1..n : j < k <=> <<order[j], order[k]>> \in ByScore(ScoresOf(r.preds))
      /\ \A j, k \in 1..n : order[j] = order[k] => j = k
      /\ \A x \in preds : \E k \in 1..n : order[k] = x
  BY OrderOfIs, DetectionBoxed DEF Ranking
<1>3. /\ Match("detection", r, cls, thr) = match[n]
      /\ \A k \in 1..n : match[k] = match[k - 1] \union
            ({order[k]} \X FoundBy("detection", r, cls, thr, order[k], Taken(match[k - 1])))
  BY <1>1 DEF Matches
<1>4. \A k \in 0..n : \A m \in match[k] : \E j \in 1..k :
         /\ m[1] = order[j]
         /\ m[2] \in FoundBy("detection", r, cls, thr, m[1], Taken(match[j - 1]))
  BY <1>1, MatchMade, DetectionBoxed
<1>5. \A k \in 0..n : \A j \in 0..k : match[j] \subseteq match[k]
  BY <1>1, MatchGrows, DetectionBoxed
<1>6. \A k \in 0..n : \A g : g \in Taken(match[k])
         <=> \E j \in 1..k : g \in Goal(r, cls, thr, order[j])
  BY <1>1, TakenIs
<1> HIDE DEF n, order, preds
<1>7. PICK k \in 1..n : order[k] = p
  BY <1>2 DEF preds
<1> DEFINE new == Goal(r, cls, thr, p) \ Taken(match[k - 1])
<1>8. k - 1 \in 0..n /\ k \in 0..n /\ n \in 0..n /\ k \in 0..n
  BY <1>2
<1>9. FoundBy("detection", r, cls, thr, p, Taken(match[k - 1])) = new
  BY GoalFound
<1>10. (\E m \in match[n] : m[1] = p) <=> new # {}
  <2>1. ASSUME NEW m \in match[n], m[1] = p PROVE new # {}
    <3>1. PICK j \in 1..n : /\ m[1] = order[j]
                            /\ m[2] \in FoundBy("detection", r, cls, thr, m[1], Taken(match[j - 1]))
      BY <1>4, <1>8
    <3>2. j = k
      BY <1>2, <1>7, <2>1, <3>1
    <3> QED BY <1>9, <2>1, <3>1, <3>2
  <2>2. ASSUME NEW g \in new PROVE \E m \in match[n] : m[1] = p
    <3> HIDE DEF new
    <3>1. match[k] = match[k - 1] \union ({p} \X new)
      BY <1>3, <1>7, <1>9
    <3>2. <<p, g>> \in match[k] /\ <<p, g>>[1] = p
      BY <3>1
    <3>3. match[k] \subseteq match[n]
      BY <1>5, <1>8
    <3> QED BY <3>2, <3>3
  <2> QED BY <2>1, <2>2
<1>11. \A g : g \in Taken(match[k - 1])
          <=> \E j \in 1..(k - 1) : g \in Goal(r, cls, thr, order[j])
  BY <1>6, <1>8
<1>12. ASSUME NEW g
       PROVE  g \in Taken(match[k - 1]) <=> \E q \in preds :
                 <<q, p>> \in ByScore(ScoresOf(r.preds)) /\ g \in Goal(r, cls, thr, q)
  <2>1. ASSUME NEW j \in 1..(k - 1), g \in Goal(r, cls, thr, order[j])
        PROVE  \E q \in preds : <<q, p>> \in ByScore(ScoresOf(r.preds)) /\ g \in Goal(r, cls, thr, q)
    <3>1. j \in 1..n /\ j < k
      BY <1>2
    <3>2. order[j] \in preds /\ <<order[j], p>> \in ByScore(ScoresOf(r.preds))
      BY <1>2, <1>7, <3>1
    <3> QED BY <2>1, <3>2
  <2>2. ASSUME NEW q \in preds, <<q, p>> \in ByScore(ScoresOf(r.preds)), g \in Goal(r, cls, thr, q)
        PROVE  \E j \in 1..(k - 1) : g \in Goal(r, cls, thr, order[j])
    <3>1. PICK j \in 1..n : order[j] = q
      BY <1>2
    <3>2. j < k
      BY <1>2, <1>7, <2>2, <3>1
    <3>3. j \in 1..(k - 1)
      BY <1>2, <3>2
    <3> QED BY <2>2, <3>1, <3>3
  <2> QED BY <1>11, <2>1, <2>2
<1>13. new # {} <=> \E g \in Goal(r, cls, thr, p) : g \notin Taken(match[k - 1])
  OBVIOUS
<1> HIDE DEF new
<1>14. (\E m \in match[n] : m[1] = p)
          <=> \E g \in Goal(r, cls, thr, p) : \A q \in preds :
                 <<q, p>> \in ByScore(ScoresOf(r.preds)) => g \notin Goal(r, cls, thr, q)
  BY <1>10, <1>12, <1>13
<1> QED BY <1>3, <1>14 DEF preds

(* Sets paired off are of one size. *)
LEMMA PairedOff ==
    ASSUME NEW S, IsFiniteSet(S), NEW T, NEW f \in [S -> T],
           \A a, b \in S : f[a] = f[b] => a = b, \A t \in T : \E s \in S : f[s] = t
    PROVE  Cardinality(T) = Cardinality(S)
<1>1. f \in Bijection(S, T)
  BY Fun_IsBij
<1>2. ExistsBijection(S, T)
  BY <1>1 DEF ExistsBijection
<1> QED BY <1>2, FS_Bijection

(* In the evaluator's words and in those of the definition: a prediction is *)
(* hit just when it is the first to go for its annotation.                  *)
LEMMA HitsAreFirst ==
    ASSUME NEW rs \in Seq(SamplesOf("detection")), NEW cls, NEW thr \in Int,
           NEW x \in AllPreds("detection", rs, cls)
    PROVE  x \in Hits("detection", rs, cls, thr)
              <=> FindsFirst(rs, AllPreds("detection", rs, cls), x, cls, thr)
<1> DEFINE all == AllPreds("detection", rs, cls)
           i == x[1]
           p == x[2]
           r == rs[i]
           preds == PredsOf("detection", r, cls)
           First == \E g \in Goal(r, cls, thr, p) : \A q \in preds :
                       <<q, p>> \in ByScore(ScoresOf(r.preds)) => g \notin Goal(r, cls, thr, q)
<1>1. x = <<i, p>> /\ i \in DOMAIN rs /\ p \in preds
  BY AllIs, DetectionBoxed
<1>2. r \in SamplesOf("detection") /\ i \in Int
  BY <1>1, AllIs, DetectionBoxed
<1>3. x \in Hits("detection", rs, cls, thr) <=> \E m \in Match("detection", r, cls, thr) : m[1] = p
  <2> DEFINE Q(y) == \E m \in Match("detection", rs[y[1]], cls, thr) : m[1] = y[2]
  <2>1. Hits("detection", rs, cls, thr) = {y \in all : Q(y)}
    BY DEF Hits
  <2> HIDE DEF Q, all
  <2>2. x \in Hits("detection", rs, cls, thr) <=> Q(x)
    BY <2>1 DEF all
  <2> QED BY <2>2 DEF Q
<1>4. x \in Hits("detection", rs, cls, thr) <=> First
  <2>1. r \in SamplesOf("detection") /\ p \in PredsOf("detection", r, cls)
    BY <1>1, <1>2
  <2> HIDE DEF r, p
  <2>2. (\E m \in Match("detection", r, cls, thr) : m[1] = p) <=> First
    BY <2>1, HitIs
  <2> HIDE DEF First
  <2> QED BY <1>3, <2>2
<1>5. \A q \in preds : <<i, q>> \in all
  BY <1>1, AllIs, DetectionBoxed
<1>6. ASSUME NEW y \in all, y[1] = i PROVE y = <<i, y[2]>> /\ y[2] \in preds
  BY <1>6, AllIs, DetectionBoxed
<1>7. ASSUME NEW q \in preds
      PROVE  /\ Finds(rs, <<i, q>>, cls, thr) <=> Goal(r, cls, thr, q) # {}
             /\ Finds(rs, <<i, q>>, cls, thr)
                   => Goal(r, cls, thr, q) = {Target(rs, <<i, q>>, cls)}
  BY <1>1, GoalIs
<1>8. ASSUME NEW q \in preds
      PROVE  <<q, p>> \in ByScore(ScoresOf(r.preds))
                <=> <<i, q>> # <<i, p>> /\ Before(rs, <<i, q>>, <<i, p>>)
  <2>1. /\ q \in DOMAIN r.preds /\ p \in DOMAIN r.preds /\ DOMAIN r.preds = 1..Len(r.preds)
        /\ Len(r.preds) \in Nat
    BY <1>1, <1>2, SampleParts, DetectionBoxed
  <2>2. q \in Int /\ p \in Int /\ r.preds[q].score \in Int /\ r.preds[p].score \in Int
    <3>1. preds \subseteq DOMAIN r.preds /\ \A d \in DOMAIN r.preds : r.preds[d].score \in Int
      BY <1>2, SampleParts, DetectionBoxed
    <3> HIDE DEF r, p
    <3> QED BY <2>1, <3>1
  <2>3. <<q, p>> \in ByScore(ScoresOf(r.preds)) <=>
           \/ r.preds[q].score > r.preds[p].score
           \/ r.preds[q].score = r.preds[p].score /\ q < p
    BY <2>1 DEF ByScore, ScoresOf
  <2>4. Before(rs, <<i, q>>, <<i, p>>) <=>
           \/ r.preds[q].score > r.preds[p].score
           \/ r.preds[q].score = r.preds[p].score /\ (i < i \/ (i = i /\ q <= p))
    BY DEF Before, ScoreOf
  <2>5. <<i, q>> # <<i, p>> <=> q # p
    OBVIOUS
  <2> HIDE DEF r, i, p
  <2> QED BY <1>2, <2>2, <2>3, <2>4, <2>5
<1>9. FindsFirst(rs, all, x, cls, thr) <=>
         /\ Finds(rs, x, cls, thr)
         /\ \A y \in all : y # x /\ y[1] = x[1] /\ Before(rs, y, x) /\ Finds(rs, y, cls, thr)
                              => Target(rs, y, cls) # Target(rs, x, cls)
  BY DEF FindsFirst
<1> HIDE DEF all, i, p, r, preds
<1>10. ASSUME First PROVE FindsFirst(rs, all, x, cls, thr)
  <2>1. PICK g \in Goal(r, cls, thr, p) : \A q \in preds :
           <<q, p>> \in ByScore(ScoresOf(r.preds)) => g \notin Goal(r, cls, thr, q)
    BY <1>10
  <2>2. Finds(rs, x, cls, thr) /\ Target(rs, x, cls) = g
    BY <1>1, <1>7, <2>1
  <2>3. ASSUME NEW y \in all, y # x, y[1] = x[1], Before(rs, y, x), Finds(rs, y, cls, thr)
        PROVE  Target(rs, y, cls) # Target(rs, x, cls)
    <3>1. y[1] = i
      BY <2>3 DEF i
    <3>2. y = <<i, y[2]>> /\ y[2] \in preds
      BY <1>6, <3>1
    <3>3. PICK q \in preds : y = <<i, q>>
      BY <3>2
    <3>4. <<q, p>> \in ByScore(ScoresOf(r.preds))
      BY <1>1, <1>8, <2>3, <3>3
    <3>5. g \notin Goal(r, cls, thr, q)
      BY <2>1, <3>4
    <3>6. Goal(r, cls, thr, q) = {Target(rs, y, cls)}
      BY <1>7, <2>3, <3>3
    <3> QED BY <2>2, <3>5, <3>6
  <2> QED BY <1>9, <2>2, <2>3
<1>11. ASSUME FindsFirst(rs, all, x, cls, thr) PROVE First
  <2>1. /\ Finds(rs, x, cls, thr)
        /\ \A y \in all : y # x /\ y[1] = x[1] /\ Before(rs, y, x) /\ Finds(rs, y, cls, thr)
                             => Target(rs, y, cls) # Target(rs, x, cls)
    BY <1>9, <1>11
  <2> DEFINE g == Target(rs, x, cls)
  <2>2. Goal(r, cls, thr, p) = {g}
    BY <1>1, <1>7, <2>1
  <2>3. ASSUME NEW q \in preds, <<q, p>> \in ByScore(ScoresOf(r.preds)), g \in Goal(r, cls, thr, q)
        PROVE  FALSE
    <3>1. PICK y \in all : y = <<i, q>>
      BY <1>5
    <3>2. y # x /\ Before(rs, y, x)
      BY <1>1, <1>8, <2>3, <3>1
    <3>3. y[1] = x[1]
      BY <3>1 DEF i
    <3>4. Finds(rs, y, cls, thr) /\ Goal(r, cls, thr, q) = {Target(rs, y, cls)}
      BY <1>7, <2>3, <3>1
    <3>5. Target(rs, y, cls) # g
      BY <2>1, <3>2, <3>3, <3>4
    <3> QED BY <2>3, <3>4, <3>5
  <2> HIDE DEF g
  <2> QED BY <2>2, <2>3
<1> QED BY <1>4, <1>10, <1>11 DEF all

(* Precision at a cut of the ranking, counted from its definition. *)
LEMMA PrecisionIs ==
    ASSUME NEW rs \in Seq(SamplesOf("detection")), NEW cls, NEW thr \in Int,
           NEW j \in 1..CountOf("detection", rs, cls)
    PROVE  Precision(rs, AllPreds("detection", rs, cls),
                     RankingOf("detection", rs, cls)[j], cls, thr)
              = <<HitsTo("detection", rs, cls, thr)[j], j>>
<1> DEFINE all == AllPreds("detection", rs, cls)
           n == CountOf("detection", rs, cls)
           order == RankingOf("detection", rs, cls)
           hits == Hits("detection", rs, cls, thr)
           tp == HitsTo("detection", rs, cls, thr)
           above == {x \in all : Before(rs, x, order[j])}
           first == {x \in above : FindsFirst(rs, all, x, cls, thr)}
           At == HitsAt(order, hits, j)
<1>1. /\ n \in Nat /\ order \in [1..n -> all]
      /\ \A k, l \in 1..n : k < l <=> <<order[k], order[l]>> \in Overall(rs, all)
      /\ \A k, l \in 1..n : order[k] = order[l] => k = l
      /\ \A x \in all : \E k \in 1..n : order[k] = x
  BY RankingIs, DetectionBoxed DEF Ranking, CountOf
<1>2. Precision(rs, all, order[j], cls, thr) = <<Cardinality(first), Cardinality(above)>>
  BY DEF Precision
<1>3. tp[j] = Cardinality(At)
  <2>1. j \in 0..n
    BY <1>1
  <2> QED BY <2>1 DEF HitsTo, Tp
<1>4. \A x \in all : x \in hits <=> FindsFirst(rs, all, x, cls, thr)
  BY HitsAreFirst
<1>5. ASSUME NEW x \in all, NEW y \in all
      PROVE  Before(rs, x, y) <=> x = y \/ <<x, y>> \in Overall(rs, all)
  <2>1. /\ x = <<x[1], x[2]>> /\ x[1] \in DOMAIN rs /\ x[2] \in PredsOf("detection", rs[x[1]], cls)
        /\ y = <<y[1], y[2]>> /\ y[1] \in DOMAIN rs /\ y[2] \in PredsOf("detection", rs[y[1]], cls)
    BY AllIs, DetectionBoxed
  <2>2. /\ x[1] \in Int /\ rs[x[1]] \in SamplesOf("detection")
        /\ y[1] \in Int /\ rs[y[1]] \in SamplesOf("detection")
    BY <2>1, AllIs, DetectionBoxed
  <2>3. x[2] \in DOMAIN rs[x[1]].preds /\ y[2] \in DOMAIN rs[y[1]].preds
    BY <2>1, <2>2, SampleParts, DetectionBoxed
  <2>4. /\ DOMAIN rs[x[1]].preds = 1..Len(rs[x[1]].preds)
        /\ DOMAIN rs[y[1]].preds = 1..Len(rs[y[1]].preds)
        /\ PredsOf("detection", rs[x[1]], cls) \subseteq DOMAIN rs[x[1]].preds
        /\ PredsOf("detection", rs[y[1]], cls) \subseteq DOMAIN rs[y[1]].preds
    BY <2>2, SampleParts, DetectionBoxed
  <2>5. x[2] \in Int /\ y[2] \in Int
    BY <2>2, <2>3, <2>4
  <2>6. ScoreOf(rs, x) \in Int /\ ScoreOf(rs, y) \in Int
    BY <2>2, <2>3, SampleParts, DetectionBoxed DEF ScoreOf
  <2>7. x = y <=> x[1] = y[1] /\ x[2] = y[2]
    BY <2>1
  <2>8. <<x, y>> \in Overall(rs, all) <=>
           \/ ScoreOf(rs, x) > ScoreOf(rs, y)
           \/ /\ ScoreOf(rs, x) = ScoreOf(rs, y)
              /\ x[1] < y[1] \/ (x[1] = y[1] /\ x[2] < y[2])
    BY DEF Overall, ScoreOf
  <2>9. Before(rs, x, y) <=>
           \/ ScoreOf(rs, x) > ScoreOf(rs, y)
           \/ /\ ScoreOf(rs, x) = ScoreOf(rs, y)
              /\ x[1] < y[1] \/ (x[1] = y[1] /\ x[2] <= y[2])
    BY DEF Before
  <2>10. x = y => ScoreOf(rs, x) = ScoreOf(rs, y)
    OBVIOUS
  <2> QED BY <2>2, <2>5, <2>6, <2>7, <2>8, <2>9, <2>10
<1>0. j \in 1..n
  OBVIOUS
<1> HIDE DEF all, n, order, hits, tp
<1>6. \A k \in 1..j : k \in 1..n /\ order[k] \in all
  BY <1>0, <1>1
<1>7. order[j] \in all
  BY <1>0, <1>1
<1>8. ASSUME NEW k \in 1..n PROVE order[k] \in above <=> k \in 1..j
  <2>1. order[k] \in all
    BY <1>1
  <2>2. order[k] \in above <=> order[k] = order[j] \/ <<order[k], order[j]>> \in Overall(rs, all)
    BY <1>5, <1>7, <2>1
  <2>3. j \in 1..n
    BY <1>0
  <2>4. order[k] = order[j] <=> k = j
    BY <1>1, <2>3
  <2>5. <<order[k], order[j]>> \in Overall(rs, all) <=> k < j
    BY <1>1, <2>3
  <2> QED BY <1>1, <2>2, <2>3, <2>4, <2>5
<1> HIDE DEF above
<1>9. above \subseteq all /\ first \subseteq above
  BY DEF above
<1>a. j \in Nat /\ IsFiniteSet(1..j) /\ Cardinality(1..j) = j
  <2>1. j \in Nat
    BY <1>0, <1>1
  <2> QED BY <2>1, FS_Interval
<1>10. Cardinality(above) = j
  <2> DEFINE f == [k \in 1..j |-> order[k]]
  <2>1. /\ f \in [1..j -> above]
        /\ \A k, l \in 1..j : f[k] = f[l] => k = l
        /\ \A x \in above : \E k \in 1..j : f[k] = x
    <3>1. \A k \in 1..j : f[k] \in above
      BY <1>6, <1>8
    <3>2. \A k, l \in 1..j : f[k] = f[l] => k = l
      BY <1>1, <1>6
    <3>3. \A x \in above : \E k \in 1..j : f[k] = x
      BY <1>1, <1>8, <1>9
    <3>4. f \in [1..j -> above]
      BY <3>1
    <3> QED BY <3>2, <3>3, <3>4
  <2> HIDE DEF f
  <2>2. Cardinality(above) = Cardinality(1..j)
    BY <1>a, <2>1, PairedOff
  <2> QED BY <1>a, <2>2
<1>11. Cardinality(first) = Cardinality(At)
  <2> DEFINE f == [k \in At |-> order[k]]
  <2>0. \A k \in At : k \in 1..j /\ k \in 1..n /\ order[k] \in hits /\ order[k] \in all
    BY <1>6 DEF HitsAt
  <2>1. /\ f \in [At -> first]
        /\ \A k, l \in At : f[k] = f[l] => k = l
        /\ \A x \in first : \E k \in At : f[k] = x
    <3>1. \A k \in At : order[k] \in above /\ FindsFirst(rs, all, order[k], cls, thr)
      BY <1>4, <1>8, <2>0
    <3>2. \A k, l \in At : f[k] = f[l] => k = l
      BY <1>1, <2>0
    <3>3. ASSUME NEW x \in first PROVE \E k \in At : f[k] = x
      <4>1. x \in above /\ x \in all /\ x \in hits
        BY <1>4, <1>9
      <4>2. PICK k \in 1..n : order[k] = x
        BY <1>1, <4>1
      <4>3. k \in At
        BY <1>8, <4>1, <4>2 DEF HitsAt
      <4> QED BY <4>2, <4>3
    <3>4. f \in [At -> first]
      BY <3>1
    <3> HIDE DEF f, At, first
    <3> QED BY <3>2, <3>3, <3>4
  <2>2. IsFiniteSet(At)
    BY <1>a, HitsAtFinite
  <2> HIDE DEF f, At, first
  <2> QED BY <2>1, <2>2, PairedOff
<1> QED BY <1>2, <1>3, <1>10, <1>11 DEF all, order, tp

(* No sum, no area. *)
LEMMA SumOfNone ==
    ASSUME NEW n \in Nat, NEW F \in [1..n -> Int], \A k \in 1..n : F[k] = 0
    PROVE  SumFunction(F) = 0
<1>1. IsFiniteSet(1..n) /\ Cardinality(1..n) = n
  BY FS_Interval
<1>2. \A k \in 1..n : F[k] \in 0..0
  OBVIOUS
<1>3. SumFunction(F) \in 0..(0 * Cardinality(1..n))
  BY <1>1, <1>2, SumBounded
<1> QED BY <1>1, <1>3

(* A class is scored by its average precision. *)
LEMMA ClassApIsAp ==
    ASSUME NEW rs \in Seq(SamplesOf("detection")), NEW cls, NEW thr \in Int
    PROVE  ClassAp("detection", rs, cls, thr) = ApOf(rs, cls, thr)
<1> DEFINE all == AllPreds("detection", rs, cls)
           n == CountOf("detection", rs, cls)
           order == RankingOf("detection", rs, cls)
           tp == HitsTo("detection", rs, cls, thr)
           total == TotalOf("detection", rs, cls)
           numGt == Cardinality(AllGts("detection", rs, cls))
           cuts == {Precision(rs, all, x, cls, thr) : x \in all}
           ratios(k) == {Ratio(c[1], c[2]) : c \in {d \in cuts : d[1] >= k}}
           best(k) == Max({0} \union ratios(k))
<1>1. /\ total \in Nat \ {0} /\ n \in Nat /\ numGt \in Nat
      /\ total = IF numGt = 0 THEN 1 ELSE numGt
      /\ Counts(tp, n, total)
  BY HitsToCounts, DetectionBoxed
<1>2. /\ order \in [1..n -> all]
      /\ \A x \in all : \E k \in 1..n : order[k] = x
  BY RankingIs, DetectionBoxed DEF Ranking, CountOf
<1>3. ClassAp("detection", rs, cls, thr) = IF n = 0 THEN 0
         ELSE SumFunction(BestFor("detection", rs, cls, thr)) \div total
  BY ClassApIs, DetectionBoxed
<1>4. BestFor("detection", rs, cls, thr) = [m \in 1..total |-> Best(tp, n, m)]
  BY DEF BestFor
<1>5. ApOf(rs, cls, thr) = IF numGt = 0 THEN 0
         ELSE SumFunction([k \in 1..numGt |-> best(k)]) \div numGt
  BY DEF ApOf
<1>6. \A j \in 1..n : Precision(rs, all, order[j], cls, thr) = <<tp[j], j>>
  BY PrecisionIs
<1>a. Cardinality(HitsAt(order, Hits("detection", rs, cls, thr), n)) = tp[n]
  BY <1>1 DEF HitsTo, Tp
<1>b. tp[n] <= numGt
  <2>1. n \in 0..Cardinality(AllPreds("detection", rs, cls))
    BY <1>1 DEF CountOf
  <2> QED BY <1>a, <2>1, HitsHaveAnnotations, DetectionBoxed
<1> HIDE DEF all, n, order, tp, total, numGt
<1>7. cuts = {<<tp[j], j>> : j \in 1..n}
  BY <1>2, <1>6
<1> HIDE DEF cuts
<1>8. \A k : ratios(k) = Cuts(tp, n, k)
  <2> SUFFICES ASSUME NEW k PROVE ratios(k) = Cuts(tp, n, k)
    OBVIOUS
  <2>1. ASSUME NEW v \in ratios(k) PROVE v \in Cuts(tp, n, k)
    <3>1. PICK c \in cuts : c[1] >= k /\ v = Ratio(c[1], c[2])
      OBVIOUS
    <3>2. PICK j \in 1..n : c = <<tp[j], j>>
      BY <1>7
    <3>3. tp[j] >= k /\ v = Ratio(tp[j], j)
      BY <3>1, <3>2
    <3> QED BY <3>3 DEF Cuts
  <2>2. ASSUME NEW v \in Cuts(tp, n, k) PROVE v \in ratios(k)
    <3>1. PICK j \in 1..n : tp[j] >= k /\ v = Ratio(tp[j], j)
      BY DEF Cuts
    <3>2. PICK c \in cuts : c = <<tp[j], j>>
      BY <1>7
    <3>3. c[1] >= k /\ v = Ratio(c[1], c[2])
      BY <3>1, <3>2
    <3> QED BY <3>3
  <2> HIDE DEF ratios
  <2> QED BY <2>1, <2>2
<1>9. \A k : best(k) = Best(tp, n, k)
  <2> HIDE DEF ratios
  <2> QED BY <1>8 DEF Best
<1> HIDE DEF best
<1>10. \A m \in 1..total : Best(tp, n, m) \in Int /\ Best(tp, n, m) \in {0} \union Cuts(tp, n, m)
  <2> SUFFICES ASSUME NEW m \in 1..total
               PROVE  Best(tp, n, m) \in Int /\ Best(tp, n, m) \in {0} \union Cuts(tp, n, m)
    OBVIOUS
  <2>1. m \in Nat
    BY <1>1
  <2>2. Best(tp, n, m) \in {0} \union Cuts(tp, n, m) /\ Best(tp, n, m) \in 0..Unit
    BY <1>1, <2>1, BestIsRatio
  <2> QED BY <2>2, ScoringAssumption
<1>11. [m \in 1..total |-> Best(tp, n, m)] \in [1..total -> Int]
  BY <1>10
<1>12. ASSUME n = 0 \/ numGt = 0
       PROVE  SumFunction([m \in 1..total |-> Best(tp, n, m)]) = 0
  <2>1. ASSUME NEW m \in 1..total PROVE Best(tp, n, m) = 0
    <3>1. ASSUME NEW i \in 1..n PROVE ~(tp[i] >= m)
      <4>1. i \in 0..n /\ n \in 0..n /\ numGt = 0
        BY <1>1, <1>12
      <4>2. tp[i] \in Nat /\ tp[n] \in Nat /\ tp[i] <= tp[n]
        BY <1>1, <4>1 DEF Counts
      <4> QED BY <1>1, <1>b, <4>1, <4>2
    <3>2. Cuts(tp, n, m) = {}
      BY <3>1 DEF Cuts
    <3> QED BY <1>10, <3>2
  <2> DEFINE F == [m \in 1..total |-> Best(tp, n, m)]
  <2>2. F \in [1..total -> Int] /\ \A k \in 1..total : F[k] = 0
    BY <1>11, <2>1
  <2> HIDE DEF F
  <2>3. SumFunction(F) = 0
    BY <1>1, <2>2, SumOfNone
  <2> QED BY <2>3 DEF F
<1>13. 0 \div total = 0
  <2> DEFINE q == 0 \div total
  <2>1. q \in 0..0
    <3>1. 0 \in Nat /\ 0 \in 0..(0 * total)
      BY <1>1
    <3> QED BY <1>1, <3>1, DivBounded
  <2> QED BY <2>1
<1>14. CASE numGt = 0
  <2>1. ClassAp("detection", rs, cls, thr) = 0
    BY <1>3, <1>4, <1>12, <1>13, <1>14
  <2> QED BY <1>5, <1>14, <2>1
<1>15. CASE numGt # 0
  <2>1. total = numGt
    BY <1>1, <1>15
  <2>2. [k \in 1..numGt |-> best(k)] = [m \in 1..total |-> Best(tp, n, m)]
    BY <1>9, <2>1
  <2>3. ApOf(rs, cls, thr) = SumFunction([m \in 1..total |-> Best(tp, n, m)]) \div total
    BY <1>5, <1>15, <2>1, <2>2
  <2> QED BY <1>3, <1>4, <1>12, <1>13, <2>3
<1> QED BY <1>14, <1>15

(* What is computed so is the average precision. *)
LEMMA IInvSound == IInv => ApSound
<1> SUFFICES ASSUME IInv, Scored({"detection"}), NEW i \in 1..10
             PROVE  verdict.ap[i] = IF ClassesOf("detection", records) = {} THEN 0
                       ELSE SumFunction([c \in ClassesOf("detection", records) |->
                                            ApOf(records, c, Thresholds[i])])
                               \div Cardinality(ClassesOf("detection", records))
  BY DEF ApSound
<1> DEFINE classes == ClassesOf("detection", records)
           thr == Thresholds[i]
<1>1. model.task = "detection" /\ verdict.available
  BY DEF Scored
<1>2. verdict.ap[i] = MeanAp("detection", records, thr)
  BY <1>1, DetectionBoxed DEF IInv, Judged
<1>3. records \in Seq(SamplesOf("detection"))
  BY <1>1 DEF IInv, Kept
<1>4. thr \in Int
  BY DEF Thresholds
<1>5. MeanAp("detection", records, thr) = IF classes = {} THEN 0
         ELSE SumFunction([c \in classes |-> ClassAp("detection", records, c, thr)])
                 \div Cardinality(classes)
  BY DEF MeanAp
<1> HIDE DEF thr, classes
<1>6. \A c \in classes : ClassAp("detection", records, c, thr) = ApOf(records, c, thr)
  BY <1>3, <1>4, ClassApIsAp
<1>7. [c \in classes |-> ClassAp("detection", records, c, thr)]
         = [c \in classes |-> ApOf(records, c, thr)]
  BY <1>6
<1> QED BY <1>2, <1>5, <1>7 DEF classes, thr

(* The mAP of a detection that evaluate() returns is the mean, over the     *)
(* classes seen, of the average precision by its definition, for every      *)
(* dataset: greedy matching finds what the first prediction that goes for   *)
(* an annotation finds, and compute_ap's area under the enveloped curve is  *)
(* the sum of the best precisions at every recall.                          *)
THEOREM ApIsSound == Spec => []ApSound
  BY Inductive, IInvSound, PTL
=============================================================================
