------------------------------ MODULE SetLemmas ------------------------------
(***************************************************************************)
(* Facts about finite sets that the proofs of several components rest on:  *)
(* sets of numbers have a least and a greatest element, and the sum of a   *)
(* function over a set takes its terms in any order.                       *)
(***************************************************************************)
EXTENDS Integers, FiniteSets, FiniteSetsExt, Functions, FiniteSetTheorems, TLAPS

LEMMA LeastNatural ==
  ASSUME NEW T \in SUBSET Nat, T # {}
  PROVE  \E x \in T : \A y \in T : x <= y
<1>1. \E x \in T : \A y \in T : ~(<<y, x>> \in OpToRel(<, Nat))
  BY NatLessThanWellFounded, WFMin
<1>2. \A x, y \in T : <<y, x>> \notin OpToRel(<, Nat) => x <= y
  BY DEF OpToRel
<1> QED
  BY <1>1, <1>2

LEMMA GreatestNatural ==
  ASSUME NEW T \in SUBSET Nat, T # {}, NEW n \in Nat, \A x \in T : x <= n
  PROVE  /\ \E x \in T : \A y \in T : y <= x
         /\ Max(T) \in T /\ \A y \in T : y <= Max(T)
<1> DEFINE U == {n - x : x \in T}
<1>1. \A x \in T : n - x \in Nat /\ n - x \in U
  OBVIOUS
<1> HIDE DEF U
<1>a. U \in SUBSET Nat /\ U # {}
  BY <1>1 DEF U
<1>2. PICK u \in U : \A v \in U : u <= v
  BY <1>a, LeastNatural
<1>3. PICK x \in T : u = n - x
  BY <1>2 DEF U
<1>4. \A y \in T : y <= x
  BY <1>1, <1>2, <1>3
<1> QED
  BY <1>4 DEF Max

\* Finitely many terms of a function.
LEMMA FiniteImage ==
  ASSUME NEW S, IsFiniteSet(S), NEW f, NEW T, T = {f[x] : x \in S}
  PROVE  IsFiniteSet(T)
<1> DEFINE g == [x \in S |-> f[x]]
<1>1. g \in Surjection(S, T)
  BY DEF Surjection
<1> QED
  BY <1>1, FS_Surjection

\* Induction over finite sets: what fails somewhere fails for a smallest set.
LEMMA SmallestSet ==
  ASSUME NEW S, IsFiniteSet(S), NEW T \in SUBSET SUBSET S, T # {}
  PROVE  \E U \in T : IsFiniteSet(U) /\ \A x \in U : U \ {x} \notin T
<1> DEFINE sizes == {Cardinality(U) : U \in T}
<1>1. \A U \in T : IsFiniteSet(U) /\ Cardinality(U) \in Nat /\ Cardinality(U) \in sizes
  BY FS_Subset, FS_CardinalityType
<1>2. sizes \in SUBSET Nat /\ sizes # {}
  BY <1>1
<1>3. PICK n \in sizes : \A k \in sizes : n <= k
  BY <1>2, LeastNatural
<1>4. PICK U \in T : n = Cardinality(U)
  BY <1>3
<1>5. ASSUME NEW x \in U, U \ {x} \in T PROVE FALSE
  <2>1. Cardinality(U \ {x}) = Cardinality(U) - 1
    BY <1>1, <1>4, <1>5, FS_RemoveElement
  <2>2. Cardinality(U \ {x}) \in sizes
    BY <1>1, <1>5
  <2> HIDE DEF sizes
  <2> QED BY <1>1, <1>3, <1>4, <2>1, <2>2
<1> QED
  BY <1>1, <1>4, <1>5

-----------------------------------------------------------------------------
(* Sums: SumFunctionOnSet, as the community modules define it *)

Pick(s) == CHOOSE x \in s : TRUE
\* The function the fold over S picks.
IsSum(f, S, it) == it = [s \in SUBSET S |-> IF s = {} THEN 0 ELSE f[Pick(s)] + it[s \ {Pick(s)}]]

LEMMA PickIn == ASSUME NEW s, s # {} PROVE Pick(s) \in s
BY DEF Pick

LEMMA SumUnfold ==
  ASSUME NEW f, NEW S, \E it : IsSum(f, S, it)
  PROVE  \E it : IsSum(f, S, it) /\ SumFunctionOnSet(f, S) = it[S]
<1>1. PICK it : it = (CHOOSE j : IsSum(f, S, j))
  OBVIOUS
<1>2. IsSum(f, S, it)
  BY <1>1
<1>3. SumFunctionOnSet(f, S) = (CHOOSE j : IsSum(f, S, j))[S]
  BY DEF SumFunctionOnSet, FoldFunctionOnSet, MapThenFoldSet, IsSum, Pick
<1> QED
  BY <1>1, <1>2, <1>3

LEMMA SumExists ==
  ASSUME NEW S, IsFiniteSet(S), NEW f
  PROVE  \E it : IsSum(f, S, it)
<1> DEFINE small(n) == {s \in SUBSET S : Cardinality(s) <= n}
           value(g, s) == IF s = {} THEN 0 ELSE f[Pick(s)] + g[s \ {Pick(s)}]
           good(n) == \E g : g = [s \in small(n) |-> value(g, s)]
           bad == {n \in Nat : ~good(n)}
<1>1. \A s \in SUBSET S : IsFiniteSet(s) /\ Cardinality(s) \in Nat
                          /\ Cardinality(s) <= Cardinality(S)
  BY FS_Subset, FS_CardinalityType
<1>2. \A s \in SUBSET S : s # {} => /\ Pick(s) \in s /\ s \ {Pick(s)} \in SUBSET S
                                    /\ Cardinality(s \ {Pick(s)}) = Cardinality(s) - 1
  BY <1>1, PickIn, FS_RemoveElement
<1>3. ASSUME NEW n \in Nat, n = 0 \/ good(n - 1) PROVE good(n)
  <2> DEFINE g0 == IF n = 0 THEN <<>> ELSE CHOOSE g : g = [s \in small(n - 1) |-> value(g, s)]
             h == [s \in small(n) |-> value(g0, s)]
  <2>1. n # 0 => g0 = [s \in small(n - 1) |-> value(g0, s)]
    BY <1>3
  <2>2. ASSUME NEW s \in small(n), s # {} PROVE n # 0 /\ s \ {Pick(s)} \in small(n - 1)
    BY <1>1, <1>2, <2>2
  <2>3. ASSUME NEW s \in small(n) PROVE value(h, s) = value(g0, s)
    <3>1. CASE s = {}
      BY <3>1
    <3>2. CASE s # {}
      <4> DEFINE t == s \ {Pick(s)}
      <4>1. n # 0 /\ t \in small(n - 1) /\ t \in small(n)
        BY <1>1, <2>2, <3>2
      <4>2. g0[t] = value(g0, t)
        <5> HIDE DEF g0, value, small
        <5> QED BY <2>1, <4>1
      <4>3. h[t] = value(g0, t)
        <5> HIDE DEF value, small
        <5> QED BY <4>1
      <4> HIDE DEF h, g0, small
      <4> QED BY <3>2, <4>2, <4>3
    <3> QED BY <3>1, <3>2
  <2>4. h = [s \in small(n) |-> value(h, s)]
    <3>1. h = [s \in small(n) |-> value(g0, s)]
      OBVIOUS
    <3> HIDE DEF h, value, small, g0
    <3> QED BY <2>3, <3>1
  <2> HIDE DEF h
  <2> QED BY <2>4
<1>4. bad = {}
  <2> SUFFICES ASSUME bad # {} PROVE FALSE
    OBVIOUS
  <2> HIDE DEF good
  <2>1. PICK n \in bad : \A k \in bad : n <= k
    BY LeastNatural
  <2>2. n = 0 \/ good(n - 1)
    BY <2>1
  <2> QED BY <1>3, <2>1, <2>2
<1>5. Cardinality(S) \in Nat /\ small(Cardinality(S)) = SUBSET S
  BY <1>1, FS_CardinalityType
<1>6. good(Cardinality(S))
  <2> HIDE DEF good
  <2> QED BY <1>4, <1>5
<1> QED
  BY <1>5, <1>6 DEF IsSum

\* The folds over two sets agree on what the sets share, if the functions do.
LEMMA SumUnique ==
  ASSUME NEW S, IsFiniteSet(S), NEW T, NEW f, NEW g, NEW it, NEW jt,
         IsSum(f, S, it), IsSum(g, T, jt), NEW V \in SUBSET S, V \in SUBSET T,
         \A x \in V : f[x] = g[x]
  PROVE  it[V] = jt[V]
<1> DEFINE bad == {s \in SUBSET V : it[s] # jt[s]}
<1>1. IsFiniteSet(V)
  BY FS_Subset
<1>2. bad = {}
  <2> SUFFICES ASSUME bad # {} PROVE FALSE
    OBVIOUS
  <2>1. PICK s \in bad : \A x \in s : s \ {x} \notin bad
    BY <1>1, SmallestSet
  <2>2. s \in SUBSET V /\ s \in SUBSET S /\ s \in SUBSET T /\ it[s] # jt[s]
    BY <2>1
  <2>3. /\ it[s] = IF s = {} THEN 0 ELSE f[Pick(s)] + it[s \ {Pick(s)}]
        /\ jt[s] = IF s = {} THEN 0 ELSE g[Pick(s)] + jt[s \ {Pick(s)}]
    BY <2>2 DEF IsSum
  <2>4. s # {}
    BY <2>2, <2>3
  <2>5. Pick(s) \in s /\ s \ {Pick(s)} \in SUBSET V
    BY <2>2, <2>4, PickIn
  <2>6. it[s \ {Pick(s)}] = jt[s \ {Pick(s)}]
    BY <2>1, <2>5
  <2> QED BY <2>2, <2>3, <2>5, <2>6
<1> QED
  BY <1>2

LEMMA SumType ==
  ASSUME NEW S, IsFiniteSet(S), NEW f, \A x \in S : f[x] \in Int, NEW it, IsSum(f, S, it)
  PROVE  \A s \in SUBSET S : it[s] \in Int
<1> DEFINE bad == {s \in SUBSET S : it[s] \notin Int}
<1>1. bad = {}
  <2> SUFFICES ASSUME bad # {} PROVE FALSE
    OBVIOUS
  <2>1. PICK s \in bad : \A x \in s : s \ {x} \notin bad
    BY SmallestSet
  <2>2. s \in SUBSET S /\ it[s] \notin Int
    BY <2>1
  <2>3. it[s] = IF s = {} THEN 0 ELSE f[Pick(s)] + it[s \ {Pick(s)}]
    BY <2>2 DEF IsSum
  <2>4. s # {}
    BY <2>2, <2>3
  <2>5. Pick(s) \in s /\ s \ {Pick(s)} \in SUBSET S /\ Pick(s) \in S
    BY <2>2, <2>4, PickIn
  <2>6. it[s \ {Pick(s)}] \in Int
    BY <2>1, <2>5
  <2> QED BY <2>2, <2>3, <2>4, <2>5, <2>6
<1> QED
  BY <1>1

\* The order in which the fold picks does not matter.
LEMMA SumAnyOrder ==
  ASSUME NEW S, IsFiniteSet(S), NEW f, \A x \in S : f[x] \in Int, NEW it, IsSum(f, S, it),
         NEW z \in S
  PROVE  it[S] = f[z] + it[S \ {z}] /\ it[S] \in Int /\ it[S \ {z}] \in Int
<1> DEFINE bad == {s \in SUBSET S : \E y \in s : it[s] # f[y] + it[s \ {y}]}
<1>1. bad = {}
  <2> SUFFICES ASSUME bad # {} PROVE FALSE
    OBVIOUS
  <2>1. PICK s \in bad : \A x \in s : s \ {x} \notin bad
    BY SmallestSet
  <2>2. PICK y \in s : s \in SUBSET S /\ it[s] # f[y] + it[s \ {y}]
    BY <2>1
  <2> DEFINE x == Pick(s)
  <2>3. x \in s
    BY PickIn
  <2>4. it[s] = f[x] + it[s \ {x}]
    BY <2>2 DEF IsSum
  <2> HIDE DEF x
  <2>5. y # x /\ y \in s \ {x} /\ x \in s \ {y}
    BY <2>2, <2>3, <2>4
  <2>6. it[s \ {x}] = f[y] + it[(s \ {x}) \ {y}]
    BY <2>1, <2>2, <2>3, <2>5
  <2>7. it[s \ {y}] = f[x] + it[(s \ {y}) \ {x}]
    BY <2>1, <2>2, <2>3, <2>5
  <2>8. (s \ {x}) \ {y} = (s \ {y}) \ {x}
    OBVIOUS
  <2>9. f[x] \in Int /\ f[y] \in Int /\ it[(s \ {x}) \ {y}] \in Int
    <3>1. (s \ {x}) \ {y} \in SUBSET S /\ x \in S /\ y \in S
      BY <2>2, <2>3
    <3> QED BY <3>1, SumType
  <2>10. PICK a \in Int, b \in Int, c \in Int :
           a = f[x] /\ b = f[y] /\ c = it[(s \ {x}) \ {y}]
    BY <2>9
  <2>11. it[s] = a + (b + c) /\ it[s \ {y}] = a + c
    BY <2>4, <2>6, <2>7, <2>8, <2>10
  <2>12. it[s] = b + it[s \ {y}]
    BY <2>11
  <2> QED BY <2>2, <2>10, <2>12
<1>2. S \in SUBSET S /\ S \ {z} \in SUBSET S
  OBVIOUS
<1>3. it[S] \in Int /\ it[S \ {z}] \in Int
  BY <1>2, SumType
<1>4. it[S] = f[z] + it[S \ {z}]
  BY <1>1, <1>2
<1> QED
  BY <1>3, <1>4

LEMMA SumEmpty == ASSUME NEW f PROVE SumFunctionOnSet(f, {}) = 0
<1>1. PICK it : IsSum(f, {}, it) /\ SumFunctionOnSet(f, {}) = it[{}]
  BY SumExists, SumUnfold, FS_EmptySet
<1> QED
  BY <1>1 DEF IsSum

\* Equal terms, equal sums.
LEMMA SumSame ==
  ASSUME NEW S, IsFiniteSet(S), NEW f, NEW g, \A x \in S : f[x] = g[x]
  PROVE  SumFunctionOnSet(f, S) = SumFunctionOnSet(g, S)
<1>1. PICK it : IsSum(f, S, it) /\ SumFunctionOnSet(f, S) = it[S]
  BY SumExists, SumUnfold
<1>2. PICK jt : IsSum(g, S, jt) /\ SumFunctionOnSet(g, S) = jt[S]
  BY SumExists, SumUnfold
<1> QED
  BY <1>1, <1>2, SumUnique

\* A sum is one of its terms plus the sum of the others.
LEMMA SumRemove ==
  ASSUME NEW S, IsFiniteSet(S), NEW f, \A x \in S : f[x] \in Int, NEW y \in S
  PROVE  /\ SumFunctionOnSet(f, S) = f[y] + SumFunctionOnSet(f, S \ {y})
         /\ SumFunctionOnSet(f, S) \in Int /\ SumFunctionOnSet(f, S \ {y}) \in Int
<1>1. PICK it : IsSum(f, S, it) /\ SumFunctionOnSet(f, S) = it[S]
  BY SumExists, SumUnfold
<1>2. IsFiniteSet(S \ {y}) /\ S \ {y} \in SUBSET S /\ S \in SUBSET S
  BY FS_Subset
<1>3. PICK jt : IsSum(f, S \ {y}, jt) /\ SumFunctionOnSet(f, S \ {y}) = jt[S \ {y}]
  BY <1>2, SumExists, SumUnfold
<1>4. it[S \ {y}] = jt[S \ {y}]
  BY <1>1, <1>2, <1>3, SumUnique
<1>5. it[S] = f[y] + it[S \ {y}] /\ it[S] \in Int /\ it[S \ {y}] \in Int
  BY <1>1, SumAnyOrder
<1> QED
  BY <1>1, <1>3, <1>4, <1>5

LEMMA SumInt ==
  ASSUME NEW S, IsFiniteSet(S), NEW f, \A x \in S : f[x] \in Int
  PROVE  SumFunctionOnSet(f, S) \in Int
<1>1. CASE S = {}
  BY <1>1, SumEmpty
<1>2. CASE S # {}
  BY <1>2, SumRemove
<1> QED
  BY <1>1, <1>2

\* Nothing negative adds up to nothing negative.
LEMMA SumNat ==
  ASSUME NEW S, IsFiniteSet(S), NEW f, \A x \in S : f[x] \in Nat
  PROVE  SumFunctionOnSet(f, S) \in Nat
<1> DEFINE bad == {U \in SUBSET S : SumFunctionOnSet(f, U) \notin Nat}
<1> SUFFICES ASSUME bad # {} PROVE FALSE
  OBVIOUS
<1>1. bad \in SUBSET SUBSET S
  OBVIOUS
<1> HIDE DEF bad
<1>2. PICK U \in bad : IsFiniteSet(U) /\ \A x \in U : U \ {x} \notin bad
  BY <1>1, SmallestSet
<1>3. U \in SUBSET S /\ SumFunctionOnSet(f, U) \notin Nat
  BY <1>2 DEF bad
<1>4. U # {}
  BY <1>3, SumEmpty
<1>5. PICK x \in U : TRUE
  BY <1>4
<1>6. SumFunctionOnSet(f, U) = f[x] + SumFunctionOnSet(f, U \ {x})
  BY <1>2, <1>3, SumRemove
<1>7. SumFunctionOnSet(f, U \ {x}) \in Nat
  BY <1>2, <1>3 DEF bad
<1> QED
  BY <1>3, <1>6, <1>7

LEMMA SumAdd ==
  ASSUME NEW S, IsFiniteSet(S), NEW f, NEW y, y \notin S, \A x \in S \cup {y} : f[x] \in Int
  PROVE  SumFunctionOnSet(f, S \cup {y}) = f[y] + SumFunctionOnSet(f, S)
<1>1. IsFiniteSet(S \cup {y}) /\ (S \cup {y}) \ {y} = S
  BY FS_AddElement
<1> QED
  BY <1>1, SumRemove

\* The sum over a set is the sum over a part of it and the sum over the rest.
LEMMA SumSplit ==
  ASSUME NEW S, IsFiniteSet(S), NEW f, \A x \in S : f[x] \in Int, NEW T \in SUBSET S
  PROVE  SumFunctionOnSet(f, S) = SumFunctionOnSet(f, T) + SumFunctionOnSet(f, S \ T)
<1> DEFINE R == S \ T
           sum(U) == SumFunctionOnSet(f, U)
           bad == {U \in SUBSET T : sum(R \cup U) # sum(U) + sum(R)}
<1>1. IsFiniteSet(T) /\ \A U \in SUBSET S : IsFiniteSet(U) /\ sum(U) \in Int
  BY FS_Subset, SumInt
<1>2. bad = {}
  <2> SUFFICES ASSUME bad # {} PROVE FALSE
    OBVIOUS
  <2>1. bad \in SUBSET SUBSET T
    OBVIOUS
  <2> HIDE DEF bad
  <2>2. PICK U \in bad : \A x \in U : U \ {x} \notin bad
    BY <1>1, <2>1, SmallestSet
  <2>3. U \in SUBSET T /\ sum(R \cup U) # sum(U) + sum(R)
    BY <2>2 DEF bad
  <2>4. CASE U = {}
    <3>1. sum(U) = 0
      BY <2>4, SumEmpty
    <3>2. PICK n \in Int : n = sum(R)
      BY <1>1
    <3>3. R \cup U = R
      BY <2>4
    <3>4. sum(R \cup U) = n
      BY <3>2, <3>3
    <3>5. sum(U) + sum(R) = 0 + n
      BY <3>1, <3>2
    <3> QED BY <2>3, <3>4, <3>5
  <2>5. CASE U # {}
    <3>1. PICK x \in U : TRUE
      BY <2>5
    <3>2. sum(R \cup (U \ {x})) = sum(U \ {x}) + sum(R)
      BY <2>2, <2>3, <3>1 DEF bad
    <3>3. sum(U) = f[x] + sum(U \ {x})
      <4>1. \A y \in U : f[y] \in Int
        BY <2>3
      <4> QED BY <1>1, <2>3, <3>1, <4>1, SumRemove
    <3>4. sum(R \cup U) = f[x] + sum(R \cup (U \ {x}))
      <4>1. x \in R \cup U /\ (R \cup U) \ {x} = R \cup (U \ {x}) /\ R \cup U \in SUBSET S
        BY <2>3, <3>1
      <4>2. IsFiniteSet(R \cup U) /\ \A y \in R \cup U : f[y] \in Int
        BY <1>1, <4>1
      <4>3. sum(R \cup U) = f[x] + sum((R \cup U) \ {x})
        BY <4>1, <4>2, SumRemove
      <4> QED BY <4>1, <4>3
    <3>5. f[x] \in Int /\ sum(U \ {x}) \in Int /\ sum(R) \in Int
      BY <1>1, <2>3, <3>1
    <3> QED BY <2>3, <3>2, <3>3, <3>4, <3>5
  <2> QED BY <2>4, <2>5
<1>3. sum(R \cup T) = sum(T) + sum(R) /\ R \cup T = S
  BY <1>2
<1> QED
  BY <1>3
=============================================================================
