----------------------------- MODULE SumProofs -----------------------------
(***************************************************************************)
(* The facts about sums over finite sets that the proofs about money need. *)
(* The sum is a recursive function over the subsets of a finite set. The   *)
(* provers have no induction rule for such a function, but the library     *)
(* shows strict inclusion well-founded on finite sets, so a property of    *)
(* every subset is shown by looking at a smallest subset without it.       *)
(***************************************************************************)
EXTENDS Sums, FiniteSetTheorems, TLAPS

\* A non-empty set of subsets of a finite set has a smallest member.
LEMMA SmallestSubset ==
  ASSUME NEW S, IsFiniteSet(S), NEW B, B \subseteq SUBSET S, B # {}
  PROVE  \E T \in B : \A U \in B : U \subseteq T => U = T
<1>1. IsWellFoundedOn(StrictSubsetOrdering(S), SUBSET S)
  BY FS_StrictSubsetOrderingWellFounded, FS_FiniteSubsetsOfFinite
<1>2. PICK T \in B : \A U \in B : ~ (<<U, T>> \in StrictSubsetOrdering(S))
  BY <1>1, WFMin
<1>3. ASSUME NEW U \in B, U \subseteq T, U # T PROVE FALSE
  <2>1. <<U, T>> \in (SUBSET S) \X (SUBSET S)
    OBVIOUS
  <2>2. <<U, T>> \in StrictSubsetOrdering(S)
    BY <1>3, <2>1 DEF StrictSubsetOrdering
  <2>3. QED
    BY <1>2, <2>2
<1>4. QED
  BY <1>3

-----------------------------------------------------------------------------
(* The recursive function behind a sum *)

Pick(s) == CHOOSE x \in s : TRUE
SumStep(f, g, s) == IF s = {} THEN 0 ELSE f[Pick(s)] + g[s \ {Pick(s)}]
IsSum(f, g, S) == g = [s \in SUBSET S |-> SumStep(f, g, s)]

LEMMA SumOfDef ==
  ASSUME NEW f, NEW S
  PROVE  SumOf(f, S) = (CHOOSE g : IsSum(f, g, S))[S]
  BY DEF SumOf, MapThenSumSet, MapThenFoldSet, IsSum, SumStep, Pick

LEMMA PickMember ==
  ASSUME NEW s, s # {}
  PROVE  Pick(s) \in s /\ s \ {Pick(s)} \subseteq s /\ s \ {Pick(s)} # s
<1>1. Pick(s) \in s
  BY DEF Pick
<1>2. QED
  BY <1>1

LEMMA IsSumAt ==
  ASSUME NEW f, NEW g, NEW S, IsSum(f, g, S), NEW s \in SUBSET S
  PROVE  g[s] = SumStep(f, g, s)
  BY DEF IsSum

\* Two functions that compute the sums of f agree wherever both are defined.
LEMMA IsSumUnique ==
  ASSUME NEW f, NEW g, NEW h, NEW S, NEW T, IsFiniteSet(S), IsSum(f, g, S), IsSum(f, h, T),
         NEW s \in SUBSET S, s \in SUBSET T
  PROVE  g[s] = h[s]
<1> DEFINE B == {u \in SUBSET S : u \in SUBSET T /\ g[u] # h[u]}
<1> SUFFICES ASSUME B # {} PROVE FALSE
  OBVIOUS
<1>1. PICK u \in B : \A v \in B : v \subseteq u => v = u
  <2>1. B \subseteq SUBSET S
    OBVIOUS
  <2> HIDE DEF B
  <2>2. QED
    BY <2>1, SmallestSubset
<1>2. g[u] = SumStep(f, g, u) /\ h[u] = SumStep(f, h, u)
  BY IsSumAt
<1>3. CASE u = {}
  BY <1>2, <1>3 DEF SumStep
<1>4. CASE u # {}
  <2>1. u \ {Pick(u)} \subseteq u /\ u \ {Pick(u)} # u
    BY <1>4, PickMember
  <2>2. u \ {Pick(u)} \notin B
    BY <1>1, <2>1
  <2>3. u \ {Pick(u)} \in SUBSET S /\ u \ {Pick(u)} \in SUBSET T
    BY <2>1
  <2>4. g[u \ {Pick(u)}] = h[u \ {Pick(u)}]
    BY <2>2, <2>3
  <2>5. SumStep(f, g, u) = SumStep(f, h, u)
    BY <2>4 DEF SumStep
  <2>6. QED
    BY <1>2, <2>5
<1>5. QED
  BY <1>3, <1>4

\* The recursion has a solution.
LEMMA IsSumExists ==
  ASSUME NEW f, NEW S, IsFiniteSet(S) PROVE \E g : IsSum(f, g, S)
<1> DEFINE B == {u \in SUBSET S : ~ \E g : IsSum(f, g, u)}
<1> SUFFICES ASSUME B # {} PROVE FALSE
  OBVIOUS
<1>1. PICK T \in B : \A v \in B : v \subseteq T => v = T
  <2>1. B \subseteq SUBSET S
    OBVIOUS
  <2> HIDE DEF B
  <2>2. QED
    BY <2>1, SmallestSubset
<1> DEFINE h(u) == CHOOSE g : IsSum(f, g, u)
<1>2. ASSUME NEW u \in SUBSET T, u # T PROVE IsSum(f, h(u), u)
  <2>1. u \notin B /\ u \in SUBSET S
    BY <1>1, <1>2
  <2>2. \E g : IsSum(f, g, u)
    BY <2>1
  <2>3. QED
    BY <2>2
<1> DEFINE G == [s \in SUBSET T |-> IF s = T THEN SumStep(f, h(T \ {Pick(T)}), T) ELSE h(s)[s]]
<1> HIDE DEF h
<1>3. ASSUME NEW s \in SUBSET T PROVE G[s] = SumStep(f, G, s)
  <2>1. CASE s = {}
    <3>1. CASE s = T
      BY <2>1, <3>1 DEF SumStep
    <3>2. CASE s # T
      BY <1>2, <2>1, <3>2, IsSumAt DEF SumStep
    <3>3. QED
      BY <3>1, <3>2
  <2>2. CASE s # {}
    <3> DEFINE r == s \ {Pick(s)}
    <3>1. r \in SUBSET s /\ r \in SUBSET T /\ r # s /\ r # T /\ Pick(s) \in s
      BY <2>2, PickMember
    <3>2. G[r] = h(r)[r]
      BY <3>1
    <3>3. CASE s = T
      <4>1. G[s] = SumStep(f, h(r), s)
        BY <3>3
      <4>2. QED
        BY <2>2, <3>2, <4>1 DEF SumStep
    <3>4. CASE s # T
      <4>1. G[s] = h(s)[s] /\ IsSum(f, h(s), s) /\ IsSum(f, h(r), r)
        BY <1>2, <3>1, <3>4
      <4>2. h(s)[s] = SumStep(f, h(s), s)
        BY <4>1, IsSumAt
      <4>3. IsFiniteSet(s)
        BY FS_Subset
      <4>4. h(s)[r] = h(r)[r]
        BY <3>1, <4>1, <4>3, IsSumUnique
      <4>5. QED
        BY <2>2, <3>2, <4>1, <4>2, <4>4 DEF SumStep
    <3>5. QED
      BY <3>3, <3>4
  <2>3. QED
    BY <2>1, <2>2
<1>4. G = [s \in SUBSET T |-> SumStep(f, G, s)]
  <2>1. G = [s \in SUBSET T |-> G[s]]
    OBVIOUS
  <2> HIDE DEF G
  <2>2. QED
    BY <1>3, <2>1
<1>5. IsSum(f, G, T)
  BY <1>4 DEF IsSum
<1>6. QED
  BY <1>1, <1>5

-----------------------------------------------------------------------------
(* Sums *)

\* Every sum over a subset of S is a value of one and the same function.
LEMMA SumOfIs ==
  ASSUME NEW f, NEW S, IsFiniteSet(S)
  PROVE  \E g : IsSum(f, g, S) /\ \A s \in SUBSET S : SumOf(f, s) = g[s]
<1>1. PICK g : IsSum(f, g, S)
  BY IsSumExists
<1>2. ASSUME NEW s \in SUBSET S PROVE SumOf(f, s) = g[s]
  <2>1. IsFiniteSet(s)
    BY FS_Subset
  <2> DEFINE h == CHOOSE h : IsSum(f, h, s)
  <2>2. IsSum(f, h, s)
    BY <2>1, IsSumExists
  <2>3. h[s] = g[s]
    BY <1>1, <2>1, <2>2, IsSumUnique
  <2>4. QED
    BY <2>3, SumOfDef
<1>3. QED
  BY <1>1, <1>2

LEMMA SumOfEmpty ==
  ASSUME NEW f PROVE SumOf(f, {}) = 0
<1>1. PICK g : IsSum(f, g, {}) /\ \A s \in SUBSET {} : SumOf(f, s) = g[s]
  BY SumOfIs, FS_EmptySet
<1>2. g[{}] = SumStep(f, g, {})
  BY <1>1, IsSumAt
<1>3. QED
  BY <1>1, <1>2 DEF SumStep

LEMMA SumOfPick ==
  ASSUME NEW f, NEW S, IsFiniteSet(S), S # {}
  PROVE  SumOf(f, S) = f[Pick(S)] + SumOf(f, S \ {Pick(S)})
<1>1. PICK g : IsSum(f, g, S) /\ \A s \in SUBSET S : SumOf(f, s) = g[s]
  BY SumOfIs
<1>2. g[S] = SumStep(f, g, S)
  BY <1>1, IsSumAt
<1>3. S \ {Pick(S)} \in SUBSET S /\ S \in SUBSET S
  OBVIOUS
<1>4. QED
  BY <1>1, <1>2, <1>3 DEF SumStep

\* A sum of integers is an integer.
THEOREM SumOfInt ==
  ASSUME NEW f, NEW S, IsFiniteSet(S), \A x \in S : f[x] \in Int
  PROVE  SumOf(f, S) \in Int
<1> DEFINE B == {u \in SUBSET S : SumOf(f, u) \notin Int}
<1> SUFFICES ASSUME B # {} PROVE FALSE
  OBVIOUS
<1>1. PICK T \in B : \A v \in B : v \subseteq T => v = T
  <2>1. B \subseteq SUBSET S
    OBVIOUS
  <2> HIDE DEF B
  <2>2. QED
    BY <2>1, SmallestSubset
<1>2. IsFiniteSet(T) /\ T \in SUBSET S
  BY FS_Subset
<1>3. T # {}
  BY SumOfEmpty
<1>4. Pick(T) \in T /\ T \ {Pick(T)} \subseteq T /\ T \ {Pick(T)} # T
  BY <1>3, PickMember
<1>5. SumOf(f, T \ {Pick(T)}) \in Int
  <2>1. T \ {Pick(T)} \notin B
    BY <1>1, <1>4
  <2>2. QED
    BY <1>2, <1>4, <2>1
<1>6. f[Pick(T)] \in Int
  BY <1>2, <1>4
<1>7. SumOf(f, T) \in Int
  BY <1>2, <1>3, <1>5, <1>6, SumOfPick
<1>8. QED
  BY <1>1, <1>7

\* Any member can be taken out of a sum.
THEOREM SumOfTake ==
  ASSUME NEW f, NEW S, IsFiniteSet(S), \A x \in S : f[x] \in Int, NEW y \in S
  PROVE  SumOf(f, S) = f[y] + SumOf(f, S \ {y})
<1> DEFINE Takes(u) == \A x \in u : SumOf(f, u) = f[x] + SumOf(f, u \ {x})
           B == {u \in SUBSET S : ~ Takes(u)}
<1> SUFFICES ASSUME B # {} PROVE FALSE
  OBVIOUS
<1>1. PICK T \in B : \A v \in B : v \subseteq T => v = T
  <2>1. B \subseteq SUBSET S
    OBVIOUS
  <2> HIDE DEF B
  <2>2. QED
    BY <2>1, SmallestSubset
<1>2. PICK x \in T : SumOf(f, T) # f[x] + SumOf(f, T \ {x})
  BY <1>1
<1>3. T \in SUBSET S /\ IsFiniteSet(T) /\ T # {}
  BY <1>1, <1>2, FS_Subset
<1>4. PICK p \in T : SumOf(f, T) = f[p] + SumOf(f, T \ {p})
  <2>1. Pick(T) \in T
    BY <1>3, PickMember
  <2>2. SumOf(f, T) = f[Pick(T)] + SumOf(f, T \ {Pick(T)})
    BY <1>3, SumOfPick
  <2>3. QED
    BY <2>1, <2>2
<1>5. p \in T
  OBVIOUS
<1>6. p # x
  BY <1>2, <1>4
<1>7. Takes(T \ {p}) /\ Takes(T \ {x})
  <2>1. T \ {p} \in SUBSET S /\ T \ {p} # T /\ T \ {p} \subseteq T
    BY <1>3, <1>4
  <2>2. T \ {x} \in SUBSET S /\ T \ {x} # T /\ T \ {x} \subseteq T
    BY <1>2, <1>3
  <2> HIDE DEF Takes
  <2>3. QED
    BY <1>1, <2>1, <2>2
<1>8. SumOf(f, T \ {p}) = f[x] + SumOf(f, (T \ {p}) \ {x})
  BY <1>2, <1>6, <1>7
<1>9. SumOf(f, T \ {x}) = f[p] + SumOf(f, (T \ {x}) \ {p})
  BY <1>4, <1>6, <1>7
<1>10. (T \ {p}) \ {x} = (T \ {x}) \ {p}
  OBVIOUS
<1>11. f[x] \in Int /\ f[p] \in Int
  BY <1>2, <1>3, <1>4
<1>12. SumOf(f, (T \ {x}) \ {p}) \in Int
  <2> DEFINE U == (T \ {x}) \ {p}
  <2>1. U \in SUBSET S
    BY <1>3
  <2>2. IsFiniteSet(U)
    BY <2>1, FS_Subset
  <2>3. \A z \in U : f[z] \in Int
    BY <2>1
  <2> HIDE DEF U
  <2>4. SumOf(f, U) \in Int
    BY <2>2, <2>3, SumOfInt
  <2>5. QED
    BY <2>4 DEF U
<1>13. SumOf(f, T) = f[p] + (f[x] + SumOf(f, (T \ {x}) \ {p}))
  BY <1>4, <1>8, <1>10
<1>14. SumOf(f, T) # f[x] + (f[p] + SumOf(f, (T \ {x}) \ {p}))
  BY <1>2, <1>9
<1>15. QED
  BY <1>11, <1>12, <1>13, <1>14

\* Adding a member adds its value.
THEOREM SumOfAdd ==
  ASSUME NEW f, NEW S, IsFiniteSet(S), NEW y, y \notin S, \A x \in S \union {y} : f[x] \in Int
  PROVE  SumOf(f, S \union {y}) = f[y] + SumOf(f, S)
<1> DEFINE T == S \union {y}
<1>1. IsFiniteSet(T) /\ y \in T /\ T \ {y} = S /\ \A x \in T : f[x] \in Int
  BY FS_AddElement
<1> HIDE DEF T
<1>2. SumOf(f, T) = f[y] + SumOf(f, T \ {y})
  BY <1>1, SumOfTake
<1>3. QED
  BY <1>1, <1>2 DEF T

\* A sum depends on the values of the members only.
THEOREM SumOfSame ==
  ASSUME NEW f, NEW g, NEW S, IsFiniteSet(S), \A x \in S : f[x] = g[x]
  PROVE  SumOf(f, S) = SumOf(g, S)
<1> DEFINE B == {u \in SUBSET S : SumOf(f, u) # SumOf(g, u)}
<1> SUFFICES ASSUME B # {} PROVE FALSE
  OBVIOUS
<1>1. PICK T \in B : \A v \in B : v \subseteq T => v = T
  <2>1. B \subseteq SUBSET S
    OBVIOUS
  <2> HIDE DEF B
  <2>2. QED
    BY <2>1, SmallestSubset
<1>2. IsFiniteSet(T) /\ T \in SUBSET S
  BY FS_Subset
<1>3. T # {}
  BY SumOfEmpty
<1>4. Pick(T) \in T /\ T \ {Pick(T)} \subseteq T /\ T \ {Pick(T)} # T
  BY <1>3, PickMember
<1>5. SumOf(f, T \ {Pick(T)}) = SumOf(g, T \ {Pick(T)})
  <2>1. T \ {Pick(T)} \notin B
    BY <1>1, <1>4
  <2>2. QED
    BY <1>2, <1>4, <2>1
<1>6. SumOf(f, T) = SumOf(g, T)
  BY <1>2, <1>3, <1>4, <1>5, SumOfPick
<1>7. QED
  BY <1>1, <1>6

\* A sum of amounts that are not negative is not negative.
THEOREM SumOfNat ==
  ASSUME NEW f, NEW S, IsFiniteSet(S), \A x \in S : f[x] \in Nat
  PROVE  SumOf(f, S) \in Nat
<1> DEFINE B == {u \in SUBSET S : SumOf(f, u) \notin Nat}
<1> SUFFICES ASSUME B # {} PROVE FALSE
  OBVIOUS
<1>1. PICK T \in B : \A v \in B : v \subseteq T => v = T
  <2>1. B \subseteq SUBSET S
    OBVIOUS
  <2> HIDE DEF B
  <2>2. QED
    BY <2>1, SmallestSubset
<1>2. IsFiniteSet(T) /\ T \in SUBSET S
  BY FS_Subset
<1>3. T # {}
  BY SumOfEmpty
<1>4. Pick(T) \in T /\ T \ {Pick(T)} \subseteq T /\ T \ {Pick(T)} # T
  BY <1>3, PickMember
<1>5. SumOf(f, T \ {Pick(T)}) \in Nat
  <2>1. T \ {Pick(T)} \notin B
    BY <1>1, <1>4
  <2>2. QED
    BY <1>2, <1>4, <2>1
<1>6. f[Pick(T)] \in Nat
  BY <1>2, <1>4
<1>7. SumOf(f, T) \in Nat
  BY <1>2, <1>3, <1>5, <1>6, SumOfPick
<1>8. QED
  BY <1>1, <1>7

\* A sum of nothing but zeros is zero.
THEOREM SumOfZero ==
  ASSUME NEW f, NEW S, IsFiniteSet(S), \A x \in S : f[x] = 0
  PROVE  SumOf(f, S) = 0
<1> DEFINE B == {u \in SUBSET S : SumOf(f, u) # 0}
<1> SUFFICES ASSUME B # {} PROVE FALSE
  OBVIOUS
<1>1. PICK T \in B : \A v \in B : v \subseteq T => v = T
  <2>1. B \subseteq SUBSET S
    OBVIOUS
  <2> HIDE DEF B
  <2>2. QED
    BY <2>1, SmallestSubset
<1>2. IsFiniteSet(T) /\ T \in SUBSET S
  BY FS_Subset
<1>3. T # {}
  BY SumOfEmpty
<1>4. Pick(T) \in T /\ T \ {Pick(T)} \subseteq T /\ T \ {Pick(T)} # T
  BY <1>3, PickMember
<1>5. SumOf(f, T \ {Pick(T)}) = 0
  <2>1. T \ {Pick(T)} \notin B
    BY <1>1, <1>4
  <2>2. QED
    BY <1>2, <1>4, <2>1
<1>6. f[Pick(T)] = 0
  BY <1>2, <1>4
<1>7. SumOf(f, T) = 0
  BY <1>2, <1>3, <1>5, <1>6, SumOfPick
<1>8. QED
  BY <1>1, <1>7

\* What amounts to one each adds up to how many there are.
THEOREM SumOfOnes ==
  ASSUME NEW f, NEW S, IsFiniteSet(S), \A x \in S : f[x] = 1
  PROVE  SumOf(f, S) = Cardinality(S)
<1> DEFINE B == {u \in SUBSET S : SumOf(f, u) # Cardinality(u)}
<1> SUFFICES ASSUME B # {} PROVE FALSE
  OBVIOUS
<1>1. PICK T \in B : \A v \in B : v \subseteq T => v = T
  <2>1. B \subseteq SUBSET S
    OBVIOUS
  <2> HIDE DEF B
  <2>2. QED
    BY <2>1, SmallestSubset
<1>2. T \in SUBSET S /\ IsFiniteSet(T) /\ SumOf(f, T) # Cardinality(T)
  BY <1>1, FS_Subset
<1>3. T # {}
  BY <1>2, SumOfEmpty, FS_EmptySet
<1>4. PICK y : y \in T
  BY <1>3
<1>5. SumOf(f, T \ {y}) = Cardinality(T \ {y})
  BY <1>1, <1>2, <1>4
<1>6. Cardinality(T \ {y}) = Cardinality(T) - 1 /\ Cardinality(T) \in Nat
  BY <1>2, <1>4, FS_RemoveElement, FS_CardinalityType
<1>7. f[y] = 1 /\ \A x \in T : f[x] \in Int
  BY <1>2, <1>4
<1>8. SumOf(f, T) = f[y] + SumOf(f, T \ {y})
  BY <1>2, <1>4, <1>7, SumOfTake
<1>9. QED
  BY <1>2, <1>5, <1>6, <1>7, <1>8

\* Counting by classes: the members of S, each worth what its class is worth, add up to the
\* classes, each worth that much as often as it has members.
THEOREM SumByClass ==
  ASSUME NEW S, IsFiniteSet(S), NEW K, IsFiniteSet(K), NEW class \in [S -> K], NEW w \in [K -> Int]
  PROVE  SumOf([r \in S |-> w[class[r]]], S)
           = SumOf([x \in K |-> w[x] * Cardinality({r \in S : class[r] = x})], K)
<1> DEFINE f == [r \in S |-> w[class[r]]]
           Of(T, x) == {r \in T : class[r] = x}
           g(T) == [x \in K |-> w[x] * Cardinality(Of(T, x))]
           B == {u \in SUBSET S : SumOf(f, u) # SumOf(g(u), K)}
<1> SUFFICES ASSUME B # {} PROVE FALSE
  OBVIOUS
<1>1. PICK T \in B : \A v \in B : v \subseteq T => v = T
  <2>1. B \subseteq SUBSET S
    OBVIOUS
  <2> HIDE DEF B
  <2>2. QED
    BY <2>1, SmallestSubset
<1>2. T \in SUBSET S /\ IsFiniteSet(T) /\ SumOf(f, T) # SumOf(g(T), K)
  BY <1>1, FS_Subset
<1>3. T # {}
  <2> SUFFICES ASSUME T = {} PROVE FALSE
    OBVIOUS
  <2>1. \A x \in K : Of(T, x) = {}
    OBVIOUS
  <2>2. \A x \in K : g(T)[x] = 0
    <3>1. \A x \in K : w[x] \in Int /\ Cardinality(Of(T, x)) = 0
      BY <2>1, FS_EmptySet
    <3>2. \A i \in Int : i * 0 = 0
      OBVIOUS
    <3> HIDE DEF Of
    <3>3. QED
      BY <3>1, <3>2
  <2> HIDE DEF g
  <2>3. QED
    BY <1>2, <2>2, SumOfZero, SumOfEmpty
<1>4. PICK y : y \in T
  BY <1>3
<1>5. PICK U : U = T \ {y}
  OBVIOUS
<1>6. U \in SUBSET S /\ IsFiniteSet(U) /\ U # T /\ SumOf(f, U) = SumOf(g(U), K)
  <2>1. U \in SUBSET S /\ U # T /\ U \subseteq T
    BY <1>2, <1>4, <1>5
  <2>2. QED
    BY <1>1, <1>2, <2>1, FS_Subset
<1>7. PICK c \in K : c = class[y]
  BY <1>2, <1>4
<1>8. ASSUME NEW V \in SUBSET S, NEW x \in K
      PROVE  IsFiniteSet(Of(V, x)) /\ Cardinality(Of(V, x)) \in Nat /\ g(V)[x] \in Int
  <2>1. IsFiniteSet(Of(V, x))
    <3>1. Of(V, x) \subseteq S
      OBVIOUS
    <3> HIDE DEF Of
    <3>2. QED
      BY <3>1, FS_Subset
  <2>2. Cardinality(Of(V, x)) \in Nat
    BY <2>1, FS_CardinalityType
  <2>3. QED
    BY <2>1, <2>2
<1>9. /\ Of(T, c) = Of(U, c) \union {y} /\ y \notin Of(U, c)
      /\ \A x \in K \ {c} : Of(T, x) = Of(U, x)
  BY <1>4, <1>5, <1>7
<1>10. f[y] = w[c] /\ w[c] \in Int /\ \A x \in T : f[x] \in Int
  BY <1>2, <1>4, <1>7
<1>11. SumOf(f, T) = w[c] + SumOf(f, U)
  BY <1>2, <1>4, <1>5, <1>10, SumOfTake
<1>12. g(T)[c] = w[c] + g(U)[c]
  <2>1. Cardinality(Of(T, c)) = Cardinality(Of(U, c)) + 1
    <3>1. IsFiniteSet(Of(U, c))
      BY <1>6, <1>8
    <3>2. Of(T, c) = Of(U, c) \union {y} /\ y \notin Of(U, c)
      BY <1>9
    <3>3. PICK A : A = Of(U, c)
      OBVIOUS
    <3> HIDE DEF Of
    <3>4. Cardinality(A \union {y}) = Cardinality(A) + 1
      BY <3>1, <3>2, <3>3, FS_AddElement
    <3>5. QED
      BY <3>2, <3>3, <3>4
  <2>2. PICK n \in Nat : n = Cardinality(Of(U, c))
    BY <1>6, <1>8
  <2>3. w[c] * (n + 1) = w[c] + w[c] * n
    BY <1>10
  <2> HIDE DEF Of
  <2>4. QED
    BY <2>1, <2>2, <2>3
<1>13. SumOf(g(T), K \ {c}) = SumOf(g(U), K \ {c})
  <2>1. \A x \in K \ {c} : g(T)[x] = g(U)[x]
    BY <1>9
  <2>2. IsFiniteSet(K \ {c})
    BY FS_Subset
  <2> HIDE DEF g
  <2>3. QED
    BY <2>1, <2>2, SumOfSame
<1>14. /\ SumOf(g(T), K) = g(T)[c] + SumOf(g(T), K \ {c})
       /\ SumOf(g(U), K) = g(U)[c] + SumOf(g(U), K \ {c})
  <2>1. \A x \in K : g(T)[x] \in Int /\ g(U)[x] \in Int
    BY <1>2, <1>6, <1>8
  <2> HIDE DEF g
  <2>2. QED
    BY <2>1, SumOfTake
<1>15. SumOf(g(U), K \ {c}) \in Int
  <2>1. \A x \in K \ {c} : g(U)[x] \in Int
    BY <1>6, <1>8
  <2>2. IsFiniteSet(K \ {c})
    BY FS_Subset
  <2> HIDE DEF g
  <2>3. QED
    BY <2>1, <2>2, SumOfInt
<1>16. g(U)[c] \in Int
  BY <1>6, <1>8
<1> HIDE DEF f, g
<1>17. QED
  BY <1>2, <1>6, <1>10, <1>11, <1>12, <1>13, <1>14, <1>15, <1>16

-----------------------------------------------------------------------------
(* Sums over the parts of a set *)

\* A sum is the sum over a subset and the sum over the rest.
THEOREM SumOfSplit ==
  ASSUME NEW f, NEW S, IsFiniteSet(S), \A x \in S : f[x] \in Int, NEW A, A \subseteq S
  PROVE  SumOf(f, S) = SumOf(f, A) + SumOf(f, S \ A)
<1> DEFINE B == {u \in SUBSET S : SumOf(f, u) # SumOf(f, u \cap A) + SumOf(f, u \ A)}
<1>1. B = {}
  <2> SUFFICES ASSUME B # {} PROVE FALSE
    OBVIOUS
  <2>1. PICK T \in B : \A v \in B : v \subseteq T => v = T
    <3>1. B \subseteq SUBSET S
      OBVIOUS
    <3> HIDE DEF B
    <3>2. QED
      BY <3>1, SmallestSubset
  <2>2. T \in SUBSET S /\ IsFiniteSet(T) /\ SumOf(f, T) # SumOf(f, T \cap A) + SumOf(f, T \ A)
    BY <2>1, FS_Subset
  <2>3. T # {}
    <3> SUFFICES ASSUME T = {} PROVE FALSE
      OBVIOUS
    <3>1. T \cap A = {} /\ T \ A = {}
      OBVIOUS
    <3>2. SumOf(f, T) = 0 /\ SumOf(f, T \cap A) = 0 /\ SumOf(f, T \ A) = 0
      BY <3>1, SumOfEmpty
    <3> HIDE DEF B
    <3>3. QED
      BY <2>2, <3>2
  <2>4. PICK y : y \in T
    BY <2>3
  <2>5. PICK U : U = T \ {y}
    OBVIOUS
  <2>6. U \in SUBSET S /\ IsFiniteSet(U) /\ SumOf(f, U) = SumOf(f, U \cap A) + SumOf(f, U \ A)
    <3>1. U \in SUBSET S /\ U # T /\ U \subseteq T
      BY <2>2, <2>4, <2>5
    <3>2. QED
      BY <2>1, <3>1, <2>2, FS_Subset
  <2>7. f[y] \in Int /\ SumOf(f, T) = f[y] + SumOf(f, U)
    BY <2>2, <2>4, <2>5, SumOfTake
  <2>8. /\ IsFiniteSet(T \cap A) /\ IsFiniteSet(T \ A) /\ IsFiniteSet(U \cap A) /\ IsFiniteSet(U \ A)
        /\ SumOf(f, U \cap A) \in Int /\ SumOf(f, U \ A) \in Int
    <3>1. T \cap A \subseteq S /\ T \ A \subseteq S /\ U \cap A \subseteq S /\ U \ A \subseteq S
      BY <2>2, <2>6
    <3>2. /\ IsFiniteSet(T \cap A) /\ IsFiniteSet(T \ A)
          /\ IsFiniteSet(U \cap A) /\ IsFiniteSet(U \ A)
      BY <3>1, FS_Subset
    <3>3. (\A x \in U \cap A : f[x] \in Int) /\ (\A x \in U \ A : f[x] \in Int)
      BY <3>1
    <3>4. SumOf(f, U \cap A) \in Int /\ SumOf(f, U \ A) \in Int
      BY <3>2, <3>3, SumOfInt
    <3>5. QED
      BY <3>2, <3>4
  <2>9. CASE y \in A
    <3>1. T \ A = U \ A /\ y \in T \cap A /\ (T \cap A) \ {y} = U \cap A
      BY <2>4, <2>5, <2>9
    <3>2. \A x \in T \cap A : f[x] \in Int
      BY <2>2
    <3>3. SumOf(f, T \cap A) = f[y] + SumOf(f, U \cap A)
      BY <2>8, <3>1, <3>2, SumOfTake
    <3>4. PICK i, j : /\ i = SumOf(f, U \cap A) /\ j = SumOf(f, U \ A)
                     /\ i \in Int /\ j \in Int
      BY <2>8
    <3>5. /\ SumOf(f, T) = f[y] + (i + j)
          /\ SumOf(f, T \cap A) = f[y] + i
          /\ SumOf(f, T \ A) = j
      BY <2>6, <2>7, <3>1, <3>3, <3>4
    <3>6. f[y] + (i + j) = (f[y] + i) + j
      BY <2>7, <3>4
    <3>7. SumOf(f, T) = SumOf(f, T \cap A) + SumOf(f, T \ A)
      BY <3>5, <3>6
    <3> HIDE DEF B
    <3>8. QED
      BY <2>2, <3>7
  <2>10. CASE y \notin A
    <3>1. T \cap A = U \cap A /\ y \in T \ A /\ (T \ A) \ {y} = U \ A
      BY <2>4, <2>5, <2>10
    <3>2. \A x \in T \ A : f[x] \in Int
      BY <2>2
    <3>3. SumOf(f, T \ A) = f[y] + SumOf(f, U \ A)
      BY <2>8, <3>1, <3>2, SumOfTake
    <3>4. PICK i, j : /\ i = SumOf(f, U \cap A) /\ j = SumOf(f, U \ A)
                     /\ i \in Int /\ j \in Int
      BY <2>8
    <3>5. /\ SumOf(f, T) = f[y] + (i + j)
          /\ SumOf(f, T \cap A) = i
          /\ SumOf(f, T \ A) = f[y] + j
      BY <2>6, <2>7, <3>1, <3>3, <3>4
    <3>6. f[y] + (i + j) = i + (f[y] + j)
      BY <2>7, <3>4
    <3>7. SumOf(f, T) = SumOf(f, T \cap A) + SumOf(f, T \ A)
      BY <3>5, <3>6
    <3> HIDE DEF B
    <3>8. QED
      BY <2>2, <3>7
  <2>11. QED
    BY <2>9, <2>10
<1>2. SumOf(f, S) = SumOf(f, S \cap A) + SumOf(f, S \ A)
  BY <1>1
<1>3. S \cap A = A
  OBVIOUS
<1>4. QED
  BY <1>2, <1>3

\* A sum can be taken class by class: the sums of the classes in K add up to the sum over the
\* members whose class is in K.
THEOREM SumByFiber ==
  ASSUME NEW f, NEW S, IsFiniteSet(S), \A x \in S : f[x] \in Int,
         NEW K, IsFiniteSet(K), NEW class
  PROVE  SumOf([k \in K |-> SumOf(f, {x \in S : class[x] = k})], K)
           = SumOf(f, {x \in S : class[x] \in K})
<1> DEFINE Fiber(k) == {x \in S : class[x] = k}
           In(u) == {x \in S : class[x] \in u}
           g == [k \in K |-> SumOf(f, Fiber(k))]
           B == {u \in SUBSET K : SumOf(g, u) # SumOf(f, In(u))}
<1>1. B = {}
  <2> SUFFICES ASSUME B # {} PROVE FALSE
    OBVIOUS
  <2>1. PICK T \in B : \A v \in B : v \subseteq T => v = T
    <3>1. B \subseteq SUBSET K
      OBVIOUS
    <3> HIDE DEF B
    <3>2. QED
      BY <3>1, SmallestSubset
  <2>2. T \in SUBSET K /\ IsFiniteSet(T) /\ SumOf(g, T) # SumOf(f, In(T))
    BY <2>1, FS_Subset
  <2>3. T # {}
    <3>1. In({}) = {}
      OBVIOUS
    <3> HIDE DEF In, g
    <3>2. QED
      BY <2>2, <3>1, SumOfEmpty
  <2>4. PICK k : k \in T
    BY <2>3
  <2>5. PICK U : U = T \ {k}
    OBVIOUS
  <2>6. SumOf(g, U) = SumOf(f, In(U))
    <3>1. U \in SUBSET K /\ U # T /\ U \subseteq T
      BY <2>2, <2>4, <2>5
    <3>2. QED
      BY <2>1, <3>1
  <2>7. \A i \in K : g[i] = SumOf(f, Fiber(i)) /\ g[i] \in Int
    <3>1. ASSUME NEW i \in K PROVE SumOf(f, Fiber(i)) \in Int
      <4>1. Fiber(i) \subseteq S
        OBVIOUS
      <4> HIDE DEF Fiber
      <4>2. IsFiniteSet(Fiber(i)) /\ \A x \in Fiber(i) : f[x] \in Int
        BY <4>1, FS_Subset
      <4>3. QED
        BY <4>2, SumOfInt
    <3> HIDE DEF Fiber
    <3>2. QED
      BY <3>1
  <2>8. SumOf(g, T) = SumOf(f, Fiber(k)) + SumOf(g, U)
    <3>1. \A i \in T : g[i] \in Int
      BY <2>2, <2>7
    <3>2. g[k] = SumOf(f, Fiber(k))
      BY <2>2, <2>4, <2>7
    <3> HIDE DEF g
    <3>3. QED
      BY <2>2, <2>4, <2>5, <3>1, <3>2, SumOfTake
  <2>9. SumOf(f, In(T)) = SumOf(f, Fiber(k)) + SumOf(f, In(U))
    <3>1. In(T) \subseteq S /\ Fiber(k) \subseteq In(T) /\ In(T) \ Fiber(k) = In(U)
      BY <2>4, <2>5
    <3> HIDE DEF In, Fiber
    <3>2. IsFiniteSet(In(T)) /\ \A x \in In(T) : f[x] \in Int
      BY <3>1, FS_Subset
    <3>3. QED
      BY <3>1, <3>2, SumOfSplit
  <2>10. QED
    BY <2>2, <2>6, <2>8, <2>9
<1>2. SumOf(g, K) = SumOf(f, In(K))
  BY <1>1
<1>3. QED
  BY <1>2

\* Counting class by class.
THEOREM CountByFiber ==
  ASSUME NEW S, IsFiniteSet(S), NEW K, IsFiniteSet(K), NEW class
  PROVE  SumOf([k \in K |-> Cardinality({x \in S : class[x] = k})], K)
           = Cardinality({x \in S : class[x] \in K})
<1> DEFINE f == [x \in S |-> 1]
           g == [k \in K |-> SumOf(f, {x \in S : class[x] = k})]
           c == [k \in K |-> Cardinality({x \in S : class[x] = k})]
<1>1. \A A \in SUBSET S : SumOf(f, A) = Cardinality(A)
  <2> SUFFICES ASSUME NEW A \in SUBSET S PROVE SumOf(f, A) = Cardinality(A)
    OBVIOUS
  <2>1. IsFiniteSet(A) /\ \A x \in A : f[x] = 1
    BY FS_Subset
  <2> HIDE DEF f
  <2>2. QED
    BY <2>1, SumOfOnes
<1>2. \A x \in S : f[x] \in Int
  OBVIOUS
<1>3. SumOf(g, K) = SumOf(f, {x \in S : class[x] \in K})
  <2> HIDE DEF f
  <2>1. QED
    BY <1>2, SumByFiber
<1>4. \A k \in K : g[k] = c[k]
  <2>1. \A k \in K : {x \in S : class[x] = k} \in SUBSET S
    OBVIOUS
  <2> HIDE DEF f
  <2>2. QED
    BY <1>1, <2>1
<1>5. SumOf(g, K) = SumOf(c, K)
  <2> HIDE DEF g, c
  <2>1. QED
    BY <1>4, SumOfSame
<1>6. {x \in S : class[x] \in K} \in SUBSET S
  OBVIOUS
<1> HIDE DEF f, g
<1>7. QED
  BY <1>1, <1>3, <1>5, <1>6

\* Two amounts of each member are added member by member or one amount after the other.
THEOREM SumOfPairs ==
  ASSUME NEW S, IsFiniteSet(S), NEW f \in [S -> Int], NEW g \in [S -> Int]
  PROVE  SumOf([x \in S |-> f[x] + g[x]], S) = SumOf(f, S) + SumOf(g, S)
<1> DEFINE h == [x \in S |-> f[x] + g[x]]
           B == {u \in SUBSET S : SumOf(h, u) # SumOf(f, u) + SumOf(g, u)}
<1>1. B = {}
  <2> SUFFICES ASSUME B # {} PROVE FALSE
    OBVIOUS
  <2>1. PICK T \in B : \A v \in B : v \subseteq T => v = T
    <3>1. B \subseteq SUBSET S
      OBVIOUS
    <3> HIDE DEF B
    <3>2. QED
      BY <3>1, SmallestSubset
  <2>2. T \in SUBSET S /\ IsFiniteSet(T) /\ SumOf(h, T) # SumOf(f, T) + SumOf(g, T)
    BY <2>1, FS_Subset
  <2>3. T # {}
    <3>1. SumOf(h, {}) = 0 /\ SumOf(f, {}) = 0 /\ SumOf(g, {}) = 0
      BY SumOfEmpty
    <3> HIDE DEF h
    <3>2. QED
      BY <2>2, <3>1
  <2>4. PICK y : y \in T
    BY <2>3
  <2>5. PICK U : U = T \ {y}
    OBVIOUS
  <2>6. U \in SUBSET S /\ IsFiniteSet(U) /\ SumOf(h, U) = SumOf(f, U) + SumOf(g, U)
    <3>1. U \in SUBSET S /\ U # T /\ U \subseteq T
      BY <2>2, <2>4, <2>5
    <3>2. QED
      BY <2>1, <2>2, <3>1, FS_Subset
  <2>7. \A x \in T : f[x] \in Int /\ g[x] \in Int /\ h[x] \in Int /\ h[x] = f[x] + g[x]
    BY <2>2
  <2>8. SumOf(f, U) \in Int /\ SumOf(g, U) \in Int
    BY <2>5, <2>6, <2>7, SumOfInt
  <2> HIDE DEF h
  <2>9. /\ SumOf(h, T) = h[y] + SumOf(h, U)
        /\ SumOf(f, T) = f[y] + SumOf(f, U)
        /\ SumOf(g, T) = g[y] + SumOf(g, U)
    BY <2>2, <2>4, <2>5, <2>7, SumOfTake
  <2>10. QED
    BY <2>2, <2>4, <2>6, <2>7, <2>8, <2>9
<1>2. QED
  BY <1>1
=============================================================================
