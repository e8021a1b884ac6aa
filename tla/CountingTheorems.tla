-------------------------- MODULE CountingTheorems --------------------------
(***************************************************************************)
(* Facts about finite sets that the models count with: the sum of the      *)
(* values of a function over a set (SumFunctionOnSet), by which they count *)
(* bytes, and the element of a given rank in a set of numbers, by which    *)
(* they pick a target.  The induction is always on a smallest set for      *)
(* which the fact would fail.                                              *)
(***************************************************************************)
EXTENDS Integers, Functions, FiniteSetTheorems, WellFoundedInduction, TLAPS

\* The community module's definition: the sums over all subsets of S, each from
\* that of the set without the element that CHOOSE gives.
Pick(T) == CHOOSE x \in T : TRUE
AreSums(f, S, g) ==
  g = [T \in SUBSET S |-> IF T = {} THEN 0 ELSE f[Pick(T)] + g[T \ {Pick(T)}]]
Sums(f, S) == CHOOSE g : AreSums(f, S, g)

LEMMA SumIsFold ==
  ASSUME NEW f, NEW S
  PROVE  SumFunctionOnSet(f, S) = Sums(f, S)[S]
BY DEF SumFunctionOnSet, FoldFunctionOnSet, MapThenFoldSet, Sums, AreSums, Pick

\* A set of subsets of a finite set has a smallest member.
LEMMA SmallestSubset ==
  ASSUME NEW S, IsFiniteSet(S), NEW B, B \subseteq SUBSET S, B # {}
  PROVE  \E T \in B : \A U \in B : U \subseteq T => U = T
<1>1. IsWellFoundedOn(StrictSubsetOrdering(S), SUBSET S)
  BY FS_StrictSubsetOrderingWellFounded, FS_FiniteSubsetsOfFinite
<1>2. PICK T \in B : \A U \in B : <<U, T>> \notin StrictSubsetOrdering(S)
  BY <1>1, WFMin
<1>. QED  BY <1>2 DEF StrictSubsetOrdering

\* And a largest one.
LEMMA LargestSubset ==
  ASSUME NEW S, IsFiniteSet(S), NEW B, B \subseteq SUBSET S, B # {}
  PROVE  \E T \in B : \A U \in B : T \subseteq U => U = T
<1> DEFINE C == {S \ T : T \in B}
<1>1. C \subseteq SUBSET S /\ C # {}
  <2>1. PICK T \in B : TRUE
    OBVIOUS
  <2>2. S \ T \in C
    OBVIOUS
  <2>3. C \subseteq SUBSET S
    OBVIOUS
  <2>4. C # {}
    <3>. HIDE DEF C
    <3>. QED  BY <2>2
  <2>. QED  BY <2>3, <2>4
<1>2. PICK T \in C : \A U \in C : U \subseteq T => U = T
  <2>. HIDE DEF C
  <2>. QED  BY <1>1, SmallestSubset
<1>3. PICK V \in B : T = S \ V
  BY <1>2
<1>4. ASSUME NEW U \in B, V \subseteq U PROVE U = V
  <2>1. S \ U \in C /\ S \ U \subseteq T
    BY <1>3, <1>4
  <2>2. S \ U = S \ V
    BY <1>2, <1>3, <2>1
  <2>. QED  BY <2>2
<1>. QED  BY <1>4

LEMMA PickIsMember ==
  ASSUME NEW T, T # {}
  PROVE  Pick(T) \in T
BY DEF Pick

\* A set of natural numbers that is not empty has a smallest member.
LEMMA SmallestNumber ==
  ASSUME NEW B, B \subseteq Nat, B # {}
  PROVE  \E k \in B : \A m \in B : k <= m
<1> DEFINE R == {p \in Nat \X Nat : p[1] < p[2]}
<1>1. IsWellFoundedOn(R, Nat)
  BY NatLessThanWellFounded DEF OpToRel
<1>2. \A k, m \in Nat : m < k => <<m, k>> \in R
  OBVIOUS
<1>. HIDE DEF R
<1>3. PICK k \in B : \A m \in B : <<m, k>> \notin R
  BY <1>1, WFMin
<1>4. ASSUME NEW m \in B PROVE k <= m
  <2>1. ~(m < k)
    BY <1>2, <1>3
  <2>. QED  BY <2>1
<1>. QED  BY <1>4

\* And one that is bounded has a greatest.
LEMMA GreatestNumber ==
  ASSUME NEW n \in Nat, NEW B, B \subseteq 0..n, B # {}
  PROVE  \E k \in B : \A m \in B : m <= k
<1> DEFINE C == {b \in 0..n : n - b \in B}
<1>1. C \subseteq Nat /\ C # {}
  <2>1. PICK m \in B : TRUE
    OBVIOUS
  <2>2. n - m \in C
    BY <2>1
  <2>. QED  BY <2>2
<1>2. PICK c \in C : \A b \in C : c <= b
  BY <1>1, SmallestNumber
<1>3. ASSUME NEW m \in B PROVE m <= n - c
  <2>1. n - m \in C
    OBVIOUS
  <2>2. c <= n - m
    BY <1>2, <2>1
  <2>. QED  BY <2>2
<1>. QED  BY <1>2, <1>3

-----------------------------------------------------------------------------
(* The recursion is well defined. *)

Layer(S, n) == {T \in SUBSET S : Cardinality(T) <= n}
AreLayerSums(f, S, n, g) ==
  g = [T \in Layer(S, n) |-> IF T = {} THEN 0 ELSE f[Pick(T)] + g[T \ {Pick(T)}]]

\* From the sums over the sets of at most n elements, those over larger ones.
LEMMA NextLayer ==
  ASSUME NEW S, IsFiniteSet(S), NEW f, NEW n \in Nat, NEW g, AreLayerSums(f, S, n, g)
  PROVE  \E h : AreLayerSums(f, S, n + 1, h)
<1> DEFINE h == [T \in Layer(S, n + 1) |-> IF T = {} THEN 0 ELSE f[Pick(T)] + g[T \ {Pick(T)}]]
           R(T) == T \ {Pick(T)}
<1>1. ASSUME NEW T \in Layer(S, n + 1), T # {}
      PROVE  R(T) \in Layer(S, n) /\ R(T) \in Layer(S, n + 1) /\ h[R(T)] = g[R(T)]
  <2>1. IsFiniteSet(T) /\ T \subseteq S /\ Cardinality(T) <= n + 1 /\ Cardinality(T) \in Nat
    BY FS_Subset, FS_CardinalityType DEF Layer
  <2>2. Cardinality(R(T)) = Cardinality(T) - 1
    BY <1>1, <2>1, PickIsMember, FS_RemoveElement
  <2>3. R(T) \in Layer(S, n) /\ R(T) \in Layer(S, n + 1)
    BY <2>1, <2>2 DEF Layer
  <2>. QED  BY <2>3 DEF AreLayerSums
<1>2. h = [T \in Layer(S, n + 1) |-> IF T = {} THEN 0 ELSE f[Pick(T)] + h[T \ {Pick(T)}]]
  BY <1>1
<1>. HIDE DEF h
<1>. QED  BY <1>2 DEF AreLayerSums

LEMMA SumsExist ==
  ASSUME NEW S, IsFiniteSet(S), NEW f
  PROVE  AreSums(f, S, Sums(f, S))
<1> DEFINE c == Cardinality(S)
           B == {n \in 0..c : ~ \E g : AreLayerSums(f, S, n, g)}
<1>1. c \in Nat
  BY FS_CardinalityType
<1>2. Layer(S, 0) = {{}}
  <2>1. ASSUME NEW T \in Layer(S, 0) PROVE T = {}
    <3>1. IsFiniteSet(T) /\ Cardinality(T) \in Nat /\ Cardinality(T) <= 0
      BY FS_Subset, FS_CardinalityType DEF Layer
    <3>. QED  BY <3>1, FS_EmptySet
  <2>2. {} \in Layer(S, 0)
    BY FS_EmptySet DEF Layer
  <2>. QED  BY <2>1, <2>2
<1>3. 0 \notin B
  <2>1. AreLayerSums(f, S, 0, [T \in Layer(S, 0) |-> 0])
    BY <1>2 DEF AreLayerSums
  <2>. QED  BY <2>1
<1>4. B = {}
  <2>. SUFFICES ASSUME B # {} PROVE FALSE
    OBVIOUS
  <2>. B \subseteq Nat
    BY <1>1
  <2>1. PICK n \in B : \A m \in B : n <= m
    <3>. HIDE DEF B
    <3>. QED  BY SmallestNumber
  <2>2. n \in 0..c /\ n # 0 /\ n - 1 \in 0..c /\ n - 1 \notin B /\ n - 1 \in Nat
    BY <1>1, <1>3, <2>1
  <2>3. PICK g : AreLayerSums(f, S, n - 1, g)
    BY <2>2
  <2>4. (n - 1) + 1 = n
    BY <2>2
  <2>5. \E h : AreLayerSums(f, S, n, h)
    BY <2>2, <2>3, <2>4, NextLayer
  <2>. QED  BY <2>1, <2>5
<1>5. PICK g : AreLayerSums(f, S, c, g)
  <2>1. c \in 0..c
    BY <1>1
  <2>. QED  BY <1>4, <2>1
<1>6. Layer(S, c) = SUBSET S
  BY FS_Subset DEF Layer
<1>7. AreSums(f, S, g)
  BY <1>5, <1>6 DEF AreSums, AreLayerSums
<1>. QED  BY <1>7, Zenon DEF Sums

-----------------------------------------------------------------------------
(* Sums. *)

\* Whatever the set that the recursion is started from.
LEMMA SumsOfSubset ==
  ASSUME NEW S, IsFiniteSet(S), NEW f, NEW U \in SUBSET S
  PROVE  \A T \in SUBSET U : Sums(f, S)[T] = Sums(f, U)[T]
<1> DEFINE g == Sums(f, S)
           h == Sums(f, U)
           B == {T \in SUBSET U : g[T] # h[T]}
<1>1. IsFiniteSet(U) /\ U \subseteq S
  BY FS_Subset
<1>2. AreSums(f, S, g) /\ AreSums(f, U, h)
  BY <1>1, SumsExist
<1>. HIDE DEF g, h
<1>3. ASSUME B # {} PROVE FALSE
  <2>. B \subseteq SUBSET U
    OBVIOUS
  <2>1. PICK T \in B : \A V \in B : V \subseteq T => V = T
    <3>. HIDE DEF B
    <3>. QED  BY <1>1, <1>3, SmallestSubset
  <2>2. T # {}
    BY <1>2, <2>1 DEF AreSums
  <2>3. T \ {Pick(T)} \notin B
    BY <2>1, <2>2, PickIsMember
  <2>4. g[T \ {Pick(T)}] = h[T \ {Pick(T)}]
    BY <2>3
  <2>5. g[T] = f[Pick(T)] + g[T \ {Pick(T)}] /\ h[T] = f[Pick(T)] + h[T \ {Pick(T)}]
    BY <1>1, <1>2, <2>2 DEF AreSums
  <2>. QED  BY <2>1, <2>4, <2>5
<1>. QED  BY <1>3 DEF g, h

LEMMA SumOfNone ==
  ASSUME NEW f
  PROVE  SumFunctionOnSet(f, {}) = 0
<1>1. AreSums(f, {}, Sums(f, {}))
  BY SumsExist, FS_EmptySet
<1>. QED  BY <1>1, SumIsFold DEF AreSums

LEMMA SumByPick ==
  ASSUME NEW S, IsFiniteSet(S), NEW f, S # {}
  PROVE  SumFunctionOnSet(f, S) = f[Pick(S)] + SumFunctionOnSet(f, S \ {Pick(S)})
<1>1. Sums(f, S)[S] = f[Pick(S)] + Sums(f, S)[S \ {Pick(S)}]
  <2> DEFINE g == Sums(f, S)
  <2>1. AreSums(f, S, g)
    BY SumsExist
  <2>. HIDE DEF g
  <2>2. g[S] = f[Pick(S)] + g[S \ {Pick(S)}]
    BY <2>1 DEF AreSums
  <2>. QED  BY <2>2 DEF g
<1>2. Sums(f, S)[S \ {Pick(S)}] = Sums(f, S \ {Pick(S)})[S \ {Pick(S)}]
  BY SumsOfSubset
<1>. QED  BY <1>1, <1>2, SumIsFold

\* f maps the elements of S to natural numbers.
IsNatOn(f, S) == \A x \in S : f[x] \in Nat

LEMMA SumIsNat ==
  ASSUME NEW S, IsFiniteSet(S), NEW f, IsNatOn(f, S)
  PROVE  SumFunctionOnSet(f, S) \in Nat
<1> DEFINE B == {T \in SUBSET S : SumFunctionOnSet(f, T) \notin Nat}
<1>1. ASSUME B # {} PROVE FALSE
  <2>. B \subseteq SUBSET S
    OBVIOUS
  <2>1. PICK T \in B : \A V \in B : V \subseteq T => V = T
    <3>. HIDE DEF B
    <3>. QED  BY <1>1, SmallestSubset
  <2>2. T # {}
    <3>1. ASSUME T = {} PROVE FALSE
      BY <2>1, <3>1, SumOfNone
    <3>. QED  BY <3>1
  <2>3. Pick(T) \in T /\ T \ {Pick(T)} \notin B /\ IsFiniteSet(T)
    BY <2>1, <2>2, PickIsMember, FS_Subset
  <2>4. f[Pick(T)] \in Nat /\ SumFunctionOnSet(f, T \ {Pick(T)}) \in Nat
    BY <2>3 DEF IsNatOn
  <2>5. SumFunctionOnSet(f, T) = f[Pick(T)] + SumFunctionOnSet(f, T \ {Pick(T)})
    BY <2>2, <2>3, SumByPick
  <2>. QED  BY <2>1, <2>4, <2>5
<1>. QED  BY <1>1

\* Any element can be taken out of the sum.
LEMMA SumWithout ==
  ASSUME NEW S, IsFiniteSet(S), NEW f, IsNatOn(f, S), NEW x \in S
  PROVE  SumFunctionOnSet(f, S) = f[x] + SumFunctionOnSet(f, S \ {x})
<1> DEFINE Sum(T) == SumFunctionOnSet(f, T)
           B == {T \in SUBSET S : \E y \in T : Sum(T) # f[y] + Sum(T \ {y})}
<1>1. ASSUME NEW T \in SUBSET S PROVE IsFiniteSet(T) /\ Sum(T) \in Nat
  BY FS_Subset, SumIsNat DEF IsNatOn
<1>2. ASSUME NEW T \in SUBSET S, T # {} PROVE Sum(T) = f[Pick(T)] + Sum(T \ {Pick(T)})
  BY <1>1, <1>2, SumByPick
<1>. HIDE DEF Sum
<1>3. ASSUME B # {} PROVE FALSE
  <2>. B \subseteq SUBSET S
    OBVIOUS
  <2>1. PICK T \in B : \A V \in B : V \subseteq T => V = T
    <3>. HIDE DEF B
    <3>. QED  BY <1>3, SmallestSubset
  <2>2. PICK y \in T : Sum(T) # f[y] + Sum(T \ {y})
    BY <2>1
  <2> DEFINE p == Pick(T)
  <2>3. p \in T /\ T \subseteq S
    BY <2>1, PickIsMember
  <2>4. Sum(T) = f[p] + Sum(T \ {p})
    BY <1>2, <2>3
  <2>. HIDE DEF p
  <2>5. p # y
    BY <2>2, <2>4
  <2>6. Sum(T \ {p}) = f[y] + Sum((T \ {p}) \ {y})
    <3>1. T \ {p} \notin B /\ T \ {p} \in SUBSET S /\ y \in T \ {p}
      BY <2>1, <2>3, <2>5
    <3>. QED  BY <3>1
  <2>7. Sum(T \ {y}) = f[p] + Sum((T \ {y}) \ {p})
    <3>1. T \ {y} \notin B /\ T \ {y} \in SUBSET S /\ p \in T \ {y}
      BY <2>1, <2>2, <2>3, <2>5
    <3>. QED  BY <3>1
  <2>8. (T \ {p}) \ {y} = (T \ {y}) \ {p}
    OBVIOUS
  <2> DEFINE z == Sum((T \ {p}) \ {y})
  <2>9. f[p] \in Nat /\ f[y] \in Nat /\ z \in Nat
    <3>1. (T \ {p}) \ {y} \in SUBSET S /\ y \in S
      BY <2>3
    <3>. QED  BY <1>1, <2>3, <3>1 DEF IsNatOn
  <2>10. Sum(T \ {y}) = f[p] + z
    BY <2>7, <2>8
  <2>. HIDE DEF z, B
  <2>. QED  BY <2>2, <2>4, <2>6, <2>9, <2>10 DEF z
<1>. QED  BY <1>3 DEF Sum

LEMMA SumWith ==
  ASSUME NEW S, IsFiniteSet(S), NEW f, NEW x, x \notin S, IsNatOn(f, S \cup {x})
  PROVE  SumFunctionOnSet(f, S \cup {x}) = f[x] + SumFunctionOnSet(f, S)
<1>1. IsFiniteSet(S \cup {x}) /\ (S \cup {x}) \ {x} = S
  BY FS_AddElement
<1>. QED  BY <1>1, SumWithout

\* A sum depends on the values of the elements only.
LEMMA SumsAgree ==
  ASSUME NEW S, IsFiniteSet(S), NEW f, NEW g, \A x \in S : f[x] = g[x]
  PROVE  SumFunctionOnSet(f, S) = SumFunctionOnSet(g, S)
<1> DEFINE B == {T \in SUBSET S : SumFunctionOnSet(f, T) # SumFunctionOnSet(g, T)}
<1>1. ASSUME B # {} PROVE FALSE
  <2>. B \subseteq SUBSET S
    OBVIOUS
  <2>1. PICK T \in B : \A V \in B : V \subseteq T => V = T
    <3>. HIDE DEF B
    <3>. QED  BY <1>1, SmallestSubset
  <2>2. T # {}
    BY <2>1, SumOfNone
  <2>3. Pick(T) \in T /\ T \ {Pick(T)} \notin B /\ IsFiniteSet(T)
    BY <2>1, <2>2, PickIsMember, FS_Subset
  <2>. QED  BY <2>1, <2>2, <2>3, SumByPick
<1>. QED  BY <1>1

LEMMA SumOfUnion ==
  ASSUME NEW S, IsFiniteSet(S), NEW T, IsFiniteSet(T), S \cap T = {},
         NEW f, IsNatOn(f, S \cup T)
  PROVE  SumFunctionOnSet(f, S \cup T) = SumFunctionOnSet(f, S) + SumFunctionOnSet(f, T)
<1> DEFINE Sum(U) == SumFunctionOnSet(f, U)
           B == {U \in SUBSET T : Sum(S \cup U) # Sum(S) + Sum(U)}
<1>1. ASSUME NEW U \in SUBSET T
      PROVE  IsFiniteSet(U) /\ IsFiniteSet(S \cup U) /\ IsNatOn(f, S \cup U) /\ IsNatOn(f, U)
  BY FS_Subset, FS_Union DEF IsNatOn
<1>2. IsNatOn(f, S) /\ Sum(S) \in Nat
  BY SumIsNat DEF IsNatOn
<1>3. ASSUME B # {} PROVE FALSE
  <2>. B \subseteq SUBSET T
    OBVIOUS
  <2>1. PICK U \in B : \A V \in B : V \subseteq U => V = U
    <3>. HIDE DEF B
    <3>. QED  BY <1>3, SmallestSubset
  <2>2. U # {}
    <3>1. ASSUME U = {} PROVE FALSE
      <4>1. S \cup U = S
        BY <3>1
      <4>2. Sum(U) = 0 /\ Sum(S \cup U) = Sum(S)
        BY <3>1, <4>1, SumOfNone
      <4>. QED  BY <1>2, <2>1, <4>2
    <3>. QED  BY <3>1
  <2>3. PICK x \in U : TRUE
    BY <2>2
  <2>4. U \ {x} \in SUBSET T /\ U \ {x} \notin B
    BY <2>1, <2>3
  <2>5. Sum(S \cup (U \ {x})) = Sum(S) + Sum(U \ {x})
    BY <2>4
  <2>6. Sum(U) = f[x] + Sum(U \ {x}) /\ Sum(U \ {x}) \in Nat /\ f[x] \in Nat
    <3>1. Sum(U) = f[x] + Sum(U \ {x})
      <4>1. IsFiniteSet(U) /\ IsNatOn(f, U)
        BY <1>1, <2>1
      <4>. HIDE DEF B
      <4>. QED  BY <2>3, <4>1, SumWithout
    <3>2. Sum(U \ {x}) \in Nat
      BY <1>1, <2>4, SumIsNat
    <3>3. f[x] \in Nat
      BY <1>1, <2>1, <2>3 DEF IsNatOn
    <3>. QED  BY <3>1, <3>2, <3>3
  <2>7. (S \cup U) \ {x} = S \cup (U \ {x})
    BY <2>1, <2>3
  <2>8. Sum(S \cup U) = f[x] + Sum((S \cup U) \ {x})
    BY <1>1, <2>1, <2>3, SumWithout
  <2>9. Sum(S \cup U) = Sum(S) + Sum(U)
    <3>. HIDE DEF Sum
    <3>. QED  BY <1>2, <2>5, <2>6, <2>7, <2>8
  <2>. QED  BY <2>1, <2>9
<1>. QED  BY <1>3

LEMMA SumOfSubset ==
  ASSUME NEW S, IsFiniteSet(S), NEW T \in SUBSET S, NEW f, IsNatOn(f, S)
  PROVE  /\ SumFunctionOnSet(f, T) <= SumFunctionOnSet(f, S)
         /\ SumFunctionOnSet(f, S \ T) = SumFunctionOnSet(f, S) - SumFunctionOnSet(f, T)
<1>1. IsFiniteSet(T) /\ IsFiniteSet(S \ T) /\ T \cap (S \ T) = {} /\ T \cup (S \ T) = S
  BY FS_Subset
<1>2. IsNatOn(f, T) /\ IsNatOn(f, S \ T)
  BY DEF IsNatOn
<1>3. SumFunctionOnSet(f, S) = SumFunctionOnSet(f, T) + SumFunctionOnSet(f, S \ T)
  BY <1>1, SumOfUnion
<1>. QED  BY <1>1, <1>2, <1>3, SumIsNat

-----------------------------------------------------------------------------
(* Ranks. *)

\* R, a set of pairs, orders P strictly and totally.
StrictOrder(R, P) ==
  /\ \A x \in P : <<x, x>> \notin R
  /\ \A x, y, z \in P : <<x, y>> \in R /\ <<y, z>> \in R => <<x, z>> \in R
  /\ \A x, y \in P : x = y \/ <<x, y>> \in R \/ <<y, x>> \in R

HasRank(R, P, n) == \E j \in P : Cardinality({k \in P : <<k, j>> \in R}) = n

\* In a finite ordered set, one element has n others below it.
LEMMA OrderedRankExists ==
  ASSUME NEW P, IsFiniteSet(P), NEW R, StrictOrder(R, P), NEW n \in Nat, n < Cardinality(P)
  PROVE  HasRank(R, P, n)
<1> DEFINE Below(j) == {k \in P : <<k, j>> \in R}
           c == Cardinality(P)
           rank == [j \in P |-> Cardinality(Below(j))]
<1>1. c \in Nat
  BY FS_CardinalityType
<1>2. ASSUME NEW j \in P
      PROVE  IsFiniteSet(Below(j)) /\ Cardinality(Below(j)) \in 0..(c - 1)
  <2>1. Below(j) \in SUBSET P /\ j \notin Below(j) /\ Below(j) # P
    BY DEF StrictOrder
  <2>. HIDE DEF Below
  <2>2. IsFiniteSet(Below(j)) /\ Cardinality(Below(j)) <= c /\ Cardinality(Below(j)) # c
    BY <2>1, FS_Subset
  <2>3. Cardinality(Below(j)) \in Nat
    BY <2>2, FS_CardinalityType
  <2>. QED  BY <1>1, <2>2, <2>3
<1>3. ASSUME NEW j \in P, NEW k \in P, <<j, k>> \in R
      PROVE  Cardinality(Below(j)) # Cardinality(Below(k))
  <2>1. ASSUME NEW x \in Below(j) PROVE x \in Below(k)
    BY <1>3 DEF StrictOrder
  <2>2. Below(j) \in SUBSET Below(k) /\ j \in Below(k) /\ j \notin Below(j)
    <3>1. j \in Below(k) /\ j \notin Below(j)
      BY <1>3 DEF StrictOrder
    <3>. HIDE DEF Below
    <3>. QED  BY <2>1, <3>1
  <2>3. Below(j) # Below(k)
    BY <2>2
  <2>. HIDE DEF Below
  <2>. QED  BY <1>2, <2>2, <2>3, FS_Subset
<1>4. rank \in Injection(P, 0..(c - 1))
  <2>. HIDE DEF Below
  <2>1. rank \in [P -> 0..(c - 1)]
    BY <1>2
  <2>2. ASSUME NEW j \in P, NEW k \in P, rank[j] = rank[k] PROVE j = k
    BY <1>3, <2>2 DEF StrictOrder
  <2>3. DOMAIN rank = P
    OBVIOUS
  <2>. HIDE DEF rank
  <2>. QED  BY <2>1, <2>2, <2>3 DEF Injection, IsInjective
<1>5. IsFiniteSet(0..(c - 1)) /\ Cardinality(0..(c - 1)) = c
  <2>. HIDE DEF c
  <2>1. c - 1 \in Int /\ (0 > c - 1 => c = 0)
    BY <1>1
  <2>. QED  BY <1>1, <2>1, FS_Interval
<1>6. rank \in Surjection(P, 0..(c - 1))
  <2>. HIDE DEF rank, c
  <2>. QED  BY <1>4, <1>5, FS_Injection DEF c
<1>7. n \in 0..(c - 1)
  BY <1>1
<1>8. PICK j \in P : rank[j] = n
  BY <1>6, <1>7 DEF Surjection
<1>. QED  BY <1>8 DEF HasRank

\* Of the numbers in a finite set, one has n others below it.
LEMMA RankExists ==
  ASSUME NEW P, P \subseteq Nat, IsFiniteSet(P), NEW n \in Nat, n < Cardinality(P)
  PROVE  \E j \in P : Cardinality({k \in P : k < j}) = n
<1> DEFINE R == {p \in P \X P : p[1] < p[2]}
<1>1. \A k, j \in P : <<k, j>> \in R <=> k < j
  OBVIOUS
<1>2. StrictOrder(R, P)
  <2>. \A x \in P : x \in Nat
    OBVIOUS
  <2>. HIDE DEF R
  <2>. QED  BY <1>1 DEF StrictOrder
<1>3. HasRank(R, P, n)
  <2>. HIDE DEF R
  <2>. QED  BY <1>2, OrderedRankExists
<1>4. \A j \in P : {k \in P : <<k, j>> \in R} = {k \in P : k < j}
  BY <1>1
<1>. QED  BY <1>3, <1>4 DEF HasRank

-----------------------------------------------------------------------------
(* Marks. *)

\* A finite set of numbers contains those up to some mark and not the next one.
LEMMA MarkExists ==
  ASSUME NEW A, A \subseteq Nat, IsFiniteSet(A)
  PROVE  \E h \in 0..Cardinality(A) : 1..h \subseteq A /\ h + 1 \notin A
<1> DEFINE c == Cardinality(A)
           B == {h \in Nat : h + 1 \notin A}
<1>1. c \in Nat
  BY FS_CardinalityType
<1>2. ASSUME NEW h \in Nat, 1..h \subseteq A PROVE h <= c
  <2>1. Cardinality(1..h) = h
    BY FS_Interval
  <2>. QED  BY <1>2, <2>1, FS_Subset
<1>3. B # {}
  <2>. SUFFICES ASSUME B = {} PROVE FALSE
    OBVIOUS
  <2>1. \A h \in Nat : h + 1 \in A
    OBVIOUS
  <2>2. ASSUME NEW n \in 1..(c + 1) PROVE n \in A
    <3>1. n - 1 \in Nat /\ (n - 1) + 1 = n
      BY <1>1
    <3>. QED  BY <2>1, <3>1
  <2>. QED  BY <1>1, <1>2, <2>2
<1>4. PICK h \in B : \A m \in B : h <= m
  <2>1. B \subseteq Nat
    OBVIOUS
  <2>. HIDE DEF B
  <2>. QED  BY <1>3, <2>1, SmallestNumber
<1>5. 1..h \subseteq A
  <2>1. ASSUME NEW n \in 1..h PROVE n \in A
    <3>1. n - 1 \in Nat /\ n - 1 < h /\ (n - 1) + 1 = n
      BY <1>4
    <3>2. n - 1 \notin B
      BY <1>4, <3>1
    <3>. QED  BY <3>1, <3>2
  <2>. QED  BY <2>1
<1>6. h \in 0..c
  BY <1>1, <1>2, <1>4, <1>5
<1>. QED  BY <1>4, <1>5, <1>6
=============================================================================
