------------------------------- MODULE Lemmas -------------------------------
(***************************************************************************)
(* Facts about sets and numbers that the proofs about several components   *)
(* rest on: minima, which stand in for induction; parity; powers of two.   *)
(***************************************************************************)
EXTENDS Sorting, Functions, FiniteSetTheorems, TLAPS

-----------------------------------------------------------------------------
(* Minima *)

(* Every set of naturals has a smallest element. *)
LEMMA LeastNatural ==
  ASSUME NEW S \in SUBSET Nat, S # {}
  PROVE  \E x \in S : \A y \in S : x <= y
<1> DEFINE less == {ss \in Nat \X Nat : ss[1] < ss[2]}
<1>1. IsWellFoundedOn(less, Nat)
  BY NatLessThanWellFounded DEF OpToRel
<1>2. \A x, y \in Nat : x < y => <<x, y>> \in less
  OBVIOUS
<1> HIDE DEF less
<1>3. PICK x \in S : \A y \in S : <<y, x>> \notin less
  BY <1>1, WFMin
<1>4. \A y \in S : x <= y
  <2> TAKE y \in S
  <2>1. x \in Nat /\ y \in Nat /\ ~ (y < x)
    BY <1>2, <1>3
  <2>2. QED
    BY <2>1
<1>5. QED
  BY <1>4

(* A set of integers with an upper bound has a largest element. *)
LEMMA GreatestBelow ==
  ASSUME NEW S \in SUBSET Int, S # {}, NEW n \in Int, \A x \in S : x <= n
  PROVE  \E x \in S : \A y \in S : x >= y
<1> DEFINE below == {n - x : x \in S}
<1>1. below \in SUBSET Nat /\ below # {}
  <2>1. \A x \in S : n - x \in Nat
    <3> TAKE x \in S
    <3>1. x \in Int /\ x <= n
      OBVIOUS
    <3>2. QED
      BY <3>1
  <2>2. QED
    BY <2>1
<1>2. PICK d \in below : \A e \in below : d <= e
  BY <1>1, LeastNatural
<1>3. PICK x \in S : d = n - x
  OBVIOUS
<1>4. \A y \in S : x >= y
  <2> TAKE y \in S
  <2>1. n - x <= n - y
    BY <1>2, <1>3
  <2>2. x \in Int /\ y \in Int
    OBVIOUS
  <2>3. QED
    BY <2>1, <2>2
<1>5. QED
  BY <1>4

(* A set of subsets of a finite set has one that contains no other. *)
LEMMA MinimalSubset ==
  ASSUME NEW S, IsFiniteSet(S), NEW T \in SUBSET (SUBSET S), T # {}
  PROVE  \E x \in T : \A y \in T : y \subseteq x => y = x
<1> DEFINE less == StrictSubsetOrdering(S)
<1>1. IsWellFoundedOn(less, FiniteSubsetsOf(S)) /\ FiniteSubsetsOf(S) = SUBSET S
  BY FS_StrictSubsetOrderingWellFounded, FS_FiniteSubsetsOfFinite
<1>2. \A x, y \in SUBSET S : x \subseteq y /\ x # y => <<x, y>> \in less
  BY DEF StrictSubsetOrdering
<1> HIDE DEF less
<1>3. \E x \in T : \A y \in T : <<y, x>> \notin less
  BY <1>1, WFMin
<1>4. QED
  BY <1>2, <1>3

-----------------------------------------------------------------------------
(* Cardinalities *)

LEMMA IntervalSize ==
  ASSUME NEW n \in Nat
  PROVE  IsFiniteSet(1 .. n) /\ Cardinality(1 .. n) = n
<1>1. /\ IsFiniteSet(1 .. n)
      /\ Cardinality(1 .. n) = IF 1 > n THEN 0 ELSE n - 1 + 1
  BY FS_Interval, 1 \in Int, n \in Int
<1>2. QED
  BY <1>1

LEMMA DisjointSize ==
  ASSUME NEW S, NEW T, IsFiniteSet(S), IsFiniteSet(T), S \cap T = {}
  PROVE  /\ IsFiniteSet(S \cup T) /\ Cardinality(S) \in Nat /\ Cardinality(T) \in Nat
         /\ Cardinality(S \cup T) = Cardinality(S) + Cardinality(T)
<1>1. Cardinality(S) \in Nat /\ Cardinality(T) \in Nat /\ Cardinality({}) = 0
  BY FS_CardinalityType, FS_EmptySet
<1>2. /\ IsFiniteSet(S \cup T)
      /\ Cardinality(S \cup T) = Cardinality(S) + Cardinality(T) - Cardinality({})
  BY FS_Union
<1>3. QED
  BY <1>1, <1>2

(* An enumeration without repetitions, as long as a set is large, covers   *)
(* it; and it has as many elements as indices.                             *)
LEMMA EnumerationCovers ==
  ASSUME NEW n \in Nat, NEW S, NEW t, t \in [1 .. n -> S],
         \A i, j \in 1 .. n : i < j => t[i] # t[j]
  PROVE  /\ IsFiniteSet(S) /\ Cardinality(S) = n => Range(t) = S
         /\ Cardinality(Range(t)) = n
<1>1. IsFiniteSet(1 .. n) /\ Cardinality(1 .. n) = n
  BY IntervalSize
<1>2. \A i, j \in 1 .. n : t[i] = t[j] => i = j
  <2> SUFFICES ASSUME NEW i \in 1 .. n, NEW j \in 1 .. n, t[i] = t[j]
               PROVE  i = j
    OBVIOUS
  <2>1. i < j \/ j < i \/ i = j
    OBVIOUS
  <2>2. QED
    BY <2>1
<1> DEFINE R == Range(t)
<1>3. DOMAIN t = 1 .. n /\ t \in [1 .. n -> R] /\ \A x \in R : \E i \in 1 .. n : x = t[i]
  BY DEF Range
<1>4. IsInjective(t)
  BY <1>2, <1>3 DEF IsInjective
<1>5. Cardinality(R) = n
  <2>1. t \in Injection(1 .. n, R) /\ t \in Surjection(1 .. n, R)
    BY <1>3, <1>4 DEF Injection, Surjection
  <2>2. ExistsBijection(1 .. n, R)
    BY <2>1 DEF ExistsBijection, Bijection
  <2> HIDE DEF R
  <2>3. QED
    BY <1>1, <2>2, FS_Bijection
<1>6. ASSUME IsFiniteSet(S), Cardinality(S) = n
      PROVE  R = S
  <2>1. t \in Injection(1 .. n, S)
    BY <1>3, <1>4 DEF Injection
  <2>2. t \in Surjection(1 .. n, S)
    BY <1>1, <1>6, <2>1, FS_Injection
  <2>3. QED
    BY <2>2 DEF Surjection, Range
<1>7. QED
  BY <1>5, <1>6

(* The parity of a symmetric difference *)
LEMMA ParityOfDifference ==
  ASSUME NEW S, NEW T, IsFiniteSet(S), IsFiniteSet(T)
  PROVE  /\ IsFiniteSet((S \ T) \cup (T \ S))
         /\ Cardinality((S \ T) \cup (T \ S)) % 2 = (Cardinality(S) + Cardinality(T)) % 2
<1>1. /\ IsFiniteSet(S \ T) /\ IsFiniteSet(T \ S) /\ IsFiniteSet(S \cap T)
      /\ (S \ T) \cap (T \ S) = {}
  BY FS_Difference, FS_Intersection
<1>2. /\ IsFiniteSet((S \ T) \cup (T \ S))
      /\ Cardinality((S \ T) \cup (T \ S)) = Cardinality(S \ T) + Cardinality(T \ S)
      /\ Cardinality(S \ T) \in Nat /\ Cardinality(T \ S) \in Nat
  BY <1>1, DisjointSize
<1>3. Cardinality(S) = Cardinality(S \ T) + Cardinality(S \cap T) /\ Cardinality(S \cap T) \in Nat
  <2>1. S = (S \ T) \cup (S \cap T) /\ (S \ T) \cap (S \cap T) = {}
    OBVIOUS
  <2>2. QED
    BY <1>1, <2>1, DisjointSize
<1>4. Cardinality(T) = Cardinality(T \ S) + Cardinality(S \cap T)
  <2>1. T = (T \ S) \cup (S \cap T) /\ (T \ S) \cap (S \cap T) = {}
    OBVIOUS
  <2>2. QED
    BY <1>1, <2>1, DisjointSize
<1>5. \A x, y, z \in Nat : (x + y) % 2 = ((x + z) + (y + z)) % 2
  OBVIOUS
<1>6. QED
  BY <1>2, <1>3, <1>4, <1>5

-----------------------------------------------------------------------------
(* Sorting *)

LEMMA ImageFinite ==
  ASSUME NEW g, NEW I, IsFiniteSet(I)
  PROVE  IsFiniteSet({g[i] : i \in I})
<1>1. [i \in I |-> g[i]] \in Surjection(I, {g[i] : i \in I})
  BY DEF Surjection
<1>2. QED
  BY <1>1, FS_Surjection

(* A strict order of a finite set, given by the elements after each, ends. *)
LEMMA LastOfOrder ==
  ASSUME NEW S, IsFiniteSet(S), S # {}, NEW after, after \in [S -> SUBSET S],
         \A x \in S : x \notin after[x],
         \A x \in S : \A y \in after[x] : after[y] \subseteq after[x]
  PROVE  \E x \in S : after[x] = {}
<1> DEFINE rests == {after[x] : x \in S}
<1>1. rests \in SUBSET (SUBSET S) /\ rests # {}
  OBVIOUS
<1>2. PICK A \in rests : \A B \in rests : B \subseteq A => B = A
  <2> HIDE DEF rests
  <2>1. QED
    BY <1>1, MinimalSubset
<1>3. PICK x \in S : A = after[x]
  OBVIOUS
<1>4. ASSUME NEW y \in after[x]
      PROVE  FALSE
  BY <1>2, <1>3
<1>5. QED
  BY <1>4

LEMMA LargestOfFinite ==
  ASSUME NEW S, S \subseteq Int, IsFiniteSet(S), S # {}
  PROVE  \E x \in S : \A y \in S : y <= x
<1> DEFINE after == [x \in S |-> {y \in S : y > x}]
<1>1. after \in [S -> SUBSET S] /\ \A x \in S : x \notin after[x]
  OBVIOUS
<1>2. \A x \in S : \A y \in after[x] : after[y] \subseteq after[x]
  <2>1. \A x, y, z \in Int : z > y /\ y > x => z > x
    OBVIOUS
  <2>2. \A x, y, z \in S : z > y /\ y > x => z > x
    BY <2>1
  <2>3. QED
    BY <2>2, Zenon
<1>3. PICK x \in S : after[x] = {}
  <2> HIDE DEF after
  <2>1. QED
    BY <1>1, <1>2, LastOfOrder
<1>4. QED
  BY <1>3

LEMMA SmallestOfFinite ==
  ASSUME NEW S, S \subseteq Int, IsFiniteSet(S), S # {}
  PROVE  \E x \in S : \A y \in S : x <= y
<1> DEFINE after == [x \in S |-> {y \in S : y < x}]
<1>1. after \in [S -> SUBSET S] /\ \A x \in S : x \notin after[x]
  OBVIOUS
<1>2. \A x \in S : \A y \in after[x] : after[y] \subseteq after[x]
  <2>1. \A x, y, z \in Int : z < y /\ y < x => z < x
    OBVIOUS
  <2>2. \A x, y, z \in S : z < y /\ y < x => z < x
    BY <2>1
  <2>3. QED
    BY <2>2, Zenon
<1>3. PICK x \in S : after[x] = {}
  <2> HIDE DEF after
  <2>1. QED
    BY <1>1, <1>2, LastOfOrder
<1>4. QED
  BY <1>3

HasRank(v, k, g, I) ==
  /\ v \in {g[i] : i \in I}
  /\ Cardinality({i \in I : g[i] < v}) < k
  /\ Cardinality({i \in I : g[i] <= v}) >= k

(* The number that sort puts at k is the only one with fewer than k        *)
(* smaller ones and at least k that are not larger.                        *)
LEMMA SortedAt ==
  ASSUME NEW g, NEW I, IsFiniteSet(I), \A i \in I : g[i] \in Int,
         NEW k \in 1 .. Cardinality(I)
  PROVE  HasRank(SortedPart(g, I)[k], k, g, I)
<1> DEFINE values == {g[i] : i \in I}
           upTo(w) == {i \in I : g[i] <= w}
           below(w) == {i \in I : g[i] < w}
           enough == {w \in values : Cardinality(upTo(w)) >= k}
<1> DEFINE v == SortedPart(g, I)[k]
<1>0. values \subseteq Int /\ IsFiniteSet(values) /\ Cardinality(I) \in Nat
  BY ImageFinite, FS_CardinalityType
<1>1. \A w : /\ IsFiniteSet(upTo(w)) /\ IsFiniteSet(below(w))
             /\ Cardinality(upTo(w)) \in Nat /\ Cardinality(below(w)) \in Nat
  BY FS_Subset, FS_CardinalityType
<1>2. enough # {}
  <2>1. I # {}
    BY FS_EmptySet
  <2>2. values # {}
    BY <2>1
  <2>3. PICK u \in values : \A w \in values : w <= u
    <3> HIDE DEF values
    <3>1. QED
      BY <1>0, <2>2, LargestOfFinite
  <2>4. upTo(u) = I
    BY <2>3
  <2>5. u \in enough
    BY <1>0, <2>4
  <2>6. QED
    BY <2>5
<1>3. enough \subseteq Int /\ IsFiniteSet(enough)
  <2>1. enough \subseteq values
    OBVIOUS
  <2> HIDE DEF enough, values
  <2>2. QED
    BY <1>0, <2>1, FS_Subset
<1>4. v \in enough /\ \A w \in enough : v <= w
  <2>1. v = Min(enough)
    BY DEF SortedPart
  <2> HIDE DEF enough
  <2>2. \E x \in enough : \A w \in enough : x <= w
    BY <1>2, <1>3, SmallestOfFinite
  <2>3. QED
    BY <2>1, <2>2 DEF Min
<1> HIDE DEF v
<1>5. Cardinality(below(v)) < k
  <2>1. CASE below(v) = {}
    BY <2>1, FS_EmptySet
  <2>2. CASE below(v) # {}
    <3> DEFINE smaller == {g[i] : i \in below(v)}
    <3>1. smaller \subseteq Int /\ smaller # {} /\ IsFiniteSet(smaller)
      <4>1. IsFiniteSet(smaller)
        <5> HIDE DEF below
        <5>1. QED
          BY <1>1, ImageFinite
      <4>2. QED
        BY <2>2, <4>1
    <3>2. PICK w \in smaller : \A x \in smaller : x <= w
      <4> HIDE DEF smaller
      <4>1. QED
        BY <3>1, LargestOfFinite
    <3>3. w \in values /\ w < v /\ v \in Int /\ w \in Int
      BY <1>3, <1>4
    <3>4. below(v) = upTo(w)
      BY <3>2, <3>3
    <3>5. ~ (v <= w)
      BY <3>3
    <3>6. w \notin enough
      BY <1>4, <3>5
    <3>7. ~ (Cardinality(upTo(w)) >= k)
      BY <3>3, <3>6
    <3>8. Cardinality(upTo(w)) \in Nat
      BY <1>1
    <3> HIDE DEF upTo, below
    <3>9. QED
      BY <3>4, <3>7, <3>8
  <2>3. QED
    BY <2>1, <2>2
<1>6. v \in values /\ Cardinality(below(v)) < k /\ Cardinality(upTo(v)) >= k
  BY <1>4, <1>5
<1>7. HasRank(v, k, g, I)
  BY <1>6 DEF HasRank
<1>8. QED
  BY <1>7 DEF v

LEMMA SortedAtIsUnique ==
  ASSUME NEW g, NEW I, IsFiniteSet(I), \A i \in I : g[i] \in Int,
         NEW k \in 1 .. Cardinality(I), NEW v \in {g[i] : i \in I},
         Cardinality({i \in I : g[i] < v}) < k,
         Cardinality({i \in I : g[i] <= v}) >= k
  PROVE  SortedPart(g, I)[k] = v
<1> DEFINE upTo(x) == {i \in I : g[i] <= x}
           below(x) == {i \in I : g[i] < x}
           r == SortedPart(g, I)[k]
<1>1. r \in {g[i] : i \in I} /\ Cardinality(below(r)) < k /\ Cardinality(upTo(r)) >= k
  <2>1. HasRank(r, k, g, I)
    BY SortedAt
  <2> HIDE DEF r
  <2>2. QED
    BY <2>1 DEF HasRank
<1>2. v \in Int /\ r \in Int
  BY <1>1
<1> HIDE DEF r
<1>3. \A x : /\ IsFiniteSet(upTo(x)) /\ IsFiniteSet(below(x))
             /\ Cardinality(upTo(x)) \in Nat /\ Cardinality(below(x)) \in Nat
  BY FS_Subset, FS_CardinalityType
<1>4. \A x, y \in Int : x < y => Cardinality(upTo(x)) <= Cardinality(below(y))
  <2> SUFFICES ASSUME NEW x \in Int, NEW y \in Int, x < y
               PROVE  Cardinality(upTo(x)) <= Cardinality(below(y))
    OBVIOUS
  <2>1. upTo(x) \subseteq below(y)
    OBVIOUS
  <2> HIDE DEF upTo, below
  <2>2. QED
    BY <1>3, <2>1, FS_Subset
<1>5. k \in Int
  OBVIOUS
<1>6. Cardinality(below(v)) < k /\ Cardinality(upTo(v)) >= k
  OBVIOUS
<1> HIDE DEF upTo, below
<1>7. QED
  BY <1>1, <1>2, <1>3, <1>4, <1>5, <1>6 DEF r

(* Among distinct numbers each has one rank. *)
LEMMA RankIsUnique ==
  ASSUME NEW g, NEW I, IsFiniteSet(I), \A i \in I : g[i] \in Int,
         \A i, j \in I : g[i] = g[j] => i = j,
         NEW v, NEW k \in Nat, NEW l \in Nat, HasRank(v, k, g, I), HasRank(v, l, g, I)
  PROVE  k = l
<1> DEFINE below == {i \in I : g[i] < v}
           upTo == {i \in I : g[i] <= v}
<1>1. PICK m \in I : v = g[m]
  BY DEF HasRank
<1>2. upTo = below \cup {m} /\ m \notin below
  <2>1. v \in Int
    BY <1>1
  <2>2. \A i \in I : g[i] <= v <=> g[i] < v \/ i = m
    BY <1>1, <2>1
  <2>3. ~ (v < v)
    BY <2>1
  <2>4. QED
    BY <1>1, <2>2, <2>3, Zenon
<1>3. IsFiniteSet(below) /\ Cardinality(below) \in Nat
  BY FS_Subset, FS_CardinalityType
<1>4. Cardinality(upTo) = Cardinality(below) + 1
  <2> HIDE DEF below, upTo
  <2>1. QED
    BY <1>2, <1>3, FS_AddElement
<1>5. Cardinality(below) < k /\ Cardinality(upTo) >= k
  BY DEF HasRank
<1>6. Cardinality(below) < l /\ Cardinality(upTo) >= l
  BY DEF HasRank
<1> HIDE DEF below, upTo
<1>7. QED
  BY <1>3, <1>4, <1>5, <1>6

-----------------------------------------------------------------------------
(* Sums.  The sum of naturals f[x] is the number of units <<x, n>>, which  *)
(* turns what is known of cardinalities into facts about sums.             *)

Units(f, S) == UNION {{x} \X (1 .. f[x]) : x \in S}

SumsBy(f, S, sum) ==
  sum = [T \in SUBSET S |->
           IF T = {} THEN 0
           ELSE f[CHOOSE x \in T : TRUE] + sum[T \ {CHOOSE x \in T : TRUE}]]

LEMMA UnitsOfOne ==
  ASSUME NEW n \in Nat, NEW x
  PROVE  IsFiniteSet({x} \X (1 .. n)) /\ Cardinality({x} \X (1 .. n)) = n
<1>1. IsFiniteSet({x}) /\ Cardinality({x}) = 1
  BY FS_Singleton
<1>2. IsFiniteSet(1 .. n) /\ Cardinality(1 .. n) = n
  BY IntervalSize
<1>3. /\ IsFiniteSet({x} \X (1 .. n))
      /\ Cardinality({x} \X (1 .. n)) = Cardinality({x}) * Cardinality(1 .. n)
  BY <1>1, <1>2, FS_Product
<1>4. QED
  BY <1>1, <1>2, <1>3

LEMMA UnitsFinite ==
  ASSUME NEW f, NEW S, IsFiniteSet(S), \A x \in S : f[x] \in Nat
  PROVE  IsFiniteSet(Units(f, S)) /\ Cardinality(Units(f, S)) \in Nat
<1>1. IsFiniteSet({{x} \X (1 .. f[x]) : x \in S})
  <2> DEFINE column == [x \in S |-> {x} \X (1 .. f[x])]
  <2>1. {{x} \X (1 .. f[x]) : x \in S} = {column[x] : x \in S}
    OBVIOUS
  <2> HIDE DEF column
  <2>2. QED
    BY <2>1, ImageFinite
<1>2. \A x \in S : IsFiniteSet({x} \X (1 .. f[x]))
  BY UnitsOfOne
<1>3. IsFiniteSet(Units(f, S))
  BY <1>1, <1>2, FS_UNION DEF Units
<1>4. QED
  BY <1>3, FS_CardinalityType

LEMMA UnitsWithout ==
  ASSUME NEW f, NEW S, IsFiniteSet(S), \A x \in S : f[x] \in Nat, NEW x \in S
  PROVE  Cardinality(Units(f, S)) = f[x] + Cardinality(Units(f, S \ {x}))
<1>1. IsFiniteSet({x} \X (1 .. f[x])) /\ Cardinality({x} \X (1 .. f[x])) = f[x]
  BY UnitsOfOne
<1>2. IsFiniteSet(S \ {x}) /\ \A y \in S \ {x} : f[y] \in Nat
  BY FS_Subset
<1>3. IsFiniteSet(Units(f, S \ {x}))
  BY <1>2, UnitsFinite
<1>4. Units(f, S) = ({x} \X (1 .. f[x])) \cup Units(f, S \ {x})
  BY DEF Units
<1>5. ({x} \X (1 .. f[x])) \cap Units(f, S \ {x}) = {}
  BY DEF Units
<1>6. QED
  BY <1>1, <1>3, <1>4, <1>5, DisjointSize

LEMMA SumIsUnits ==
  ASSUME NEW f, NEW S, IsFiniteSet(S), \A x \in S : f[x] \in Nat
  PROVE  SumFunctionOnSet(f, S) = Cardinality(Units(f, S))
<1> DEFINE units == [T \in SUBSET S |-> Cardinality(Units(f, T))]
           sum == CHOOSE g : SumsBy(f, S, g)
           wrong == {T \in SUBSET S : sum[T] # units[T]}
           some(T) == CHOOSE x \in T : TRUE
<1>1. SumFunctionOnSet(f, S) = sum[S]
  BY DEF SumsBy, SumFunctionOnSet, FoldFunctionOnSet, MapThenFoldSet
<1>2. units[{}] = 0
  BY FS_EmptySet DEF Units
<1>3. \A T \in SUBSET S : T # {} => some(T) \in T /\ units[T] = f[some(T)] + units[T \ {some(T)}]
  <2> SUFFICES ASSUME NEW T \in SUBSET S, T # {}
               PROVE  some(T) \in T /\ units[T] = f[some(T)] + units[T \ {some(T)}]
    OBVIOUS
  <2>1. some(T) \in T
    OBVIOUS
  <2>2. IsFiniteSet(T) /\ \A x \in T : f[x] \in Nat
    BY FS_Subset
  <2>3. Cardinality(Units(f, T)) = f[some(T)] + Cardinality(Units(f, T \ {some(T)}))
    <3> HIDE DEF some
    <3>1. QED
      BY <2>1, <2>2, UnitsWithout
  <2>4. QED
    BY <2>1, <2>3
<1>4. SumsBy(f, S, units)
  <2>1. units = [T \in SUBSET S |-> IF T = {} THEN 0 ELSE f[some(T)] + units[T \ {some(T)}]]
    <3>1. \A T \in SUBSET S :
            units[T] = IF T = {} THEN 0 ELSE f[some(T)] + units[T \ {some(T)}]
      BY <1>2, <1>3
    <3>2. units = [T \in SUBSET S |-> units[T]]
      OBVIOUS
    <3> HIDE DEF units, some
    <3>3. QED
      BY <3>1, <3>2
  <2>2. QED
    BY <2>1 DEF SumsBy
<1> HIDE DEF units
<1>5. SumsBy(f, S, sum)
  BY <1>4
<1> HIDE DEF sum
<1>6. ASSUME wrong # {}
      PROVE  FALSE
  <2>1. PICK T \in wrong : \A R \in wrong : R \subseteq T => R = T
    <3>1. wrong \in SUBSET (SUBSET S)
      OBVIOUS
    <3> HIDE DEF wrong
    <3>2. QED
      BY <1>6, <3>1, MinimalSubset
  <2>2. T # {}
    BY <1>2, <1>5 DEF SumsBy
  <2>3. some(T) \in T /\ units[T] = f[some(T)] + units[T \ {some(T)}]
    BY <1>3, <2>2
  <2>4. sum[T] = f[some(T)] + sum[T \ {some(T)}]
    BY <1>5, <2>2 DEF SumsBy
  <2>5. T \ {some(T)} \notin wrong
    BY <2>1, <2>3
  <2>6. QED
    BY <2>3, <2>4, <2>5
<1>7. QED
  BY <1>1, <1>6 DEF units

(* A sum of naturals grows with the set, and only by elements that count. *)
LEMMA SumGrows ==
  ASSUME NEW f, NEW S, IsFiniteSet(S), \A x \in S : f[x] \in Nat,
         NEW T, T \subseteq S
  PROVE  /\ SumFunctionOnSet(f, S) \in Nat /\ SumFunctionOnSet(f, T) \in Nat
         /\ SumFunctionOnSet(f, T) <= SumFunctionOnSet(f, S)
<1>1. IsFiniteSet(T) /\ \A x \in T : f[x] \in Nat
  BY FS_Subset
<1>2. /\ IsFiniteSet(Units(f, S)) /\ Cardinality(Units(f, S)) \in Nat
      /\ Cardinality(Units(f, T)) \in Nat
  BY <1>1, UnitsFinite
<1>3. Units(f, T) \subseteq Units(f, S)
  BY DEF Units
<1>4. Cardinality(Units(f, T)) <= Cardinality(Units(f, S))
  BY <1>2, <1>3, FS_Subset
<1>5. QED
  BY <1>1, <1>2, <1>4, SumIsUnits

LEMMA SumOfParts ==
  ASSUME NEW f, NEW S, NEW T, IsFiniteSet(S), IsFiniteSet(T), S \cap T = {},
         \A x \in S \cup T : f[x] \in Nat
  PROVE  /\ SumFunctionOnSet(f, S) \in Nat /\ SumFunctionOnSet(f, T) \in Nat
         /\ SumFunctionOnSet(f, S \cup T) = SumFunctionOnSet(f, S) + SumFunctionOnSet(f, T)
<1>1. /\ IsFiniteSet(Units(f, S)) /\ Cardinality(Units(f, S)) \in Nat
      /\ IsFiniteSet(Units(f, T)) /\ Cardinality(Units(f, T)) \in Nat
  BY UnitsFinite
<1>2. Units(f, S \cup T) = Units(f, S) \cup Units(f, T) /\ Units(f, S) \cap Units(f, T) = {}
  BY DEF Units
<1>3. Cardinality(Units(f, S \cup T)) = Cardinality(Units(f, S)) + Cardinality(Units(f, T))
  BY <1>1, <1>2, DisjointSize
<1>4. IsFiniteSet(S \cup T)
  BY FS_Union
<1>5. /\ SumFunctionOnSet(f, S) = Cardinality(Units(f, S))
      /\ SumFunctionOnSet(f, T) = Cardinality(Units(f, T))
  BY SumIsUnits
<1>6. SumFunctionOnSet(f, S \cup T) = Cardinality(Units(f, S \cup T))
  BY <1>4, SumIsUnits
<1>7. QED
  BY <1>1, <1>3, <1>5, <1>6

LEMMA SumOfOne ==
  ASSUME NEW f, NEW x, f[x] \in Nat
  PROVE  SumFunctionOnSet(f, {x}) = f[x]
<1>1. Units(f, {x}) = {x} \X (1 .. f[x])
  BY DEF Units
<1>2. IsFiniteSet({x})
  BY FS_Singleton
<1>3. SumFunctionOnSet(f, {x}) = Cardinality(Units(f, {x}))
  BY <1>2, SumIsUnits
<1>4. QED
  BY <1>1, <1>3, UnitsOfOne

LEMMA SumOfNone ==
  ASSUME NEW f
  PROVE  SumFunctionOnSet(f, {}) = 0
<1>1. Units(f, {}) = {}
  BY DEF Units
<1>2. IsFiniteSet({}) /\ Cardinality({}) = 0
  BY FS_EmptySet
<1>3. SumFunctionOnSet(f, {}) = Cardinality(Units(f, {}))
  BY <1>2, SumIsUnits
<1>4. QED
  BY <1>1, <1>2, <1>3

-----------------------------------------------------------------------------
(* Powers of two, of which the provers know that 2^n is the number of      *)
(* subsets of a set of n elements                                          *)

LEMMA PowerDoubles ==
  ASSUME NEW n \in Nat
  PROVE  2^n \in Nat \ {0} /\ 2^(n + 1) = 2 * 2^n
<1> DEFINE S == 1 .. n
           x == n + 1
           T == 1 .. x
           with == {X \cup {x} : X \in SUBSET S}
           add == [X \in SUBSET S |-> X \cup {x}]
<1>1. IsFiniteSet(S) /\ Cardinality(S) = n /\ IsFiniteSet(T) /\ Cardinality(T) = x
  BY IntervalSize
<1>2. x \notin S /\ T = S \cup {x}
  OBVIOUS
<1> HIDE DEF S, T, x
<1>3. /\ IsFiniteSet(SUBSET S) /\ Cardinality(SUBSET S) = 2^n
      /\ IsFiniteSet(SUBSET T) /\ Cardinality(SUBSET T) = 2^x
  BY <1>1, FS_SUBSET
<1>4. SUBSET T = (SUBSET S) \cup with /\ (SUBSET S) \cap with = {}
  <2>1. ASSUME NEW Y \in SUBSET T
        PROVE  Y \in (SUBSET S) \cup with
    <3>1. CASE x \in Y
      <4>1. Y \ {x} \in SUBSET S /\ Y = (Y \ {x}) \cup {x}
        BY <1>2, <3>1
      <4>2. QED
        BY <4>1
    <3>2. CASE x \notin Y
      BY <1>2, <3>2
    <3>3. QED
      BY <3>1, <3>2
  <2>2. QED
    BY <1>2, <2>1
<1>5. IsFiniteSet(with) /\ Cardinality(with) = Cardinality(SUBSET S)
  <2>1. \A X, Y \in SUBSET S : X \cup {x} = Y \cup {x} => X = Y
    BY <1>2
  <2>2. add \in Bijection(SUBSET S, with)
    <3>1. add \in Injection(SUBSET S, with)
      <4>1. DOMAIN add = SUBSET S /\ add \in [SUBSET S -> with]
        OBVIOUS
      <4>2. \A X \in SUBSET S : add[X] = X \cup {x}
        OBVIOUS
      <4> HIDE DEF add, with
      <4>3. IsInjective(add)
        BY <2>1, <4>1, <4>2, Zenon DEF IsInjective
      <4>4. QED
        BY <4>1, <4>3 DEF Injection
    <3>2. add \in Surjection(SUBSET S, with)
      BY DEF Surjection
    <3>3. QED
      BY <3>1, <3>2 DEF Bijection
  <2> HIDE DEF add, with
  <2>3. QED
    BY <1>3, <2>2, FS_Bijection DEF ExistsBijection
<1>6. Cardinality(SUBSET T) = Cardinality(SUBSET S) + Cardinality(with)
  BY <1>3, <1>4, <1>5, DisjointSize
<1>7. Cardinality(SUBSET S) \in Nat /\ Cardinality(SUBSET S) # 0
  <2>1. {} \in SUBSET S
    OBVIOUS
  <2>2. QED
    BY <1>3, <2>1, FS_CardinalityType, FS_EmptySet
<1>8. QED
  BY <1>3, <1>5, <1>6, <1>7 DEF x

IsPower(n) == \E i \in Nat : n = 2^i

LEMMA PowerAbove ==
  ASSUME NEW n \in Nat
  PROVE  n < 2^n
<1> DEFINE wrong == {m \in Nat : ~ (m < 2^m)}
<1>1. ASSUME wrong # {}
      PROVE  FALSE
  <2>1. PICK m \in wrong : \A l \in wrong : m <= l
    BY <1>1, LeastNatural
  <2>2. m # 0
    <3> SUFFICES ASSUME m = 0
                 PROVE  FALSE
      OBVIOUS
    <3>1. 2^m = 1
      OBVIOUS
    <3>2. ~ (m < 2^m)
      BY <2>1
    <3>3. QED
      BY <3>1, <3>2
  <2> DEFINE l == m - 1
  <2>3. m \in Nat /\ l \in Nat /\ m = l + 1 /\ l \notin wrong
    BY <2>1, <2>2
  <2>4. l < 2^l
    BY <2>3
  <2>5. 2^l \in Nat /\ 2^m = 2 * 2^l
    BY <2>3, PowerDoubles
  <2>6. ~ (m < 2^m)
    BY <2>1
  <2> HIDE DEF l, wrong
  <2>7. QED
    BY <2>3, <2>4, <2>5, <2>6
<1>2. QED
  BY <1>1

(* A remainder of 0 means that there is a quotient. *)
LEMMA RemainderIs ==
  ASSUME NEW a \in Nat, NEW b \in Nat \ {0}
  PROVE  a % b = 0 <=> \E q \in Nat : a = q * b
<1>1. ASSUME a % b = 0 PROVE \E q \in Nat : a = q * b
  <2>1. a = b * (a \div b) + (a % b) /\ a \div b \in Int
    OBVIOUS
  <2>2. a = (a \div b) * b
    BY <1>1, <2>1
  <2>3. a \div b \in Nat
    OBVIOUS
  <2>4. QED
    BY <2>2, <2>3
<1>2. ASSUME NEW q \in Nat, a = q * b PROVE a % b = 0
  <2> DEFINE d == a \div b
  <2>1. a = b * d + (a % b) /\ d \in Int /\ a % b \in 0 .. b - 1
    OBVIOUS
  <2> HIDE DEF d
  <2>2. (q - d) * b = a % b
    BY <1>2, <2>1
  <2>3. q - d <= 0 => (q - d) * b <= 0
    BY <2>1
  <2>4. q - d >= 1 => (q - d) * b >= b
    BY <2>1
  <2>5. QED
    BY <2>1, <2>2, <2>3, <2>4
<1>3. QED
  BY <1>1, <1>2

(* The larger power is a multiple of the smaller one. *)
LEMMA PowersDivide ==
  ASSUME NEW i \in Nat, NEW d \in Nat
  PROVE  \E q \in Nat \ {0} : 2^(i + d) = q * 2^i
<1> DEFINE wrong == {n \in Nat : \A q \in Nat \ {0} : 2^(i + n) # q * 2^i}
<1>1. ASSUME wrong # {}
      PROVE  FALSE
  <2>1. PICK n \in wrong : \A l \in wrong : n <= l
    BY <1>1, LeastNatural
  <2>2. 2^i \in Nat
    BY PowerDoubles
  <2>3. n # 0
    <3>1. 2^i = 1 * 2^i /\ i + 0 = i
      BY <2>2
    <3>2. QED
      BY <3>1
  <2> DEFINE l == n - 1
  <2>4. l \in Nat /\ l < n /\ i + n = (i + l) + 1 /\ i + l \in Nat
    BY <2>3
  <2>5. PICK q \in Nat \ {0} : 2^(i + l) = q * 2^i
    BY <2>1, <2>4
  <2>6. 2^(i + n) = 2 * 2^(i + l)
    BY <2>4, PowerDoubles
  <2>7. 2^(i + n) = (2 * q) * 2^i /\ 2 * q \in Nat \ {0}
    BY <2>2, <2>5, <2>6
  <2>8. QED
    BY <2>7
<1>2. QED
  BY <1>1

(* Doubling and halving *)
LEMMA PowerSteps ==
  ASSUME NEW n, IsPower(n)
  PROVE  /\ n \in Nat \ {0} /\ IsPower(2 * n)
         /\ n # 1 => \E h : IsPower(h) /\ h \in Nat \ {0} /\ n = 2 * h /\ n \div 2 = h
<1>1. PICK i \in Nat : n = 2^i
  BY DEF IsPower
<1>2. n \in Nat \ {0} /\ 2 * n = 2^(i + 1) /\ i + 1 \in Nat
  BY <1>1, PowerDoubles
<1>3. ASSUME n # 1
      PROVE  \E h : IsPower(h) /\ h \in Nat \ {0} /\ n = 2 * h /\ n \div 2 = h
  <2>1. i # 0
    <3>1. 2^0 = 1
      OBVIOUS
    <3>2. QED
      BY <1>1, <1>3, <3>1
  <2>2. i - 1 \in Nat /\ i = (i - 1) + 1
    BY <2>1
  <2>3. n = 2 * 2^(i - 1) /\ 2^(i - 1) \in Nat \ {0}
    BY <1>1, <2>2, PowerDoubles
  <2>4. n \div 2 = 2^(i - 1)
    BY <2>3
  <2>5. QED
    BY <2>2, <2>3, <2>4 DEF IsPower
<1>4. QED
  BY <1>2, <1>3 DEF IsPower

(* The powers of two are ordered like their exponents, and each is at     *)
(* least twice as large as the ones before.                                *)
LEMMA PowersCompare ==
  ASSUME NEW m, NEW n, IsPower(m), IsPower(n)
  PROVE  /\ m <= n => \E q \in Nat \ {0} : n = q * m
         /\ m < n => 2 * m <= n
<1>1. PICK i \in Nat : m = 2^i
  BY DEF IsPower
<1>2. PICK j \in Nat : n = 2^j
  BY DEF IsPower
<1>3. m \in Nat \ {0} /\ n \in Nat \ {0}
  BY PowerSteps
<1>4. i > j => m >= 2 * n
  <2> SUFFICES ASSUME i > j
               PROVE  m >= 2 * n
    OBVIOUS
  <2>1. j + 1 \in Nat /\ i - (j + 1) \in Nat /\ (j + 1) + (i - (j + 1)) = i
    OBVIOUS
  <2>2. PICK q \in Nat \ {0} : 2^i = q * 2^(j + 1)
    <3> DEFINE d == i - (j + 1)
               k == j + 1
    <3>1. d \in Nat /\ k \in Nat /\ k + d = i
      OBVIOUS
    <3> HIDE DEF d, k
    <3>2. \E q \in Nat \ {0} : 2^(k + d) = q * 2^k
      BY <3>1, PowersDivide
    <3>3. QED
      BY <3>1, <3>2 DEF k
  <2>3. m = q * (2 * n)
    BY <1>1, <1>2, <2>2, PowerDoubles
  <2>4. q * (2 * n) >= 2 * n
    BY <1>3
  <2>5. QED
    BY <1>3, <2>3, <2>4
<1>5. ASSUME NEW k \in Nat, k <= j
      PROVE  \E q \in Nat \ {0} : 2^j = q * 2^k
  <2> DEFINE d == j - k
  <2>1. d \in Nat /\ k + d = j
    BY <1>5
  <2> HIDE DEF d
  <2>2. QED
    BY <2>1, PowersDivide
<1>6. ASSUME m <= n
      PROVE  \E q \in Nat \ {0} : n = q * m
  <2>1. i <= j
    BY <1>3, <1>4, <1>6
  <2>2. QED
    BY <1>1, <1>2, <1>5, <2>1
<1>7. ASSUME m < n
      PROVE  2 * m <= n
  <2>1. i <= j /\ i # j
    BY <1>1, <1>2, <1>3, <1>4, <1>7
  <2>2. i + 1 \in Nat /\ i + 1 <= j
    BY <2>1
  <2>3. PICK q \in Nat \ {0} : 2^j = q * 2^(i + 1)
    BY <1>5, <2>2
  <2>4. n = q * (2 * m)
    BY <1>1, <1>2, <2>3, PowerDoubles
  <2>5. q * (2 * m) >= 2 * m
    BY <1>3
  <2>6. QED
    BY <1>3, <2>4, <2>5
<1>8. QED
  BY <1>6, <1>7

(* Different powers of two below 2^k have a sum below 2^k. *)
LEMMA SumOfPowersBelow ==
  ASSUME NEW f, NEW S, S \subseteq Nat, IsFiniteSet(S), \A b \in S : f[b] = 2^b,
         NEW k \in Nat, NEW T, T \subseteq S, \A b \in T : b < k
  PROVE  SumFunctionOnSet(f, T) \in Nat /\ SumFunctionOnSet(f, T) < 2^k
<1> DEFINE Low(n) == {b \in S : b < n}
           wrong == {n \in Nat : ~ (SumFunctionOnSet(f, Low(n)) < 2^n)}
<1>1. \A b \in S : f[b] \in Nat
  BY PowerDoubles
<1>2. \A n : IsFiniteSet(Low(n)) /\ Low(n) \subseteq S
  BY FS_Subset
<1>3. ASSUME wrong # {}
      PROVE  FALSE
  <2>1. PICK n \in wrong : \A l \in wrong : n <= l
    BY <1>3, LeastNatural
  <2>2. CASE n = 0
    <3>1. Low(n) = {}
      <4>1. \A b \in Nat : ~ (b < 0)
        OBVIOUS
      <4>2. \A b \in S : ~ (b < n)
        BY <2>2, <4>1
      <4>3. QED
        BY <4>2, Zenon
    <3>2. SumFunctionOnSet(f, Low(n)) = 0
      BY <3>1, SumOfNone
    <3>3. 2^n = 1
      BY <2>2
    <3>4. QED
      BY <3>2, <3>3
  <2>3. CASE n # 0
    <3> DEFINE l == n - 1
    <3>1. n \in Nat /\ l \in Nat /\ n = l + 1 /\ l \notin wrong
      BY <2>1, <2>3
    <3>2. SumFunctionOnSet(f, Low(l)) < 2^l
      BY <3>1
    <3>3. 2^l \in Nat /\ 2^n = 2 * 2^l
      BY <3>1, PowerDoubles
    <3> HIDE DEF l
    <3>4. SumFunctionOnSet(f, Low(l)) \in Nat
      BY <1>1, <1>2, SumGrows
    <3>5. CASE l \in S
      <4>1. Low(n) = Low(l) \cup {l} /\ Low(l) \cap {l} = {}
        <5>1. \A b \in S : b \in Nat
          OBVIOUS
        <5>2. \A b \in Nat : b < n <=> b < l \/ b = l
          BY <3>1
        <5>3. \A b \in S : b < n <=> b < l \/ b = l
          BY <5>1, <5>2
        <5>4. ~ (l < l)
          BY <3>1
        <5>5. QED
          BY <3>5, <5>3, <5>4, Zenon
      <4>2. IsFiniteSet({l}) /\ \A b \in Low(l) \cup {l} : f[b] \in Nat
        BY <1>1, <3>5, FS_Singleton
      <4>3. SumFunctionOnSet(f, Low(l) \cup {l})
              = SumFunctionOnSet(f, Low(l)) + SumFunctionOnSet(f, {l})
        BY <1>2, <4>1, <4>2, SumOfParts
      <4>4. SumFunctionOnSet(f, {l}) = 2^l
        BY <1>1, <3>5, SumOfOne
      <4>5. ~ (SumFunctionOnSet(f, Low(n)) < 2^n)
        BY <2>1
      <4>6. SumFunctionOnSet(f, Low(n)) = SumFunctionOnSet(f, Low(l)) + 2^l
        BY <4>1, <4>3, <4>4
      <4> HIDE DEF Low
      <4>7. QED
        BY <3>2, <3>3, <3>4, <4>5, <4>6
    <3>6. CASE l \notin S
      <4>1. Low(n) = Low(l)
        <5>1. \A b \in S : b \in Nat /\ b # l
          BY <3>6
        <5>2. \A b \in Nat : b # l => (b < n <=> b < l)
          BY <3>1
        <5>3. \A b \in S : b < n <=> b < l
          BY <5>1, <5>2
        <5>4. QED
          BY <5>3, Zenon
      <4>2. ~ (SumFunctionOnSet(f, Low(n)) < 2^n)
        BY <2>1
      <4>3. SumFunctionOnSet(f, Low(n)) = SumFunctionOnSet(f, Low(l))
        BY <4>1
      <4> HIDE DEF Low
      <4>4. QED
        BY <3>2, <3>3, <3>4, <4>2, <4>3
    <3>7. QED
      BY <3>5, <3>6
  <2>4. QED
    BY <2>2, <2>3
<1>4. SumFunctionOnSet(f, Low(k)) < 2^k
  BY <1>3
<1>5. T \subseteq Low(k)
  OBVIOUS
<1>6. /\ SumFunctionOnSet(f, Low(k)) \in Nat /\ SumFunctionOnSet(f, T) \in Nat
      /\ SumFunctionOnSet(f, T) <= SumFunctionOnSet(f, Low(k))
  <2>1. \A b \in Low(k) : f[b] \in Nat
    BY <1>1
  <2> HIDE DEF Low
  <2>2. QED
    BY <1>2, <1>5, <2>1, SumGrows
<1>7. 2^k \in Nat
  BY PowerDoubles
<1> HIDE DEF Low
<1>8. QED
  BY <1>4, <1>6, <1>7

(* Remainders of neighbours *)
LEMMA RemainderAdds ==
  ASSUME NEW h \in Nat, NEW s \in Nat \ {0}, h % s = 0, NEW i \in 0 .. s - 1
  PROVE  (h + i) % s = i
<1>1. PICK q \in Nat : h = q * s
  BY RemainderIs
<1> DEFINE d == (h + i) \div s
           r == (h + i) % s
<1>2. h + i = s * d + r /\ d \in Int /\ r \in 0 .. s - 1
  OBVIOUS
<1> HIDE DEF d, r
<1>3. (q - d) * s = r - i
  BY <1>1, <1>2
<1>4. q - d <= -1 => (q - d) * s <= - s
  BY <1>2
<1>5. q - d >= 1 => (q - d) * s >= s
  BY <1>2
<1>6. q - d = 0
  BY <1>2, <1>3, <1>4, <1>5
<1>7. (q - d) * s = 0
  BY <1>6
<1>8. QED
  BY <1>2, <1>3, <1>7 DEF r

LEMMA RemainderOff ==
  ASSUME NEW a \in Nat, NEW s \in Nat \ {0}
  PROVE  /\ a % s \in 0 .. s - 1 /\ a - (a % s) \in Nat /\ (a - (a % s)) % s = 0
         /\ \A h \in Nat : h % s = 0 /\ h <= a => h <= a - (a % s)
<1> DEFINE d == a \div s
           r == a % s
<1>1. a = d * s + r /\ d \in Int /\ r \in 0 .. s - 1
  OBVIOUS
<1> HIDE DEF d, r
<1>2. d <= -1 => d * s <= - s
  BY <1>1
<1>3. d \in Nat /\ a - r = d * s /\ a - r \in Nat
  BY <1>1, <1>2
<1>4. (a - r) % s = 0
  BY <1>3, RemainderIs
<1>5. ASSUME NEW h \in Nat, h % s = 0, h <= a
      PROVE  h <= a - r
  <2>1. PICK q \in Nat : h = q * s
    BY <1>5, RemainderIs
  <2>2. (q - d) * s <= r
    BY <1>1, <1>5, <2>1
  <2>3. q - d >= 1 => (q - d) * s >= s
    BY <1>1
  <2>4. q - d <= 0
    BY <1>1, <2>2, <2>3
  <2>5. (q - d) * s <= 0
    BY <1>3, <2>4
  <2>6. QED
    BY <1>3, <2>1, <2>5
<1>6. QED
  BY <1>1, <1>3, <1>4, <1>5 DEF r

(* Multiples of a divisor *)
LEMMA DivisorDivides ==
  ASSUME NEW b \in Nat \ {0}, NEW n \in Nat \ {0}, NEW q \in Nat, n = q * b,
         NEW a \in Nat, a % n = 0
  PROVE  a % b = 0
<1>1. PICK r \in Nat : a = r * n
  BY RemainderIs
<1>2. a = (r * q) * b /\ r * q \in Nat
  BY <1>1
<1>3. QED
  BY <1>2, RemainderIs

(* The greatest element of a set has all others before it. *)
LEMMA RankedLast ==
  ASSUME NEW S \in SUBSET Int, IsFiniteSet(S), NEW d \in Nat, Cardinality(S) > d
  PROVE  \E x \in S : Cardinality({y \in S : y < x}) >= d
<1>1. S # {}
  BY FS_EmptySet
<1>2. PICK x \in S : \A y \in S : y <= x
  BY <1>1, LargestOfFinite
<1> DEFINE T == {y \in S : y < x}
<1>3. IsFiniteSet(T)
  BY FS_Subset
<1>4. S = T \cup {x} /\ x \notin T
  <2>1. \A y \in S : y \in Int /\ y <= x /\ x \in Int
    BY <1>2
  <2>2. \A y \in S : y < x \/ y = x
    BY <2>1
  <2>3. ~ (x < x)
    BY <2>1
  <2>4. QED
    BY <2>2, <2>3
<1>5. Cardinality(T) \in Nat /\ Cardinality(S) = Cardinality(T) + 1
  BY <1>3, <1>4, FS_AddElement, FS_CardinalityType
<1> HIDE DEF T
<1>6. Cardinality(T) >= d
  BY <1>5
<1>7. QED
  BY <1>6 DEF T

=============================================================================
