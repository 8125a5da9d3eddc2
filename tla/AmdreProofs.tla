---------------------------- MODULE AmdreProofs ----------------------------
(***************************************************************************)
(* Proofs about main between the empty bank group and the finished groups, *)
(* for memories of any size and any options: what settling the block size  *)
(* and adding further THPs leave in the groups.                            *)
(***************************************************************************)
EXTENDS Amdre, Lemmas

-----------------------------------------------------------------------------
(* Sequences of groups *)

Elements(g) == UNION {Range(g[k]) : k \in DOMAIN g}

Distinct(g) ==
  \A k, l \in DOMAIN g : \A i \in DOMAIN g[k], j \in DOMAIN g[l] :
    g[k][i] = g[l][j] => k = l /\ i = j

Takes(g, h, a) ==
  \/ h = Append(g, <<a>>)
  \/ \E k \in DOMAIN g : h = [g EXCEPT ![k] = Append(@, a)]

LEMMA ElementsAre ==
  ASSUME NEW g
  PROVE  \A x : x \in Elements(g) <=> \E k \in DOMAIN g : \E i \in DOMAIN g[k] : g[k][i] = x
BY DEF Elements, Range

(* h differs from g by a, at n in group k. *)
TakesAt(g, h, a, k, n) ==
  /\ k \in DOMAIN h /\ n \in DOMAIN h[k] /\ h[k][n] = a
  /\ DOMAIN h = DOMAIN g \cup {k}
  /\ \A l \in DOMAIN g : l # k => h[l] = g[l]
  /\ k \in DOMAIN g => /\ n \notin DOMAIN g[k] /\ DOMAIN h[k] = DOMAIN g[k] \cup {n}
                       /\ \A i \in DOMAIN g[k] : h[k][i] = g[k][i]
  /\ k \notin DOMAIN g => DOMAIN h[k] = {n}

LEMMA AppendsAt ==
  ASSUME NEW S, NEW g \in Seq(Seq(S)), NEW a \in S
  PROVE  TakesAt(g, Append(g, <<a>>), a, Len(g) + 1, 1)
<1> DEFINE h == Append(g, <<a>>)
           k == Len(g) + 1
<1>1. /\ DOMAIN h = DOMAIN g \cup {k} /\ k \notin DOMAIN g
      /\ \A l \in DOMAIN g : h[l] = g[l]
      /\ h[k] = <<a>> /\ k \in DOMAIN h
  OBVIOUS
<1>2. DOMAIN <<a>> = {1} /\ <<a>>[1] = a
  OBVIOUS
<1> HIDE DEF h, k
<1>3. TakesAt(g, h, a, k, 1)
  BY <1>1, <1>2 DEF TakesAt
<1>4. QED
  BY <1>3 DEF h, k

LEMMA JoinsAt ==
  ASSUME NEW S, NEW g \in Seq(Seq(S)), NEW a \in S, NEW k \in DOMAIN g
  PROVE  TakesAt(g, [g EXCEPT ![k] = Append(@, a)], a, k, Len(g[k]) + 1)
<1> DEFINE h == [g EXCEPT ![k] = Append(@, a)]
           n == Len(g[k]) + 1
<1>1. g[k] \in Seq(S)
  OBVIOUS
<1>2. h[k] = Append(g[k], a)
  OBVIOUS
<1>3. DOMAIN h = DOMAIN g /\ \A l \in DOMAIN g : l # k => h[l] = g[l]
  OBVIOUS
<1>4. /\ n \in DOMAIN h[k] /\ h[k][n] = a /\ n \notin DOMAIN g[k]
      /\ DOMAIN h[k] = DOMAIN g[k] \cup {n}
      /\ \A i \in DOMAIN g[k] : h[k][i] = g[k][i]
  BY <1>1, <1>2
<1> HIDE DEF h, n
<1>5. TakesAt(g, h, a, k, n)
  BY <1>3, <1>4 DEF TakesAt
<1>6. QED
  BY <1>5 DEF h, n

LEMMA TakesIs ==
  ASSUME NEW S, NEW g \in Seq(Seq(S)), NEW h, NEW a \in S, Takes(g, h, a)
  PROVE  h \in Seq(Seq(S)) /\ Len(h) >= Len(g) /\ \E k, n : TakesAt(g, h, a, k, n)
<1>1. CASE h = Append(g, <<a>>)
  <2>1. h \in Seq(Seq(S)) /\ Len(h) >= Len(g)
    BY <1>1
  <2>2. QED
    BY <1>1, <2>1, AppendsAt
<1>2. ASSUME NEW k \in DOMAIN g, h = [g EXCEPT ![k] = Append(@, a)]
      PROVE  h \in Seq(Seq(S)) /\ Len(h) >= Len(g)
  <2>1. Append(g[k], a) \in Seq(S)
    OBVIOUS
  <2>2. h \in Seq(Seq(S)) /\ Len(h) = Len(g) /\ Len(g) \in Nat
    BY <1>2, <2>1
  <2>3. QED
    BY <2>2
<1>3. CASE \E k \in DOMAIN g : h = [g EXCEPT ![k] = Append(@, a)]
  <2>1. PICK k \in DOMAIN g : h = [g EXCEPT ![k] = Append(@, a)]
    BY <1>3
  <2>2. TakesAt(g, h, a, k, Len(g[k]) + 1)
    BY <2>1, JoinsAt
  <2>3. QED
    BY <1>2, <2>1, <2>2
<1>4. QED
  BY <1>1, <1>3 DEF Takes

(* What an address that joins the groups changes *)
LEMMA TakesPlaces ==
  ASSUME NEW S, NEW g \in Seq(Seq(S)), NEW h, NEW a \in S, Takes(g, h, a)
  PROVE  /\ h \in Seq(Seq(S)) /\ Len(h) >= Len(g) /\ h # << >>
         /\ Elements(h) = Elements(g) \cup {a}
         /\ \A k \in DOMAIN g : /\ k \in DOMAIN h /\ Len(h[k]) >= Len(g[k])
                                /\ \A i \in DOMAIN g[k] : i \in DOMAIN h[k] /\ h[k][i] = g[k][i]
         /\ Distinct(g) /\ a \notin Elements(g) => Distinct(h)
         /\ (\A k \in DOMAIN g : g[k] # << >>) => \A k \in DOMAIN h : h[k] # << >>
<1>1. h \in Seq(Seq(S)) /\ Len(h) >= Len(g)
  BY TakesIs
<1>2. PICK k, n : TakesAt(g, h, a, k, n)
  BY TakesIs
<1>3. /\ k \in DOMAIN h /\ n \in DOMAIN h[k] /\ h[k][n] = a
      /\ \A l \in DOMAIN h : l # k => l \in DOMAIN g /\ h[l] = g[l]
      /\ \A i \in DOMAIN h[k] : i # n => k \in DOMAIN g /\ i \in DOMAIN g[k] /\ h[k][i] = g[k][i]
      /\ k \in DOMAIN g => n \notin DOMAIN g[k]
  BY <1>2 DEF TakesAt
<1>4. \A l \in DOMAIN g : /\ l \in DOMAIN h
                          /\ \A i \in DOMAIN g[l] : i \in DOMAIN h[l] /\ h[l][i] = g[l][i]
  BY <1>2 DEF TakesAt
<1>5. Elements(h) = Elements(g) \cup {a}
  <2>1. \A x : x \in Elements(h) <=> \E l \in DOMAIN h : \E i \in DOMAIN h[l] : h[l][i] = x
    BY ElementsAre
  <2>2. \A x : x \in Elements(g) <=> \E l \in DOMAIN g : \E i \in DOMAIN g[l] : g[l][i] = x
    BY ElementsAre
  <2>3. ASSUME NEW x \in Elements(h)
        PROVE  x \in Elements(g) \cup {a}
    <3>1. PICK l \in DOMAIN h : \E i \in DOMAIN h[l] : h[l][i] = x
      BY <2>1
    <3>2. PICK i \in DOMAIN h[l] : h[l][i] = x
      BY <3>1
    <3>3. x = a \/ (l \in DOMAIN g /\ i \in DOMAIN g[l] /\ g[l][i] = x)
      BY <1>3, <3>2
    <3>4. QED
      BY <2>2, <3>3
  <2>4. \A x \in Elements(g) : x \in Elements(h)
    BY <1>4, <2>1, <2>2
  <2>5. a \in Elements(h)
    BY <1>3, <2>1
  <2>6. QED
    BY <2>3, <2>4, <2>5
<1>6. \A l \in DOMAIN g : Len(h[l]) >= Len(g[l])
  <2> SUFFICES ASSUME NEW l \in DOMAIN g
               PROVE  Len(h[l]) >= Len(g[l])
    OBVIOUS
  <2>1. g[l] \in Seq(S) /\ h[l] \in Seq(S)
    BY <1>1, <1>4
  <2>2. Len(g[l]) = 0 \/ Len(g[l]) \in DOMAIN g[l]
    BY <2>1
  <2>3. Len(g[l]) = 0 \/ Len(g[l]) \in DOMAIN h[l]
    BY <1>4, <2>2
  <2>4. QED
    BY <2>1, <2>3
<1>7. ASSUME Distinct(g), a \notin Elements(g)
      PROVE  Distinct(h)
  <2>1. \A l \in DOMAIN g : \A i \in DOMAIN g[l] : g[l][i] # a
    BY <1>7, ElementsAre
  <2> SUFFICES ASSUME NEW l \in DOMAIN h, NEW m \in DOMAIN h,
                      NEW i \in DOMAIN h[l], NEW j \in DOMAIN h[m], h[l][i] = h[m][j]
               PROVE  l = m /\ i = j
    BY DEF Distinct
  <2>2. (l = k /\ i = n) \/ (l \in DOMAIN g /\ i \in DOMAIN g[l] /\ h[l][i] = g[l][i])
    BY <1>3
  <2>3. (m = k /\ j = n) \/ (m \in DOMAIN g /\ j \in DOMAIN g[m] /\ h[m][j] = g[m][j])
    BY <1>3
  <2>4. QED
    BY <1>3, <1>7, <2>1, <2>2, <2>3 DEF Distinct
<1>8. ASSUME \A l \in DOMAIN g : g[l] # << >>
      PROVE  \A l \in DOMAIN h : h[l] # << >>
  <2>1. \A l \in DOMAIN h : h[l] = << >> => DOMAIN h[l] = {}
    OBVIOUS
  <2>2. QED
    BY <1>3, <1>8, <2>1
<1>9. h # << >>
  <2>1. DOMAIN << >> = {}
    OBVIOUS
  <2>2. QED
    BY <1>3, <2>1
<1>10. QED
  BY <1>1, <1>4, <1>5, <1>6, <1>7, <1>8, <1>9

(* The same in one word each *)
Keeps(g, h) ==
  \A k \in DOMAIN g : /\ k \in DOMAIN h /\ Len(h[k]) >= Len(g[k])
                      /\ \A i \in DOMAIN g[k] : i \in DOMAIN h[k] /\ h[k][i] = g[k][i]

NoneEmpty(g) == \A k \in DOMAIN g : g[k] # << >>

LEMMA TakesKeeps ==
  ASSUME NEW S, NEW g \in Seq(Seq(S)), NEW h, NEW a \in S, Takes(g, h, a)
  PROVE  Keeps(g, h) /\ (NoneEmpty(g) => NoneEmpty(h))
<1>1. Keeps(g, h)
  BY TakesPlaces DEF Keeps
<1>2. ASSUME NoneEmpty(g)
      PROVE  NoneEmpty(h)
  BY <1>2, TakesPlaces DEF NoneEmpty
<1>3. QED
  BY <1>1, <1>2

LEMMA FunctionIsSeq ==
  ASSUME NEW S, NEW n \in Nat, NEW f \in [1 .. n -> S]
  PROVE  f \in Seq(S) /\ Len(f) = n
OBVIOUS

(* Only the addresses at I[k] stay in group k. *)
SortedAll(g, I) == [k \in DOMAIN g |-> SortedPart(g[k], I[k])]

(* What sorting and removing addresses changes *)
LEMMA SortsPlaces ==
  ASSUME NEW g \in Seq(Seq(Nat)), NEW h, NEW I,
         \A k \in DOMAIN g : I[k] \subseteq DOMAIN g[k],
         h = SortedAll(g, I)
  PROVE  /\ h \in Seq(Seq(Nat)) /\ Len(h) = Len(g)
         /\ \A k \in DOMAIN g : \A i \in DOMAIN h[k] : \E j \in I[k] : h[k][i] = g[k][j]
         /\ Elements(h) \subseteq Elements(g)
         /\ Distinct(g) => Distinct(h)
         /\ \A k \in DOMAIN g : I[k] # {} => h[k] # << >>
<1> USE DEF SortedAll
<1>1. ASSUME NEW k \in DOMAIN g
      PROVE  /\ IsFiniteSet(I[k]) /\ Cardinality(I[k]) \in Nat
             /\ \A i \in I[k] : g[k][i] \in Nat
             /\ DOMAIN h[k] = 1 .. Cardinality(I[k])
             /\ \A i \in DOMAIN h[k] : HasRank(h[k][i], i, g[k], I[k])
  <2>1. g[k] \in Seq(Nat) /\ I[k] \subseteq DOMAIN g[k]
    BY <1>1
  <2>2. DOMAIN g[k] = 1 .. Len(g[k]) /\ Len(g[k]) \in Nat
    BY <2>1
  <2>3. IsFiniteSet(I[k]) /\ Cardinality(I[k]) \in Nat
    BY <2>1, <2>2, IntervalSize, FS_Subset, FS_CardinalityType
  <2>4. \A i \in I[k] : g[k][i] \in Nat /\ g[k][i] \in Int
    BY <2>1
  <2>5. h[k] = SortedPart(g[k], I[k])
    BY <1>1
  <2>6. DOMAIN h[k] = 1 .. Cardinality(I[k])
    BY <2>5 DEF SortedPart
  <2>7. ASSUME NEW i \in DOMAIN h[k]
        PROVE  HasRank(h[k][i], i, g[k], I[k])
    <3>1. i \in 1 .. Cardinality(I[k])
      BY <2>6, <2>7
    <3>2. HasRank(SortedPart(g[k], I[k])[i], i, g[k], I[k])
      BY <2>3, <2>4, <3>1, SortedAt
    <3>3. QED
      BY <2>5, <3>2
  <2>8. QED
    BY <2>3, <2>4, <2>6, <2>7
<1>2. ASSUME NEW k \in DOMAIN g, NEW i \in DOMAIN h[k]
      PROVE  \E j \in I[k] : h[k][i] = g[k][j]
  BY <1>1, <1>2 DEF HasRank
<1>3. h \in Seq(Seq(Nat)) /\ Len(h) = Len(g)
  <2>1. ASSUME NEW k \in DOMAIN g
        PROVE  h[k] \in Seq(Nat)
    <3>1. h[k] = SortedPart(g[k], I[k])
      BY <2>1
    <3>2. h[k] = [i \in 1 .. Cardinality(I[k]) |-> h[k][i]]
      BY <3>1 DEF SortedPart
    <3>3. \A i \in 1 .. Cardinality(I[k]) : h[k][i] \in Nat
      BY <1>1, <1>2, <2>1
    <3>4. Cardinality(I[k]) \in Nat
      BY <1>1, <2>1
    <3>5. h[k] \in [1 .. Cardinality(I[k]) -> Nat]
      BY <3>2, <3>3
    <3>6. QED
      BY <3>4, <3>5, FunctionIsSeq
  <2>2. DOMAIN g = 1 .. Len(g) /\ Len(g) \in Nat /\ DOMAIN h = DOMAIN g
    OBVIOUS
  <2>3. h \in [1 .. Len(g) -> Seq(Nat)]
    BY <2>1, <2>2
  <2>4. QED
    BY <2>2, <2>3, FunctionIsSeq
<1>4. DOMAIN h = DOMAIN g
  OBVIOUS
<1>5. Elements(h) \subseteq Elements(g)
  <2>1. \A x : x \in Elements(h) <=> \E l \in DOMAIN h : \E i \in DOMAIN h[l] : h[l][i] = x
    BY ElementsAre
  <2>2. \A x : x \in Elements(g) <=> \E l \in DOMAIN g : \E i \in DOMAIN g[l] : g[l][i] = x
    BY ElementsAre
  <2>3. \A k \in DOMAIN g : \A i \in I[k] : i \in DOMAIN g[k]
    OBVIOUS
  <2>4. QED
    BY <1>2, <1>4, <2>1, <2>2, <2>3
<1>6. ASSUME Distinct(g), NEW k \in DOMAIN h, NEW l \in DOMAIN h,
             NEW i \in DOMAIN h[k], NEW j \in DOMAIN h[l], h[k][i] = h[l][j]
      PROVE  k = l /\ i = j
  <2>1. k = l
    BY <1>2, <1>4, <1>6 DEF Distinct
  <2>2. HasRank(h[k][i], i, g[k], I[k]) /\ HasRank(h[k][i], j, g[k], I[k])
    BY <1>1, <1>4, <1>6, <2>1
  <2>3. i \in Nat /\ j \in Nat
    BY <1>1, <1>4, <1>6, <2>1
  <2>4. \A n, m \in I[k] : g[k][n] = g[k][m] => n = m
    BY <1>4, <1>6 DEF Distinct
  <2>5. IsFiniteSet(I[k]) /\ \A n \in I[k] : g[k][n] \in Int
    BY <1>1, <1>4
  <2>6. i = j
    BY <2>2, <2>3, <2>4, <2>5, RankIsUnique
  <2>7. QED
    BY <2>1, <2>6
<1>7. ASSUME NEW k \in DOMAIN g, I[k] # {}
      PROVE  h[k] # << >>
  <2>1. Cardinality(I[k]) # 0
    BY <1>1, <1>7, FS_EmptySet
  <2>2. 1 \in DOMAIN h[k]
    BY <1>1, <1>7, <2>1
  <2>3. QED
    BY <2>2
<1>8. QED
  BY <1>2, <1>3, <1>5, <1>6, <1>7 DEF Distinct
-----------------------------------------------------------------------------
(* guessBlockSize *)

LEMMA RunLengthIs ==
  ASSUME NEW g \in Seq(Nat), NEW i \in RunStarts(g) \ {1}
  PROVE  RunLength(g, i) \in Nat \ {0}
<1> DEFINE earlier == {j \in RunStarts(g) : j < i}
<1>1. DOMAIN g = 1 .. Len(g) /\ Len(g) \in Nat /\ i \in DOMAIN g /\ i # 1
  BY DEF RunStarts
<1>2. i \in Int /\ i > 1 /\ 1 \in DOMAIN g
  BY <1>1
<1>3. 1 \in earlier
  BY <1>2 DEF RunStarts
<1>4. earlier \in SUBSET Int /\ \A j \in earlier : j < i
  BY <1>1 DEF RunStarts
<1>5. \A j \in earlier : j \in Int /\ j <= i
  BY <1>2, <1>4
<1> HIDE DEF earlier
<1>6. \E x \in earlier : \A y \in earlier : x >= y
  BY <1>2, <1>3, <1>4, <1>5, GreatestBelow
<1>7. Max(earlier) \in earlier
  BY <1>6 DEF Max
<1>8. i - Max(earlier) \in Nat \ {0}
  <2>1. Max(earlier) \in Int /\ Max(earlier) < i
    BY <1>4, <1>5, <1>7
  <2>2. QED
    BY <1>2, <2>1
<1>9. QED
  BY <1>8 DEF RunLength, earlier

LEMMA CountedRunsFinite ==
  ASSUME groups \in Seq(Seq(Nat))
  PROVE  IsFiniteSet(CountedRuns)
<1> DEFINE of(k) == {<<k, i>> : i \in RunStarts(groups[k]) \ {1}}
           all == {of(k) : k \in DOMAIN groups}
<1>1. ASSUME NEW k \in DOMAIN groups
      PROVE  IsFiniteSet(of(k))
  <2> DEFINE starts == RunStarts(groups[k]) \ {1}
  <2>1. groups[k] \in Seq(Nat)
    BY <1>1
  <2>2. DOMAIN groups[k] = 1 .. Len(groups[k]) /\ Len(groups[k]) \in Nat
    BY <2>1
  <2>3. starts \subseteq DOMAIN groups[k]
    BY DEF RunStarts
  <2>4. IsFiniteSet(starts)
    BY <2>2, <2>3, IntervalSize, FS_Subset
  <2> DEFINE run == [i \in starts |-> <<k, i>>]
  <2>5. of(k) = {run[i] : i \in starts}
    OBVIOUS
  <2> HIDE DEF starts, run
  <2>6. QED
    BY <2>4, <2>5, ImageFinite
<1>2. DOMAIN groups = 1 .. Len(groups) /\ Len(groups) \in Nat
  OBVIOUS
<1>3. IsFiniteSet(DOMAIN groups)
  BY <1>2, IntervalSize
<1>4. IsFiniteSet(all)
  <2> DEFINE runs == [k \in DOMAIN groups |-> of(k)]
  <2>1. all = {runs[k] : k \in DOMAIN groups}
    OBVIOUS
  <2> HIDE DEF runs
  <2>2. QED
    BY <1>3, <2>1, ImageFinite
<1>5. \A x \in all : IsFiniteSet(x)
  BY <1>1
<1>6. IsFiniteSet(UNION all)
  <2> HIDE DEF all
  <2>1. QED
    BY <1>4, <1>5, FS_UNION
<1>7. QED
  BY <1>6 DEF CountedRuns

(* The guess is the length of a run that was counted. *)
LEMMA GuessIsOfRun ==
  ASSUME groups \in Seq(Seq(Nat)), CountedRuns # {}
  PROVE  \E k \in DOMAIN groups : \E i \in RunStarts(groups[k]) \ {1} :
           GuessBlockSize = blockSize * RunLength(groups[k], i)
<1> DEFINE f == Followups
           lengths == Range(f)
           most == MostFrequent(f)
           times == {Frequency(n, f) : n \in lengths}
<1>1. /\ DOMAIN f = CountedRuns /\ lengths # {}
      /\ \A r \in CountedRuns : f[r] = RunLength(groups[r[1]], r[2])
  BY DEF Followups, Range
<1>2. lengths \subseteq Nat \ {0}
  <2> SUFFICES ASSUME NEW r \in CountedRuns
               PROVE  f[r] \in Nat \ {0}
    BY <1>1 DEF Range
  <2>1. PICK k \in DOMAIN groups : \E i \in RunStarts(groups[k]) \ {1} : r = <<k, i>>
    BY DEF CountedRuns
  <2>2. groups[k] \in Seq(Nat)
    OBVIOUS
  <2>3. PICK i \in RunStarts(groups[k]) \ {1} : r = <<k, i>>
    BY <2>1
  <2>4. f[r] = RunLength(groups[k], i)
    BY <1>1, <2>3
  <2>5. QED
    BY <2>2, <2>3, <2>4, RunLengthIs
<1>3. IsFiniteSet(DOMAIN f)
  BY <1>1, CountedRunsFinite
<1> HIDE DEF f
<1>4. \A n : Frequency(n, f) \in Nat /\ Frequency(n, f) <= Cardinality(DOMAIN f)
  BY <1>3, FS_Subset, FS_CardinalityType DEF Frequency
<1>5. times \in SUBSET Int /\ times # {} /\ Cardinality(DOMAIN f) \in Int
  BY <1>1, <1>3, <1>4, FS_CardinalityType
<1>6. \A t \in times : t <= Cardinality(DOMAIN f)
  BY <1>4
<1>7. \E t \in times : \A u \in times : t >= u
  <2> HIDE DEF times
  <2>1. QED
    BY <1>5, <1>6, GreatestBelow
<1>8. PICK n \in lengths : \A u \in times : Frequency(n, f) >= u
  BY <1>7
<1>9. \A m \in lengths : Frequency(m, f) <= Frequency(n, f)
  <2> TAKE m \in lengths
  <2>1. Frequency(n, f) >= Frequency(m, f)
    BY <1>8
  <2>2. QED
    BY <1>4, <2>1
<1>10. most \in SUBSET Nat /\ most # {} /\ most \subseteq lengths
  BY <1>2, <1>9 DEF MostFrequent
<1>11. Min(most) \in most
  <2> HIDE DEF most
  <2>1. \E x \in most : \A y \in most : x <= y
    BY <1>10, LeastNatural
  <2>2. QED
    BY <2>1 DEF Min
<1>12. PICK r \in CountedRuns : Min(most) = f[r]
  BY <1>1, <1>10, <1>11 DEF Range
<1>13. PICK k \in DOMAIN groups : \E i \in RunStarts(groups[k]) \ {1} : r = <<k, i>>
  BY DEF CountedRuns
<1>14. PICK i \in RunStarts(groups[k]) \ {1} : r = <<k, i>>
  BY <1>13
<1>15. Min(most) = RunLength(groups[k], i)
  BY <1>1, <1>12, <1>14
<1>16. GuessBlockSize = blockSize * Min(most)
  BY DEF GuessBlockSize, f
<1>17. QED
  BY <1>15, <1>16

(* The guess is 0 or a multiple of the block size. *)
LEMMA GuessIs ==
  ASSUME groups \in Seq(Seq(Nat)), blockSize \in Nat
  PROVE  GuessBlockSize = 0 \/ \E n \in Nat \ {0} : GuessBlockSize = blockSize * n
<1>1. CASE CountedRuns = {}
  BY <1>1 DEF GuessBlockSize
<1>2. CASE CountedRuns # {}
  <2>1. PICK k \in DOMAIN groups : \E i \in RunStarts(groups[k]) \ {1} :
          GuessBlockSize = blockSize * RunLength(groups[k], i)
    BY <1>2, GuessIsOfRun
  <2>2. PICK i \in RunStarts(groups[k]) \ {1} : GuessBlockSize = blockSize * RunLength(groups[k], i)
    BY <2>1
  <2>3. groups[k] \in Seq(Nat)
    OBVIOUS
  <2>4. QED
    BY <2>2, <2>3, RunLengthIs
<1>3. QED
  BY <1>1, <1>2

-----------------------------------------------------------------------------
(* Types *)

Types ==
  /\ dram \in Memories /\ mappings \in Mappings /\ config \in Options
  /\ groups \in Seq(Seq(Nat)) /\ held \in Seq(Nat)
  /\ blockSize \in Nat /\ target \in Nat /\ offset \in Nat
  /\ pc \in {"main", "step", "detect", "guess", "expand", "done", "crashed"}
  /\ return \in {"main", "step", "detect", "done"}
  /\ pc = "expand" => group \in DOMAIN groups /\ index \in 1 .. size + 1
                       /\ size \in Nat /\ size <= Len(groups[group])
  /\ phase \in {"fill", "regroup", "add", "done"}
  /\ thp \in 0 .. NTHPs /\ block \in Nat /\ toRegroup \in Nat /\ nErrors \in Nat
  /\ pc # "main" => phase \in {"add", "done"}
  /\ phase = "done" => pc = "done"
  /\ phase \in {"add", "done"} => groups # << >>
  /\ phase = "regroup" => toRegroup <= Len(groups)

LEMMA OptionsAre ==
  ASSUME Types
  PROVE  /\ NInitialTHPs \in Nat /\ NTHPs \in Nat /\ NInitialTHPs <= NTHPs
         /\ config.startOffset \in Nat /\ config.endOffset \in 0 .. PagesPerTHP
         /\ config.initialBlockSize \in Nat \ {0} /\ config.minimumBlockSize \in Nat \ {0}
         /\ config.blockSize \in Nat
         /\ mappings \in [1 .. NTHPs -> Nat \ {0}]
BY AmdreAssumption, BlockSizeAssumption DEF Types, NTHPs

LEMMA AddTakes ==
  ASSUME NEW a, AddAddress(a)
  PROVE  Takes(groups, groups', a)
BY DEF AddAddress, BankIndices, Joined, Takes

LEMMA ReAddTakes ==
  ASSUME NEW a, Grouping!AddAddress(a)
  PROVE  Takes(groups, groups', a)
BY DEF Grouping!AddAddress, Grouping!BankIndices, Grouping!Joined, Takes

LEMMA AddToExistingTakes ==
  ASSUME NEW a, NEW added, AddToExisting(a, added)
  PROVE  groups' = groups \/ Takes(groups, groups', a)
BY DEF AddToExisting, BankIndices, Joined, Takes

LEMMA NextBlockIs ==
  ASSUME Types, thp < NTHPs
  PROVE  /\ thp + 1 \in 1 .. NTHPs /\ mappings[thp + 1] \in Nat \ {0}
         /\ BlockAddress \in Nat
<1>1. thp \in Nat /\ block \in Nat /\ blockSize \in Nat /\ NTHPs \in Nat
  BY OptionsAre DEF Types
<1>2. thp + 1 \in 1 .. NTHPs
  BY <1>1
<1>3. mappings[thp + 1] \in Nat \ {0}
  BY <1>2, OptionsAre
<1>4. block * blockSize \in Nat
  BY <1>1
<1>5. QED
  BY <1>2, <1>3, <1>4 DEF BlockAddress

(* Where more addresses come into the groups and the loops stay as they are *)
LEMMA TakesKeepsTypes ==
  ASSUME Types, NEW a \in Nat, groups' = groups \/ Takes(groups, groups', a)
  PROVE  /\ groups' \in Seq(Seq(Nat)) /\ Len(groups') >= Len(groups)
         /\ groups # << >> => groups' # << >>
         /\ pc = "expand" => group \in DOMAIN groups' /\ size <= Len(groups'[group])
<1>1. groups \in Seq(Seq(Nat))
  BY DEF Types
<1>2. CASE groups' = groups
  BY <1>2 DEF Types
<1>3. CASE Takes(groups, groups', a)
  <2>1. /\ groups' \in Seq(Seq(Nat)) /\ Len(groups') >= Len(groups) /\ groups' # << >>
        /\ \A k \in DOMAIN groups : k \in DOMAIN groups' /\ Len(groups'[k]) >= Len(groups[k])
    BY <1>1, <1>3, TakesPlaces
  <2>2. ASSUME pc = "expand"
        PROVE  group \in DOMAIN groups' /\ size <= Len(groups'[group])
    <3>1. group \in DOMAIN groups /\ size \in Nat /\ size <= Len(groups[group])
      BY <2>2 DEF Types
    <3>2. group \in DOMAIN groups' /\ Len(groups'[group]) >= Len(groups[group])
      BY <2>1, <3>1
    <3>3. groups[group] \in Seq(Nat) /\ groups'[group] \in Seq(Nat)
      BY <1>1, <2>1, <3>1, <3>2
    <3>4. Len(groups[group]) \in Nat /\ Len(groups'[group]) \in Nat
      BY <3>3
    <3>5. QED
      BY <3>1, <3>2, <3>4
  <2>3. QED
    BY <2>1, <2>2
<1>4. QED
  BY <1>2, <1>3

LEMMA SortedTypes ==
  ASSUME Types, NEW new \in Nat
  PROVE  /\ [k \in DOMAIN groups |-> Simplified(groups[k], new)] \in Seq(Seq(Nat))
         /\ Len([k \in DOMAIN groups |-> Simplified(groups[k], new)]) = Len(groups)
         /\ [k \in DOMAIN groups |-> Sorted(groups[k])] \in Seq(Seq(Nat))
         /\ Len([k \in DOMAIN groups |-> Sorted(groups[k])]) = Len(groups)
<1> DEFINE kept == [k \in DOMAIN groups |->
                      {i \in DOMAIN groups[k] : IsKept(groups[k][i], groups[k], new)}]
           all == [k \in DOMAIN groups |-> DOMAIN groups[k]]
<1>1. groups \in Seq(Seq(Nat))
  BY DEF Types
<1>2. /\ \A k \in DOMAIN groups : kept[k] \subseteq DOMAIN groups[k]
      /\ \A k \in DOMAIN groups : all[k] \subseteq DOMAIN groups[k]
      /\ [k \in DOMAIN groups |-> Simplified(groups[k], new)]
           = SortedAll(groups, kept)
      /\ [k \in DOMAIN groups |-> Sorted(groups[k])]
           = SortedAll(groups, all)
  BY DEF Simplified, Sorted, SortedAll
<1> HIDE DEF kept, all
<1>3. QED
  BY <1>1, <1>2, SortsPlaces

LEMMA SetBlockSizeTypes ==
  ASSUME Types, phase = "add", NEW new \in Nat, NEW r \in {"step", "detect", "done"},
         SetBlockSize(new, r), UNCHANGED <<dram, config, mappings, phase, thp, block, held, toRegroup, nErrors>>
  PROVE  Types'
<1>0. groups \in Seq(Seq(Nat)) /\ groups # << >>
  BY DEF Types
<1>1. CASE new < blockSize
  <2>1. /\ pc' = "expand" /\ return' = r /\ target' = new
        /\ group' = 1 /\ index' = 1 /\ size' = Len(groups[1]) /\ offset' = new
        /\ groups' = groups /\ blockSize' = blockSize
    BY <1>1 DEF SetBlockSize, Types
  <2>2. 1 \in DOMAIN groups /\ groups[1] \in Seq(Nat)
    BY <1>0
  <2>3. size' \in Nat /\ 1 \in 1 .. size' + 1
    BY <2>1, <2>2
  <2>4. QED
    BY <2>1, <2>2, <2>3 DEF Types
<1>2. CASE new > blockSize
  <2>1. /\ groups' = [k \in DOMAIN groups |-> Simplified(groups[k], new)]
        /\ blockSize' = new /\ pc' = r /\ return' = r /\ UNCHANGED loop
    BY <1>2 DEF SetBlockSize, Types
  <2>2. groups' \in Seq(Seq(Nat)) /\ Len(groups') = Len(groups)
    <3>1. /\ [k \in DOMAIN groups |-> Simplified(groups[k], new)] \in Seq(Seq(Nat))
          /\ Len([k \in DOMAIN groups |-> Simplified(groups[k], new)]) = Len(groups)
      BY SortedTypes
    <3>2. QED
      BY <2>1, <3>1, Zenon
  <2>3. groups' # << >>
    BY <1>0, <2>2
  <2>4. QED
    BY <2>1, <2>2, <2>3 DEF Types, loop
<1>3. CASE new = blockSize
  <2>1. pc' = r /\ return' = r /\ UNCHANGED <<groups, blockSize, loop>>
    BY <1>3 DEF SetBlockSize, Types
  <2>2. QED
    BY <2>1 DEF Types, loop
<1>4. QED
  BY <1>1, <1>2, <1>3 DEF Types

LEMMA SettleTypes ==
  ASSUME Types, Settle
  PROVE  Types'
<1> DEFINE others == UNCHANGED <<dram, config, mappings, phase, thp, block, held, toRegroup, nErrors>>
<1>0. /\ SettleBlockSize /\ phase = "add" /\ others
      /\ groups \in Seq(Seq(Nat)) /\ groups # << >> /\ blockSize \in Nat
  BY DEF Settle, SettleBlockSize, Types
<1>1. CASE ChooseBlockSize
  BY <1>0, <1>1 DEF ChooseBlockSize, Types, loop
<1>2. CASE StepBlockSize
  <2>1. NextStep \in Nat
    BY <1>0 DEF NextStep
  <2>2. QED
    BY <1>0, <1>2, <2>1, SetBlockSizeTypes DEF StepBlockSize
<1>3. CASE StopSteps
  BY <1>0, <1>3 DEF StopSteps, Types, loop
<1>4. CASE SortGroups
  <2>1. /\ groups' = [k \in DOMAIN groups |-> Sorted(groups[k])]
        /\ pc' = "guess" /\ UNCHANGED <<blockSize, return, loop>>
    BY <1>4 DEF SortGroups
  <2>2. groups' \in Seq(Seq(Nat)) /\ Len(groups') = Len(groups)
    <3>1. /\ [k \in DOMAIN groups |-> Sorted(groups[k])] \in Seq(Seq(Nat))
          /\ Len([k \in DOMAIN groups |-> Sorted(groups[k])]) = Len(groups)
      BY SortedTypes
    <3>2. QED
      BY <2>1, <3>1, Zenon
  <2>3. groups' # << >>
    BY <1>0, <2>2
  <2>4. QED
    BY <1>0, <2>1, <2>2, <2>3 DEF Types, loop
<1>5. CASE Detect
  <2>1. GuessBlockSize \in Nat /\ blockSize \div 2 \in Nat
    BY <1>0, GuessIs
  <2>2. SetBlockSize(blockSize \div 2, "detect") \/ SetBlockSize(GuessBlockSize, "done")
    BY <1>5 DEF Detect
  <2>3. QED
    BY <1>0, <2>1, <2>2, SetBlockSizeTypes
<1>6. CASE ExpandAddress
  <2>1. /\ pc = "expand" /\ StartsBlock
        /\ groups' = groups \/ Takes(groups, groups', Address + offset)
        /\ offset' = offset + target
        /\ UNCHANGED <<blockSize, pc, return, target, group, index, size>>
    BY <1>6, AddToExistingTakes DEF ExpandAddress
  <2>2. /\ group \in DOMAIN groups /\ index \in 1 .. size + 1 /\ size \in Nat
        /\ size <= Len(groups[group]) /\ index <= size
    BY <2>1 DEF Types, StartsBlock
  <2>3. groups[group] \in Seq(Nat) /\ index \in DOMAIN groups[group]
    BY <1>0, <2>2
  <2>4. Address + offset \in Nat
    BY <2>3 DEF Address, Types
  <2>5. /\ groups' \in Seq(Seq(Nat)) /\ groups' # << >>
        /\ group \in DOMAIN groups' /\ size <= Len(groups'[group])
    BY <1>0, <2>1, <2>4, TakesKeepsTypes
  <2>6. QED
    BY <1>0, <2>1, <2>2, <2>5 DEF Types
<1>7. CASE CompareWithEmptyGroup
  BY <1>0, <1>7 DEF CompareWithEmptyGroup, Types, loop
<1>8. CASE NextAddress
  BY <1>0, <1>8 DEF NextAddress, Types, FirstOffset
<1>9. CASE NextGroup
  <2>1. /\ pc = "expand" /\ group \in DOMAIN groups /\ group < Len(groups)
        /\ group' = group + 1 /\ index' = 1 /\ size' = Len(groups[group + 1])
        /\ UNCHANGED <<groups, blockSize, pc, return, target, offset>>
    BY <1>9 DEF NextGroup, NextSize, Types
  <2>2. group + 1 \in DOMAIN groups
    BY <1>0, <2>1
  <2>3. groups[group + 1] \in Seq(Nat)
    BY <1>0, <2>2
  <2>4. size' \in Nat /\ 1 \in 1 .. size' + 1 /\ size' <= Len(groups[group + 1])
    BY <2>1, <2>3
  <2>5. QED
    BY <1>0, <2>1, <2>2, <2>4 DEF Types
<1>10. CASE EndExpansion
  BY <1>0, <1>10 DEF EndExpansion, Types, loop
<1>11. QED
  BY <1>0, <1>1, <1>2, <1>3, <1>4, <1>5, <1>6, <1>7, <1>8, <1>9, <1>10 DEF SettleBlockSize

LEMMA AddTHPsTypes ==
  ASSUME Types, AddTHPs
  PROVE  Types'
<1>0. groups \in Seq(Seq(Nat)) /\ thp \in Nat /\ block \in Nat
  BY OptionsAre DEF Types
<1>1. UNCHANGED <<dram, config, blockSize, pc, return, loop, mappings, phase, held, toRegroup>>
  BY DEF AddTHPs
<1>2. CASE AddBlock \/ AddBlockToExisting
  <2>1. thp < NTHPs /\ phase \in {"fill", "add"}
    BY <1>0, <1>2, OptionsAre DEF AddBlock, AddBlockToExisting
  <2>2. BlockAddress \in Nat
    BY <2>1, NextBlockIs
  <2>3. groups' = groups \/ Takes(groups, groups', BlockAddress)
    BY <1>2, AddTakes, AddToExistingTakes DEF AddBlock, AddBlockToExisting
  <2>4. /\ groups' \in Seq(Seq(Nat))
        /\ groups # << >> => groups' # << >>
        /\ pc = "expand" => group \in DOMAIN groups' /\ size <= Len(groups'[group])
    BY <2>2, <2>3, TakesKeepsTypes
  <2>5. block' = block + 1 /\ thp' = thp /\ nErrors' \in Nat
    BY <1>2 DEF AddBlock, AddBlockToExisting, Types
  <2>6. QED
    BY <1>0, <1>1, <2>1, <2>4, <2>5 DEF Types, loop
<1>3. CASE NextTHP
  <2>1. /\ thp < NTHPs /\ thp' = thp + 1 /\ block' = config.startOffset
        /\ UNCHANGED <<groups, nErrors>>
    BY <1>0, <1>3, OptionsAre DEF NextTHP
  <2>2. thp + 1 \in 0 .. NTHPs /\ config.startOffset \in Nat
    BY <1>0, <2>1, OptionsAre
  <2>3. QED
    BY <1>1, <2>1, <2>2 DEF Types, loop
<1>4. QED
  BY <1>2, <1>3 DEF AddTHPs

LEMMA RegroupTypes ==
  ASSUME Types, Regroup
  PROVE  Types'
<1>0. /\ groups \in Seq(Seq(Nat)) /\ held \in Seq(Nat) /\ toRegroup \in Nat
      /\ UNCHANGED <<config, blockSize, pc, return, loop, mappings>>
  BY DEF Types, Regroup
<1>1. CASE Grouping!StartRegrouping
  BY <1>0, <1>1 DEF Grouping!StartRegrouping, Types, loop
<1>2. CASE Grouping!EraseFirstGroup
  <2>1. /\ phase = "regroup" /\ toRegroup > 0 /\ toRegroup <= Len(groups)
        /\ held' = Head(groups) /\ groups' = Tail(groups) /\ toRegroup' = toRegroup - 1
        /\ UNCHANGED <<dram, phase, thp, block, nErrors>>
    BY <1>2 DEF Grouping!EraseFirstGroup, Grouping!MoreToRegroup, Types
  <2>2. /\ held' \in Seq(Nat) /\ groups' \in Seq(Seq(Nat))
        /\ toRegroup' \in Nat /\ toRegroup' <= Len(groups')
    BY <1>0, <2>1
  <2>3. QED
    BY <1>0, <2>1, <2>2 DEF Types, loop
<1>3. CASE Grouping!ReAddAddress
  <2>1. /\ phase = "regroup" /\ held # << >> /\ Takes(groups, groups', Head(held))
        /\ held' = Tail(held) /\ UNCHANGED <<dram, phase, thp, block, toRegroup, nErrors>>
    BY <1>3, ReAddTakes DEF Grouping!ReAddAddress
  <2>2. Head(held) \in Nat /\ held' \in Seq(Nat)
    BY <1>0, <2>1
  <2>3. groups' \in Seq(Seq(Nat)) /\ Len(groups') >= Len(groups)
    BY <2>1, <2>2, TakesKeepsTypes
  <2>4. toRegroup <= Len(groups')
    BY <1>0, <2>1, <2>3 DEF Types
  <2>5. QED
    BY <1>0, <2>1, <2>2, <2>3, <2>4 DEF Types, loop
<1>4. CASE Grouping!TestPlausible
  <2>1. /\ phase = "regroup" /\ pc = "main"
        /\ IF IsNumberPowerOfTwo(Len(groups))
           THEN phase' = "add" /\ UNCHANGED toRegroup
           ELSE toRegroup' = Len(groups) /\ UNCHANGED phase
        /\ UNCHANGED <<dram, groups, thp, block, held, nErrors>>
    BY <1>4 DEF Grouping!TestPlausible, Grouping!IsNumberPowerOfTwo, IsNumberPowerOfTwo, Types
  <2>2. ASSUME IsNumberPowerOfTwo(Len(groups)), groups = << >>
        PROVE  FALSE
    <3>1. \E i \in 0 .. 0 : 0 = 2^i
      BY <2>2 DEF IsNumberPowerOfTwo
    <3>2. 2^0 = 1
      OBVIOUS
    <3>3. QED
      BY <3>1, <3>2
  <2>3. Len(groups) \in Nat
    BY <1>0
  <2>4. QED
    BY <1>0, <2>1, <2>2, <2>3 DEF Types, loop
<1>5. QED
  BY <1>1, <1>2, <1>3, <1>4 DEF Regroup

LEMMA TypesInit == Init => Types
<1> SUFFICES ASSUME Init
             PROVE  Types
  OBVIOUS
<1>1. config \in Options /\ config.initialBlockSize \in Nat /\ config.startOffset \in Nat
  BY AmdreAssumption, BlockSizeAssumption DEF Init, BlockSizeInit
<1>2. 0 \in 0 .. NTHPs
  BY AmdreAssumption DEF NTHPs
<1>3. QED
  BY <1>1, <1>2 DEF Init, BlockSizeInit, Types

LEMMA TypesNext == Types /\ [Next]_vars => Types'
<1> SUFFICES ASSUME Types, [Next]_vars
             PROVE  Types'
  OBVIOUS
<1>1. CASE AddBlockCrashes
  BY <1>1 DEF AddBlockCrashes, Types, loop
<1>2. CASE Finish
  BY <1>2 DEF Finish, Grouping!Finish, Types, loop
<1>3. CASE UNCHANGED vars
  BY <1>3 DEF vars, loop, Types
<1>4. QED
  BY <1>1, <1>2, <1>3, AddTHPsTypes, RegroupTypes, SettleTypes DEF Next

-----------------------------------------------------------------------------
(* Blocks and THPs *)

THPSize == PagesPerTHP * PageSize

LEMMA PowerIs ==
  ASSUME NEW n \in Nat
  PROVE  IsNumberPowerOfTwo(n) <=> IsPower(n)
<1>1. ASSUME NEW i \in Nat, n = 2^i
      PROVE  i \in 0 .. n
  BY <1>1, PowerAbove
<1>2. QED
  BY <1>1 DEF IsNumberPowerOfTwo, IsPower

LEMMA THPsAre ==
  ASSUME Types
  PROVE  /\ THPSize \in Nat \ {0} /\ IsPower(THPSize)
         /\ \A t \in 1 .. NTHPs : mappings[t] \in Nat /\ mappings[t] % THPSize = 0
         /\ \A t, u \in 1 .. NTHPs : t # u => mappings[t] # mappings[u]
         /\ \A t \in 1 .. NTHPs, o \in 0 .. THPSize - 1 : mappings[t] + o \in DOMAIN dram.cells
<1>1. PagesPerTHP \in Nat \ {0} /\ PageSize \in Nat \ {0} /\ IsNumberPowerOfTwo(THPSize)
  BY AmdreAssumption DEF THPSize
<1>2. THPSize \in Nat \ {0}
  BY <1>1 DEF THPSize
<1>3. IsPower(THPSize)
  BY <1>1, <1>2, PowerIs
<1>4. /\ mappings \in Mappings /\ dram \in Memories
      /\ \A t \in 1 .. NTHPs : mappings[t] \in Nat
  BY OptionsAre DEF Types
<1>5. \A t, u \in 1 .. NTHPs : mappings[t] % THPSize = 0 /\ (t # u => mappings[t] # mappings[u])
  BY <1>4, AmdreAssumption DEF THPSize
<1>6. \A t \in 1 .. NTHPs, o \in 0 .. THPSize - 1 : mappings[t] + o \in DOMAIN dram.cells
  BY <1>4, AmdreAssumption DEF THPSize
<1>7. QED
  BY <1>2, <1>3, <1>4, <1>5, <1>6

(* No two THPs share an address. *)
LEMMA THPsApart ==
  ASSUME Types, NEW t \in 1 .. NTHPs, NEW u \in 1 .. NTHPs,
         NEW o \in 0 .. THPSize - 1, NEW p \in 0 .. THPSize - 1,
         mappings[t] + o = mappings[u] + p
  PROVE  t = u /\ o = p
<1>1. THPSize \in Nat \ {0} /\ mappings[t] \in Nat /\ mappings[u] \in Nat
  BY THPsAre
<1>2. PICK x \in Nat : mappings[t] = x * THPSize
  BY <1>1, THPsAre, RemainderIs
<1>3. PICK y \in Nat : mappings[u] = y * THPSize
  BY <1>1, THPsAre, RemainderIs
<1> DEFINE T == THPSize
<1>4. (x - y) * T = p - o
  BY <1>1, <1>2, <1>3
<1>5. x = y
  <2>1. x - y >= 1 => (x - y) * T >= T
    BY <1>1
  <2>2. x - y <= -1 => (x - y) * T <= - T
    BY <1>1
  <2>3. p - o < T /\ p - o > - T
    BY <1>1
  <2>4. QED
    BY <1>1, <1>4, <2>1, <2>2, <2>3
<1>6. mappings[t] = mappings[u]
  BY <1>2, <1>3, <1>5
<1>7. t = u
  BY <1>6, THPsAre
<1>8. QED
  BY <1>1, <1>6, <1>7

(* A power of two that is not larger divides the THPs and their addresses. *)
LEMMA THPsDivide ==
  ASSUME Types, NEW s \in Nat, IsPower(s), s <= THPSize
  PROVE  /\ s \in Nat \ {0}
         /\ \E q \in Nat : THPSize = q * s
         /\ \A t \in 1 .. NTHPs : \E q \in Nat : mappings[t] = q * s
<1>1. s \in Nat \ {0} /\ THPSize \in Nat \ {0} /\ IsPower(THPSize)
  BY THPsAre, PowerSteps
<1>2. PICK q \in Nat : THPSize = q * s
  BY <1>1, PowersCompare
<1>3. ASSUME NEW t \in 1 .. NTHPs
      PROVE  \E r \in Nat : mappings[t] = r * s
  <2>1. PICK x \in Nat : mappings[t] = x * THPSize
    BY <1>1, THPsAre, RemainderIs
  <2>2. mappings[t] = (x * q) * s /\ x * q \in Nat
    BY <1>1, <1>2, <2>1
  <2>3. QED
    BY <2>2
<1>4. QED
  BY <1>1, <1>2, <1>3

(* A block lies within its THP, and begins at a multiple of its size when  *)
(* that is a power of two.                                                 *)
LEMMA BlockIs ==
  ASSUME Types, blockSize # 0, NEW i \in Nat, i < EndBlock
  PROVE  /\ i \in 0 .. THPSize - 1 /\ i * blockSize \in 0 .. THPSize - 1
         /\ blockSize <= THPSize
<1> DEFINE end == config.endOffset * PageSize
           n == end \div blockSize
<1>1. /\ blockSize \in Nat \ {0} /\ THPSize \in Nat \ {0}
      /\ config.endOffset \in Nat /\ config.endOffset <= PagesPerTHP
      /\ PageSize \in Nat \ {0} /\ PagesPerTHP \in Nat
  BY OptionsAre, THPsAre, AmdreAssumption DEF Types
<1>2. end \in Nat /\ end <= THPSize
  BY <1>1 DEF THPSize
<1>3. n \in Nat /\ n * blockSize <= end
  <2> HIDE DEF end
  <2>1. QED
    BY <1>1, <1>2
<1>4. i < n
  BY DEF EndBlock
<1> HIDE DEF end, n
<1>5. i + 1 <= n
  BY <1>1, <1>3, <1>4
<1>6. (i + 1) * blockSize <= n * blockSize
  BY <1>1, <1>3, <1>5
<1>7. (i + 1) * blockSize = i * blockSize + blockSize
  BY <1>1
<1>8. i * blockSize + blockSize <= THPSize
  BY <1>1, <1>2, <1>3, <1>6, <1>7
<1>9. i * blockSize \in Nat /\ i * blockSize >= i
  BY <1>1
<1>10. QED
  BY <1>1, <1>8, <1>9

LEMMA BlocksAre ==
  ASSUME Types, blockSize # 0, block < EndBlock
  PROVE  /\ block \in 0 .. THPSize - 1 /\ block * blockSize \in 0 .. THPSize - 1
         /\ blockSize <= THPSize
BY BlockIs DEF Types

-----------------------------------------------------------------------------
(* Multiples of block sizes *)

LEMMA MultiplesOfHalf ==
  ASSUME NEW a \in Nat, NEW t \in Nat \ {0}, a % (2 * t) = 0
  PROVE  /\ a % t = 0 /\ (a + t) % t = 0
         /\ (a + t) % (2 * t) # 0
<1>0. 2 * t \in Nat \ {0} /\ a + t \in Nat
  OBVIOUS
<1>1. PICK q \in Nat : a = q * (2 * t)
  BY <1>0, RemainderIs
<1>2. a = (2 * q) * t /\ a + t = (2 * q + 1) * t
  BY <1>1
<1>3. a % t = 0 /\ (a + t) % t = 0
  BY <1>0, <1>2, RemainderIs
<1>4. ASSUME NEW r \in Nat, a + t = r * (2 * t)
      PROVE  FALSE
  <2>1. (2 * (r - q) - 1) * t = 0
    BY <1>1, <1>4
  <2>2. 2 * (r - q) - 1 >= 1 => (2 * (r - q) - 1) * t >= t
    OBVIOUS
  <2>3. 2 * (r - q) - 1 <= -1 => (2 * (r - q) - 1) * t <= - t
    OBVIOUS
  <2>4. 2 * (r - q) - 1 # 0
    OBVIOUS
  <2>5. QED
    BY <2>1, <2>2, <2>3, <2>4
<1>5. (a + t) % (2 * t) # 0
  <2> DEFINE u == 2 * t
             b == a + t
  <2>1. u \in Nat \ {0} /\ b \in Nat /\ \A r \in Nat : b # r * u
    BY <1>0, <1>4
  <2> HIDE DEF u, b
  <2>2. b % u # 0
    BY <2>1, RemainderIs
  <2>3. QED
    BY <2>2 DEF u, b
<1>6. QED
  BY <1>3, <1>5

(* A block that begins within a THP ends there, too. *)
LEMMA BlockEndsInTHP ==
  ASSUME NEW s \in Nat \ {0}, NEW T \in Nat, NEW m \in Nat, NEW o \in 0 .. T - 1,
         \E q \in Nat : T = q * s, \E q \in Nat : m = q * s, (m + o) % s = 0
  PROVE  o + s <= T
<1>1. PICK x \in Nat : T = x * s
  OBVIOUS
<1>2. PICK y \in Nat : m = y * s
  OBVIOUS
<1> DEFINE a == m + o
<1>3. PICK z \in Nat : a = z * s
  <2>1. a \in Nat /\ a % s = 0
    OBVIOUS
  <2> HIDE DEF a
  <2>2. QED
    BY <2>1, RemainderIs
<1>4. (x - (z - y)) * s = T - o
  BY <1>1, <1>2, <1>3
<1>5. x - (z - y) <= 0 => (x - (z - y)) * s <= 0
  OBVIOUS
<1>6. x - (z - y) >= 1
  BY <1>4, <1>5
<1>7. (x - (z - y)) * s >= s
  BY <1>6
<1>8. QED
  BY <1>4, <1>7

-----------------------------------------------------------------------------
(* What lies in the groups when the initial block size is a power of two,  *)
(* from phase to phase; LayoutInv is inductive.                            *)

InTHP(a, ts) == \E t \in ts, o \in 0 .. THPSize - 1 : a = mappings[t] + o

InitialTHPs == 1 .. NInitialTHPs
AdditionalTHPs == NInitialTHPs + 1 .. NTHPs

(* A block of one of these THPs that main has already been at *)
IsOffered(a, ts) ==
  \E t \in ts, i \in config.startOffset .. THPSize - 1 :
    /\ t <= thp \/ (t = thp + 1 /\ i < block)
    /\ i * blockSize < THPSize /\ blockSize <= THPSize
    /\ a = mappings[t] + i * blockSize

Filled == \A k \in DOMAIN groups : groups[k] # << >>

Filling ==
  /\ blockSize = config.initialBlockSize /\ held = << >>
  /\ thp <= NInitialTHPs /\ block >= config.startOffset
  /\ thp = NInitialTHPs => block = config.startOffset
  /\ groups # << >> => config.initialBlockSize <= THPSize
  /\ \A a \in Elements(groups) : IsOffered(a, InitialTHPs)
  /\ Distinct(groups) /\ Filled

HeldApart ==
  /\ \A i, j \in DOMAIN held : held[i] = held[j] => i = j
  /\ Elements(groups) \cap Range(held) = {}

Regrouping ==
  /\ blockSize = config.initialBlockSize
  /\ thp = NInitialTHPs /\ block = config.startOffset
  /\ groups # << >> \/ held # << >> => config.initialBlockSize <= THPSize
  /\ \A a \in Elements(groups) \cup Range(held) : InTHP(a, InitialTHPs) /\ a % blockSize = 0
  /\ Distinct(groups) /\ HeldApart /\ Filled

(* The address inside a block whose head expandBlocks has been at *)
IsBehind(a) ==
  \E k \in DOMAIN groups : \E i \in DOMAIN groups[k] :
    /\ groups[k][i] + target = a
    /\ k < group \/ (k = group /\ (i < index \/ (i = index /\ offset = blockSize)))

(* expandBlocks halves the block size. *)
Expanding ==
  /\ IsNumberPowerOfTwo(blockSize) /\ blockSize <= config.initialBlockSize
  /\ IsNumberPowerOfTwo(target) /\ blockSize = 2 * target
  /\ offset \in {target, blockSize}
  /\ return \in {"step", "detect"}
  /\ return = "step" => IsNumberPowerOfTwo(config.blockSize) /\ config.blockSize <= target
  /\ return = "detect" => Filled
  /\ \A a \in Elements(groups) : a % target = 0 /\ (a % blockSize = 0 \/ IsBehind(a))
  /\ Distinct(groups)

(* With a guess of 0 expandBlocks never leaves its first address. *)
Stuck ==
  /\ target = 0 /\ offset = 0 /\ group = 1 /\ index = 1
  /\ size >= 1 /\ groups[1][1] % blockSize = 0

Settling ==
  /\ held = << >> /\ thp = NInitialTHPs /\ block = config.startOffset
  /\ config.initialBlockSize <= THPSize
  /\ \A a \in Elements(groups) : InTHP(a, InitialTHPs)
  /\ pc # "expand" => Distinct(groups) /\ \A a \in Elements(groups) : a % blockSize = 0
  /\ pc \in {"main", "detect", "guess"} =>
       IsNumberPowerOfTwo(blockSize) /\ blockSize <= config.initialBlockSize /\ Filled
  /\ pc = "step" =>
       /\ IsNumberPowerOfTwo(blockSize) /\ IsNumberPowerOfTwo(config.blockSize)
       /\ config.blockSize < blockSize => blockSize <= config.initialBlockSize
  /\ pc = "expand" => Expanding \/ Stuck

Adding ==
  /\ held = << >> /\ thp >= NInitialTHPs /\ block >= config.startOffset
  /\ \A a \in Elements(groups) :
       (InTHP(a, InitialTHPs) /\ a % blockSize = 0) \/ IsOffered(a, AdditionalTHPs)
  /\ Distinct(groups)

Sound ==
  /\ blockSize > 0
  /\ phase = "fill" => Filling
  /\ phase = "regroup" => Regrouping
  /\ phase = "add" /\ pc # "done" => Settling
  /\ pc = "done" => Adding

LayoutInv == IsNumberPowerOfTwo(config.initialBlockSize) /\ pc # "crashed" => Sound

(* Nothing but addresses of the memory, also after a crash *)
InMemory ==
  IsNumberPowerOfTwo(config.initialBlockSize) =>
    Elements(groups) \cup Range(held) \subseteq DOMAIN dram.cells

LEMMA ElementsIn ==
  ASSUME NEW S, NEW g \in Seq(Seq(S))
  PROVE  Elements(g) \subseteq S
<1>1. \A x \in Elements(g) : \E k \in DOMAIN g : \E i \in DOMAIN g[k] : g[k][i] = x
  BY ElementsAre
<1>2. QED
  BY <1>1

LEMMA NoElements ==
  /\ Elements(<< >>) = {} /\ Distinct(<< >>)
  /\ Range(<< >>) = {}
BY DEF Elements, Distinct, Range

-----------------------------------------------------------------------------
(* The blocks that main has been at *)

LEMMA OfferedInTHP ==
  ASSUME Types, blockSize # 0, NEW ts, ts \subseteq 1 .. NTHPs, NEW a, IsOffered(a, ts)
  PROVE  /\ InTHP(a, ts)
         /\ blockSize <= THPSize /\ (IsPower(blockSize) => a % blockSize = 0)
<1>1. PICK t \in ts, i \in config.startOffset .. THPSize - 1 :
        i * blockSize < THPSize /\ blockSize <= THPSize /\ a = mappings[t] + i * blockSize
  BY DEF IsOffered
<1>2. /\ blockSize \in Nat \ {0} /\ i \in Nat /\ THPSize \in Nat /\ t \in 1 .. NTHPs
      /\ mappings[t] \in Nat
  BY OptionsAre, THPsAre DEF Types
<1>3. i * blockSize \in 0 .. THPSize - 1
  BY <1>1, <1>2
<1>4. InTHP(a, ts)
  BY <1>1, <1>3 DEF InTHP
<1>5. ASSUME IsPower(blockSize)
      PROVE  a % blockSize = 0
  <2>1. PICK q \in Nat : mappings[t] = q * blockSize
    BY <1>1, <1>2, <1>5, THPsDivide
  <2>2. a = (q + i) * blockSize /\ q + i \in Nat
    BY <1>1, <1>2, <2>1
  <2>3. a \in Nat
    BY <1>2, <2>2
  <2>4. QED
    BY <1>2, <2>2, <2>3, RemainderIs
<1>6. QED
  BY <1>1, <1>4, <1>5

LEMMA OfferedKept ==
  ASSUME Types, UNCHANGED <<config, blockSize, mappings>>,
         (thp' = thp /\ block' = block + 1) \/ thp' = thp + 1,
         NEW a, NEW ts, ts \subseteq Nat, IsOffered(a, ts)
  PROVE  IsOffered(a, ts)'
<1>1. PICK t \in ts, i \in config.startOffset .. THPSize - 1 :
        /\ t <= thp \/ (t = thp + 1 /\ i < block)
        /\ i * blockSize < THPSize /\ blockSize <= THPSize /\ a = mappings[t] + i * blockSize
  BY DEF IsOffered
<1>2. thp \in Nat /\ block \in Nat /\ t \in Nat /\ i \in Int
  BY OptionsAre, THPsAre DEF Types
<1>3. t <= thp' \/ (t = thp' + 1 /\ i < block')
  BY <1>1, <1>2
<1>4. QED
  BY <1>1, <1>3 DEF IsOffered, THPSize

LEMMA OfferedNew ==
  ASSUME Types, blockSize # 0, block < EndBlock, block >= config.startOffset,
         NEW ts, thp + 1 \in ts,
         UNCHANGED <<config, blockSize, mappings, thp>>, block' = block + 1,
         NEW a, a = BlockAddress
  PROVE  IsOffered(a, ts)'
<1>1. /\ block \in 0 .. THPSize - 1 /\ block * blockSize \in 0 .. THPSize - 1
      /\ blockSize <= THPSize
  BY BlocksAre
<1>2. /\ block \in config.startOffset .. THPSize - 1 /\ block * blockSize < THPSize
      /\ block < block' /\ blockSize <= THPSize
  BY <1>1, OptionsAre, THPsAre DEF Types
<1>3. a = mappings[thp + 1] + block * blockSize
  BY DEF BlockAddress
<1>4. QED
  BY <1>2, <1>3 DEF IsOffered, THPSize

LEMMA OfferedOther ==
  ASSUME Types, blockSize # 0, thp < NTHPs, block < EndBlock,
         NEW ts, ts \subseteq 1 .. NTHPs, NEW a, IsOffered(a, ts)
  PROVE  a # BlockAddress
<1> SUFFICES ASSUME a = BlockAddress
             PROVE  FALSE
  OBVIOUS
<1>1. PICK t \in ts, i \in config.startOffset .. THPSize - 1 :
        /\ t <= thp \/ (t = thp + 1 /\ i < block)
        /\ i * blockSize < THPSize /\ blockSize <= THPSize /\ a = mappings[t] + i * blockSize
  BY DEF IsOffered
<1>2. /\ blockSize \in Nat \ {0} /\ i \in Nat /\ THPSize \in Nat /\ t \in 1 .. NTHPs
      /\ thp \in Nat /\ block \in Nat /\ thp + 1 \in 1 .. NTHPs
  <2>1. blockSize \in Nat \ {0} /\ thp \in Nat /\ block \in Nat
    BY DEF Types
  <2>2. config.startOffset \in Nat /\ THPSize \in Nat /\ thp + 1 \in 1 .. NTHPs
    BY OptionsAre, THPsAre, NextBlockIs
  <2>3. QED
    BY <1>1, <2>1, <2>2
<1>3. i * blockSize \in 0 .. THPSize - 1 /\ block * blockSize \in 0 .. THPSize - 1
  BY <1>1, <1>2, BlocksAre
<1>4. mappings[t] + i * blockSize = mappings[thp + 1] + block * blockSize
  BY <1>1 DEF BlockAddress
<1>5. t = thp + 1 /\ i * blockSize = block * blockSize
  <2> DEFINE o == i * blockSize
             p == block * blockSize
             u == thp + 1
  <2>1. o \in 0 .. THPSize - 1 /\ p \in 0 .. THPSize - 1 /\ u \in 1 .. NTHPs
        /\ mappings[t] + o = mappings[u] + p
    BY <1>2, <1>3, <1>4
  <2> HIDE DEF o, p, u
  <2>2. t = u /\ o = p
    BY <1>2, <2>1, THPsApart
  <2>3. QED
    BY <2>2 DEF o, p, u
<1>6. i < block
  BY <1>1, <1>2, <1>5
<1>7. (block - i) * blockSize = 0
  BY <1>2, <1>5
<1>8. (block - i) * blockSize >= blockSize
  BY <1>2, <1>6
<1>9. QED
  BY <1>2, <1>7, <1>8

(* An address of another THP *)
LEMMA OtherTHP ==
  ASSUME Types, blockSize # 0, thp < NTHPs, block < EndBlock,
         NEW a, InTHP(a, InitialTHPs), thp >= NInitialTHPs
  PROVE  a # BlockAddress
<1> SUFFICES ASSUME a = BlockAddress
             PROVE  FALSE
  OBVIOUS
<1>1. PICK t \in InitialTHPs, o \in 0 .. THPSize - 1 : a = mappings[t] + o
  BY DEF InTHP
<1>2. /\ t \in 1 .. NTHPs /\ t <= NInitialTHPs /\ thp \in Nat /\ thp + 1 \in 1 .. NTHPs
      /\ NInitialTHPs \in Nat
  BY OptionsAre, NextBlockIs DEF Types, InitialTHPs
<1> DEFINE p == block * blockSize
           u == thp + 1
<1>3. p \in 0 .. THPSize - 1 /\ u \in 1 .. NTHPs /\ mappings[t] + o = mappings[u] + p
  BY <1>1, <1>2, BlocksAre DEF BlockAddress
<1>4. t # u
  BY <1>2
<1> HIDE DEF p, u
<1>5. QED
  BY <1>2, <1>3, <1>4, THPsApart

-----------------------------------------------------------------------------
(* The initial THPs *)

LEMMA FillBlock ==
  ASSUME Types, blockSize # 0, Filling, AddBlock,
         UNCHANGED <<config, blockSize, mappings, held>>
  PROVE  Filling'
<1>1. /\ thp < NInitialTHPs /\ block < EndBlock
      /\ block' = block + 1 /\ thp' = thp
      /\ Takes(groups, groups', BlockAddress)
  BY AddTakes DEF AddBlock
<1>2. /\ thp < NTHPs /\ thp \in Nat /\ thp + 1 \in InitialTHPs /\ InitialTHPs \subseteq 1 .. NTHPs
      /\ InitialTHPs \subseteq Nat /\ block \in Nat /\ config.startOffset \in Nat
  BY <1>1, OptionsAre DEF Types, InitialTHPs
<1>3. PICK a \in Nat : a = BlockAddress
  BY <1>2, NextBlockIs
<1>4. groups \in Seq(Seq(Nat))
  BY DEF Types
<1>5. a \notin Elements(groups)
  BY <1>1, <1>2, <1>3, OfferedOther DEF Filling
<1>6. /\ Elements(groups') = Elements(groups) \cup {a} /\ Distinct(groups')
      /\ \A k \in DOMAIN groups' : groups'[k] # << >>
  <2>1. Takes(groups, groups', a)
    BY <1>1, <1>3
  <2>2. Distinct(groups) /\ \A k \in DOMAIN groups : groups[k] # << >>
    BY DEF Filling, Filled
  <2>3. QED
    BY <1>4, <1>5, <2>1, <2>2, TakesPlaces
<1>7. IsOffered(a, InitialTHPs)'
  BY <1>1, <1>2, <1>3, OfferedNew DEF Filling
<1>8. \A b \in Elements(groups) : IsOffered(b, InitialTHPs)'
  BY <1>1, <1>2, OfferedKept DEF Filling
<1>9. \A b \in Elements(groups') : IsOffered(b, InitialTHPs)'
  BY <1>6, <1>7, <1>8
<1>10. config.initialBlockSize <= THPSize
  BY <1>1, BlocksAre DEF Filling
<1>11. block + 1 >= config.startOffset
  BY <1>2 DEF Filling
<1>12. QED
  BY <1>1, <1>2, <1>6, <1>9, <1>10, <1>11 DEF Filling, Filled, InitialTHPs, THPSize

LEMMA FillNextTHP ==
  ASSUME Types, Filling, phase = "fill", NextTHP,
         UNCHANGED <<config, blockSize, mappings, held>>
  PROVE  Filling'
<1>1. /\ thp < NInitialTHPs /\ thp' = thp + 1 /\ block' = config.startOffset /\ groups' = groups
  BY DEF NextTHP
<1>2. thp \in Nat /\ NInitialTHPs \in Nat /\ config.startOffset \in Nat /\ InitialTHPs \subseteq Nat
  BY OptionsAre DEF Types, InitialTHPs
<1>3. \A b \in Elements(groups) : IsOffered(b, InitialTHPs)'
  BY <1>1, <1>2, OfferedKept DEF Filling
<1>4. QED
  BY <1>1, <1>2, <1>3 DEF Filling, Filled, InitialTHPs, THPSize

LEMMA StartRegroup ==
  ASSUME Types, blockSize # 0, IsPower(config.initialBlockSize), Filling,
         Grouping!StartRegrouping, UNCHANGED <<config, blockSize, mappings>>
  PROVE  Regrouping'
<1>1. /\ thp >= NInitialTHPs
      /\ UNCHANGED <<dram, groups, thp, block, held, config, blockSize, mappings>>
  BY DEF Grouping!StartRegrouping
<1>2. /\ thp \in Nat /\ NInitialTHPs \in Nat /\ InitialTHPs \subseteq 1 .. NTHPs
  BY OptionsAre DEF Types, InitialTHPs
<1>3. thp = NInitialTHPs /\ block = config.startOffset
  BY <1>1, <1>2 DEF Filling
<1>4. ASSUME NEW a \in Elements(groups)
      PROVE  InTHP(a, InitialTHPs) /\ a % blockSize = 0
  <2>1. groups # << >>
    BY <1>4, NoElements
  <2>2. blockSize <= THPSize /\ IsPower(blockSize)
    BY <2>1 DEF Filling
  <2>3. IsOffered(a, InitialTHPs)
    BY <1>4 DEF Filling
  <2>4. QED
    BY <1>2, <2>2, <2>3, OfferedInTHP
<1>5. HeldApart /\ Range(held) = {}
  BY NoElements DEF Filling, HeldApart
<1>6. Regrouping
  BY <1>3, <1>4, <1>5 DEF Filling, Regrouping
<1>7. QED
  BY <1>1, <1>6 DEF Regrouping, Filled, HeldApart, InTHP, THPSize

-----------------------------------------------------------------------------
(* Regrouping *)

LEMMA ErasePlaces ==
  ASSUME NEW g \in Seq(Seq(Nat)), g # << >>
  PROVE  /\ Tail(g) \in Seq(Seq(Nat))
         /\ Elements(Tail(g)) \subseteq Elements(g) /\ Range(Head(g)) \subseteq Elements(g)
         /\ Distinct(g) => /\ Distinct(Tail(g)) /\ Elements(Tail(g)) \cap Range(Head(g)) = {}
                           /\ \A i, j \in DOMAIN Head(g) : Head(g)[i] = Head(g)[j] => i = j
         /\ (\A k \in DOMAIN g : g[k] # << >>) => \A k \in DOMAIN Tail(g) : Tail(g)[k] # << >>
<1> DEFINE h == Tail(g)
           first == Head(g)
<1>1. /\ h \in Seq(Seq(Nat)) /\ first = g[1] /\ 1 \in DOMAIN g
      /\ \A k \in DOMAIN h : k \in Nat /\ k + 1 \in DOMAIN g /\ k + 1 # 1 /\ h[k] = g[k + 1]
  OBVIOUS
<1> HIDE DEF h, first
<1>2. \A x : x \in Elements(g) <=> \E k \in DOMAIN g : \E i \in DOMAIN g[k] : g[k][i] = x
  BY ElementsAre
<1>3. \A x : x \in Elements(h) <=> \E k \in DOMAIN h : \E i \in DOMAIN h[k] : h[k][i] = x
  BY ElementsAre
<1>4. \A x : x \in Range(first) <=> \E i \in DOMAIN g[1] : g[1][i] = x
  BY <1>1 DEF Range
<1>5. Elements(h) \subseteq Elements(g)
  BY <1>1, <1>2, <1>3
<1>6. Range(first) \subseteq Elements(g)
  BY <1>1, <1>2, <1>4
<1>7. ASSUME Distinct(g)
      PROVE  /\ Distinct(h) /\ Elements(h) \cap Range(first) = {}
             /\ \A i, j \in DOMAIN first : first[i] = first[j] => i = j
  <2>1. ASSUME NEW k \in DOMAIN h, NEW l \in DOMAIN h, NEW i \in DOMAIN h[k], NEW j \in DOMAIN h[l],
               h[k][i] = h[l][j]
        PROVE  k = l /\ i = j
    <3>1. k + 1 \in DOMAIN g /\ l + 1 \in DOMAIN g /\ h[k] = g[k + 1] /\ h[l] = g[l + 1]
      BY <1>1, <2>1
    <3>2. k + 1 = l + 1 /\ i = j
      BY <1>7, <2>1, <3>1 DEF Distinct
    <3>3. QED
      BY <1>1, <3>2
  <2>2. ASSUME NEW x \in Elements(h), x \in Range(first)
        PROVE  FALSE
    <3>1. PICK k \in DOMAIN h : \E i \in DOMAIN h[k] : h[k][i] = x
      BY <1>3
    <3>2. PICK j \in DOMAIN g[1] : g[1][j] = x
      BY <1>4, <2>2
    <3>3. QED
      BY <1>1, <1>7, <3>1, <3>2 DEF Distinct
  <2>3. \A i, j \in DOMAIN first : first[i] = first[j] => i = j
    BY <1>1, <1>7 DEF Distinct
  <2>4. QED
    BY <2>1, <2>2, <2>3 DEF Distinct
<1>8. (\A k \in DOMAIN g : g[k] # << >>) => \A k \in DOMAIN h : h[k] # << >>
  BY <1>1
<1>9. QED
  BY <1>1, <1>5, <1>6, <1>7, <1>8 DEF h, first

LEMMA HeadApart ==
  ASSUME NEW s \in Seq(Nat), s # << >>
  PROVE  /\ Head(s) \in Nat /\ Head(s) \in Range(s) /\ Range(Tail(s)) \subseteq Range(s)
         /\ (\A i, j \in DOMAIN s : s[i] = s[j] => i = j) =>
              /\ Head(s) \notin Range(Tail(s))
              /\ \A i, j \in DOMAIN Tail(s) : Tail(s)[i] = Tail(s)[j] => i = j
<1> DEFINE t == Tail(s)
<1>1. /\ Head(s) = s[1] /\ 1 \in DOMAIN s /\ s[1] \in Nat
      /\ \A i \in DOMAIN t : i \in Nat /\ i + 1 \in DOMAIN s /\ i + 1 # 1 /\ t[i] = s[i + 1]
  OBVIOUS
<1> HIDE DEF t
<1>2. Head(s) \in Range(s) /\ Range(t) \subseteq Range(s)
  BY <1>1 DEF Range
<1>3. ASSUME \A i, j \in DOMAIN s : s[i] = s[j] => i = j
      PROVE  /\ Head(s) \notin Range(t)
             /\ \A i, j \in DOMAIN t : t[i] = t[j] => i = j
  <2>1. Head(s) \notin Range(t)
    BY <1>1, <1>3 DEF Range
  <2>2. ASSUME NEW i \in DOMAIN t, NEW j \in DOMAIN t, t[i] = t[j]
        PROVE  i = j
    <3>1. i + 1 = j + 1
      BY <1>1, <1>3, <2>2
    <3>2. QED
      BY <1>1, <3>1
  <2>3. QED
    BY <2>1, <2>2
<1>4. QED
  BY <1>1, <1>2, <1>3 DEF t

LEMMA EraseGroup ==
  ASSUME Types, Regrouping, phase = "regroup", Grouping!EraseFirstGroup,
         UNCHANGED <<config, blockSize, mappings>>
  PROVE  Regrouping'
<1>1. /\ groups # << >> /\ held' = Head(groups) /\ groups' = Tail(groups)
      /\ UNCHANGED <<thp, block, config, blockSize, mappings>>
  BY DEF Grouping!EraseFirstGroup, Grouping!MoreToRegroup, Types
<1>2. groups \in Seq(Seq(Nat))
  BY DEF Types
<1>3. Distinct(groups) /\ \A k \in DOMAIN groups : groups[k] # << >>
  BY DEF Regrouping, Filled
<1>4. /\ Elements(groups') \cup Range(held') \subseteq Elements(groups)
      /\ Distinct(groups')
      /\ Elements(groups') \cap Range(held') = {}
      /\ \A i, j \in DOMAIN held' : held'[i] = held'[j] => i = j
      /\ \A k \in DOMAIN groups' : groups'[k] # << >>
  BY <1>1, <1>2, <1>3, ErasePlaces
<1>5. \A a \in Elements(groups') \cup Range(held') : InTHP(a, InitialTHPs) /\ a % blockSize = 0
  BY <1>4 DEF Regrouping
<1>6. QED
  BY <1>1, <1>4, <1>5 DEF Regrouping, HeldApart, Filled, InTHP, THPSize, InitialTHPs

LEMMA ReAdd ==
  ASSUME Types, Regrouping, Grouping!ReAddAddress, UNCHANGED <<config, blockSize, mappings>>
  PROVE  Regrouping'
<1>1. /\ held # << >> /\ Takes(groups, groups', Head(held)) /\ held' = Tail(held)
      /\ UNCHANGED <<thp, block, config, blockSize, mappings>>
  BY ReAddTakes DEF Grouping!ReAddAddress
<1>2. groups \in Seq(Seq(Nat)) /\ held \in Seq(Nat)
  BY DEF Types
<1>3. /\ Distinct(groups) /\ \A k \in DOMAIN groups : groups[k] # << >>
      /\ \A i, j \in DOMAIN held : held[i] = held[j] => i = j
      /\ Elements(groups) \cap Range(held) = {}
  BY DEF Regrouping, Filled, HeldApart
<1>4. /\ Head(held) \in Nat /\ Head(held) \in Range(held) /\ Range(held') \subseteq Range(held)
      /\ Head(held) \notin Range(held')
      /\ \A i, j \in DOMAIN held' : held'[i] = held'[j] => i = j
  BY <1>1, <1>2, <1>3, HeadApart
<1>5. Head(held) \notin Elements(groups)
  BY <1>3, <1>4
<1>6. /\ Elements(groups') = Elements(groups) \cup {Head(held)} /\ Distinct(groups')
      /\ \A k \in DOMAIN groups' : groups'[k] # << >>
  BY <1>1, <1>2, <1>3, <1>4, <1>5, TakesPlaces
<1>7. Elements(groups') \cap Range(held') = {}
  BY <1>3, <1>4, <1>6
<1>8. \A a \in Elements(groups') \cup Range(held') : InTHP(a, InitialTHPs) /\ a % blockSize = 0
  BY <1>4, <1>6 DEF Regrouping
<1>9. config.initialBlockSize <= THPSize
  BY <1>1 DEF Regrouping
<1>10. QED
  BY <1>1, <1>4, <1>6, <1>7, <1>8, <1>9
     DEF Regrouping, HeldApart, Filled, InTHP, THPSize, InitialTHPs

LEMMA Plausible ==
  ASSUME Types, Types', IsNumberPowerOfTwo(config.initialBlockSize),
         Regrouping, phase = "regroup", Grouping!TestPlausible,
         UNCHANGED <<config, blockSize, mappings, pc>>
  PROVE  /\ phase' = "regroup" => Regrouping'
         /\ phase' = "add" => Settling'
<1>1. /\ held = << >> /\ UNCHANGED <<groups, held, thp, block, config, blockSize, mappings, pc>>
  BY DEF Grouping!TestPlausible
<1>2. pc = "main"
  BY DEF Types
<1>3. ASSUME phase' = "add"
      PROVE  Settling'
  <2>1. groups # << >>
    BY <1>1, <1>3 DEF Types
  <2>2. pc' = "main"
    BY <1>1, <1>2
  <2>3. blockSize' <= config.initialBlockSize'
    BY <1>1, OptionsAre DEF Regrouping
  <2>4. QED
    BY <1>1, <2>1, <2>2, <2>3 DEF Regrouping, Settling, Filled, InTHP, THPSize, InitialTHPs
<1>4. Regrouping'
  BY <1>1 DEF Regrouping, HeldApart, Filled, InTHP, THPSize, InitialTHPs
<1>5. QED
  BY <1>3, <1>4

-----------------------------------------------------------------------------
(* Settling the block size *)

(* What all steps between regrouping and the additional THPs leave alone *)
OthersStay == UNCHANGED <<dram, config, mappings, phase, thp, block, held>>

(* expandBlocks, when it begins *)
LEMMA Shrink ==
  ASSUME Types, blockSize > 0, Settling, pc \in {"step", "guess"},
         NEW new \in Nat, NEW r, new < blockSize, SetBlockSize(new, r), OthersStay,
         new = 0 => Filled,
         new # 0 => /\ IsNumberPowerOfTwo(new) /\ blockSize = 2 * new
                    /\ IsNumberPowerOfTwo(blockSize) /\ blockSize <= config.initialBlockSize
                    /\ r \in {"step", "detect"}
                    /\ r = "step" => IsNumberPowerOfTwo(config.blockSize) /\ config.blockSize <= new
                    /\ r = "detect" => Filled,
         groups # << >>
  PROVE  Settling' /\ pc' = "expand" /\ blockSize' = blockSize
<1>1. /\ pc' = "expand" /\ return' = r /\ target' = new /\ group' = 1 /\ index' = 1
      /\ size' = Len(groups[1]) /\ offset' = new
      /\ UNCHANGED <<groups, blockSize, dram, config, mappings, thp, block, held>>
  BY DEF SetBlockSize, OthersStay, Types
<1>2. /\ groups \in Seq(Seq(Nat)) /\ 1 \in DOMAIN groups /\ groups[1] \in Seq(Nat)
      /\ Distinct(groups) /\ \A a \in Elements(groups) : a % blockSize = 0
  BY DEF Types, Settling
<1>3. ASSUME new = 0
      PROVE  Stuck'
  <2>1. groups[1] # << >>
    BY <1>2, <1>3 DEF Filled
  <2>2. 1 \in DOMAIN groups[1] /\ Len(groups[1]) >= 1
    BY <1>2, <2>1
  <2>3. groups[1][1] \in Elements(groups)
    BY <1>2, <2>2, ElementsAre
  <2>4. groups[1][1] % blockSize = 0
    BY <1>2, <2>3
  <2>5. QED
    BY <1>1, <1>3, <2>2, <2>4 DEF Stuck
<1>4. ASSUME new # 0
      PROVE  Expanding'
  <2>1. \A a \in Elements(groups) : a % new = 0 /\ a % blockSize = 0
    <3> SUFFICES ASSUME NEW a \in Elements(groups)
                 PROVE  a % new = 0 /\ a % blockSize = 0
      OBVIOUS
    <3>1. a \in Nat /\ a % blockSize = 0 /\ blockSize = 2 * new /\ new \in Nat \ {0}
      BY <1>2, <1>4, ElementsIn
    <3>2. a % (2 * new) = 0
      BY <3>1
    <3>3. QED
      BY <3>1, <3>2, MultiplesOfHalf
  <2>2. QED
    BY <1>1, <1>2, <1>4, <2>1 DEF Expanding, Filled
<1>5. Expanding' \/ Stuck'
  BY <1>3, <1>4
<1>6. QED
  BY <1>1, <1>5 DEF Settling, InTHP, THPSize, InitialTHPs

(* simplifyBlocks *)
LEMMA Grow ==
  ASSUME Types, Settling, pc \in {"step", "guess"},
         NEW new \in Nat, NEW r, new > blockSize, SetBlockSize(new, r), OthersStay
  PROVE  /\ blockSize' = new /\ pc' = r
         /\ Distinct(groups') /\ \A a \in Elements(groups') : a % new = 0
         /\ \A a \in Elements(groups') : InTHP(a, InitialTHPs)
<1> DEFINE kept == [k \in DOMAIN groups |->
                      {i \in DOMAIN groups[k] : IsKept(groups[k][i], groups[k], new)}]
<1>1. groups' = [k \in DOMAIN groups |-> Simplified(groups[k], new)] /\ blockSize' = new /\ pc' = r
  BY DEF SetBlockSize, Types
<1>2. groups \in Seq(Seq(Nat)) /\ Distinct(groups)
  BY DEF Types, Settling
<1>3. /\ \A k \in DOMAIN groups : kept[k] \subseteq DOMAIN groups[k]
      /\ groups' = SortedAll(groups, kept)
      /\ \A k \in DOMAIN groups : \A j \in kept[k] : groups[k][j] % new = 0
  BY <1>1 DEF Simplified, IsKept, SortedAll
<1> HIDE DEF kept
<1>4. /\ Distinct(groups') /\ Elements(groups') \subseteq Elements(groups)
      /\ groups' \in Seq(Seq(Nat)) /\ Len(groups') = Len(groups)
      /\ \A k \in DOMAIN groups : \A i \in DOMAIN groups'[k] :
           \E j \in kept[k] : groups'[k][i] = groups[k][j]
  BY <1>2, <1>3, SortsPlaces
<1>5. DOMAIN groups' = DOMAIN groups
  BY <1>2, <1>4
<1>6. ASSUME NEW a \in Elements(groups')
      PROVE  a % new = 0
  <2>1. PICK k \in DOMAIN groups' : \E i \in DOMAIN groups'[k] : groups'[k][i] = a
    BY ElementsAre
  <2>2. PICK i \in DOMAIN groups'[k] : groups'[k][i] = a
    BY <2>1
  <2>3. PICK j \in kept[k] : a = groups[k][j]
    BY <1>4, <1>5, <2>2
  <2>4. groups[k][j] % new = 0
    BY <1>3, <1>5
  <2>5. QED
    BY <2>3, <2>4
<1>7. \A a \in Elements(groups') : InTHP(a, InitialTHPs)
  BY <1>4 DEF Settling
<1>8. QED
  BY <1>1, <1>4, <1>6, <1>7

LEMMA Choose ==
  ASSUME Types, Settling, ChooseBlockSize, OthersStay, blockSize > 0
  PROVE  (pc' # "done" => Settling') /\ (pc' = "done" => Adding') /\ blockSize' > 0
<1>1. /\ pc = "main" /\ UNCHANGED <<groups, blockSize, dram, config, mappings, thp, block, held>>
      /\ pc' \in {"done", "step", "detect"}
      /\ pc' = "step" => IsNumberPowerOfTwo(config.blockSize)
  BY DEF ChooseBlockSize, OthersStay
<1>2. thp \in Nat /\ block \in Nat /\ config.startOffset \in Nat
  BY OptionsAre DEF Types
<1>3. QED
  BY <1>1, <1>2 DEF Settling, Adding, Filled, InTHP, IsOffered, THPSize, InitialTHPs, AdditionalTHPs

LEMMA Step ==
  ASSUME Types, Settling, StepBlockSize, OthersStay, blockSize > 0, groups # << >>
  PROVE  Settling' /\ pc' # "done" /\ blockSize' > 0
<1>1. /\ pc = "step" /\ blockSize # config.blockSize /\ SetBlockSize(NextStep, "step")
      /\ UNCHANGED <<dram, config, mappings, thp, block, held>>
      /\ blockSize \in Nat /\ config.blockSize \in Nat
  BY OptionsAre DEF StepBlockSize, OthersStay, Types
<1>2. IsPower(blockSize) /\ IsPower(config.blockSize)
  BY <1>1, PowerIs DEF Settling
<1>3. CASE config.blockSize < blockSize
  <2>1. NextStep = blockSize \div 2
    BY <1>1, <1>3 DEF NextStep
  <2>2. blockSize # 1
    <3>1. config.blockSize \in Nat \ {0}
      BY <1>2, PowerSteps
    <3>2. QED
      BY <1>1, <1>3, <3>1
  <2>3. PICK h : IsPower(h) /\ h \in Nat \ {0} /\ blockSize = 2 * h /\ blockSize \div 2 = h
    BY <1>2, <2>2, PowerSteps
  <2>4. 2 * config.blockSize <= blockSize
    BY <1>2, <1>3, PowersCompare
  <2>5. config.blockSize <= h /\ h < blockSize /\ NextStep = h
    BY <1>1, <2>1, <2>3, <2>4
  <2>6. /\ IsNumberPowerOfTwo(h) /\ IsNumberPowerOfTwo(blockSize) /\ IsNumberPowerOfTwo(config.blockSize)
        /\ blockSize <= config.initialBlockSize
    BY <1>1, <1>2, <1>3, <2>3, PowerIs DEF Settling
  <2>7. SetBlockSize(h, "step")
    BY <1>1, <2>5
  <2>8. Settling' /\ pc' = "expand" /\ blockSize' = blockSize
    BY <1>1, <2>3, <2>5, <2>6, <2>7, Shrink
  <2>9. QED
    BY <2>8
<1>4. CASE config.blockSize > blockSize
  <2>1. PICK d \in Nat : d = 2 * blockSize
    BY <1>1
  <2>2. NextStep = d /\ d > blockSize /\ d > 0
    BY <1>1, <1>4, <2>1 DEF NextStep
  <2>3. SetBlockSize(d, "step")
    BY <1>1, <2>2
  <2>4. /\ blockSize' = d /\ pc' = "step" /\ Distinct(groups')
        /\ \A a \in Elements(groups') : a % d = 0 /\ InTHP(a, InitialTHPs)
    BY <1>1, <2>2, <2>3, Grow
  <2>5. IsPower(d) /\ d <= config.blockSize
    BY <1>2, <1>4, <2>1, PowerSteps, PowersCompare
  <2>6. IsNumberPowerOfTwo(d) /\ IsNumberPowerOfTwo(config.blockSize)
    BY <1>1, <1>2, <2>5, PowerIs
  <2>7. ~ (config.blockSize < d)
    BY <1>1, <2>5
  <2>8. QED
    BY <1>1, <2>2, <2>4, <2>6, <2>7 DEF Settling, InTHP, THPSize, InitialTHPs
<1>5. QED
  BY <1>1, <1>3, <1>4

LEMMA Stop ==
  ASSUME Types, Settling, StopSteps, OthersStay, blockSize > 0
  PROVE  Adding' /\ pc' = "done" /\ blockSize' > 0
<1>1. /\ pc = "step" /\ pc' = "done"
      /\ UNCHANGED <<groups, blockSize, dram, config, mappings, thp, block, held>>
  BY DEF StopSteps, OthersStay
<1>2. thp \in Nat /\ block \in Nat /\ config.startOffset \in Nat
  BY OptionsAre DEF Types
<1>3. QED
  BY <1>1, <1>2 DEF Settling, Adding, InTHP, IsOffered, THPSize, InitialTHPs, AdditionalTHPs

LEMMA SortAll ==
  ASSUME Types, Settling, SortGroups, OthersStay, blockSize > 0
  PROVE  Settling' /\ pc' = "guess" /\ blockSize' > 0
<1> DEFINE all == [k \in DOMAIN groups |-> DOMAIN groups[k]]
<1>1. /\ pc = "detect" /\ pc' = "guess"
      /\ groups' = [k \in DOMAIN groups |-> Sorted(groups[k])]
      /\ UNCHANGED <<blockSize, dram, config, mappings, thp, block, held>>
  BY DEF SortGroups, OthersStay
<1>2. groups \in Seq(Seq(Nat)) /\ Distinct(groups) /\ \A k \in DOMAIN groups : groups[k] # << >>
  BY <1>1 DEF Types, Settling, Filled
<1>3. /\ \A k \in DOMAIN groups : all[k] \subseteq DOMAIN groups[k]
      /\ groups' = SortedAll(groups, all)
  BY <1>1 DEF Sorted, SortedAll
<1>4. \A k \in DOMAIN groups : all[k] # {}
  <2> SUFFICES ASSUME NEW k \in DOMAIN groups
               PROVE  DOMAIN groups[k] # {}
    OBVIOUS
  <2>1. groups[k] \in Seq(Nat) /\ groups[k] # << >>
    BY <1>2
  <2>2. 1 \in DOMAIN groups[k]
    BY <2>1
  <2>3. QED
    BY <2>2
<1> HIDE DEF all
<1>5. /\ Distinct(groups') /\ Elements(groups') \subseteq Elements(groups)
      /\ groups' \in Seq(Seq(Nat)) /\ Len(groups') = Len(groups)
      /\ \A k \in DOMAIN groups : groups'[k] # << >>
  <2>1. /\ groups' \in Seq(Seq(Nat)) /\ Len(groups') = Len(groups)
        /\ Elements(groups') \subseteq Elements(groups)
        /\ Distinct(groups) => Distinct(groups')
        /\ \A k \in DOMAIN groups : all[k] # {} => groups'[k] # << >>
    BY <1>2, <1>3, SortsPlaces
  <2>2. QED
    BY <1>2, <1>4, <2>1
<1>6. DOMAIN groups' = DOMAIN groups
  BY <1>2, <1>5
<1>7. QED
  BY <1>1, <1>5, <1>6 DEF Settling, Filled, InTHP, THPSize, InitialTHPs

LEMMA DetectSize ==
  ASSUME Types, Settling, Detect, OthersStay, blockSize > 0, groups # << >>
  PROVE  (pc' # "done" => Settling') /\ (pc' = "done" => Adding') /\ blockSize' > 0
<1>1. /\ pc = "guess" /\ UNCHANGED <<dram, config, mappings, thp, block, held>>
      /\ groups \in Seq(Seq(Nat)) /\ blockSize \in Nat
      /\ IsNumberPowerOfTwo(blockSize) /\ blockSize <= config.initialBlockSize /\ Filled
      /\ thp >= NInitialTHPs /\ block >= config.startOffset
  <2>1. thp \in Nat /\ block \in Nat /\ config.startOffset \in Nat
    BY OptionsAre DEF Types
  <2>2. pc = "guess"
    BY DEF Detect
  <2>3. QED
    BY <2>1, <2>2 DEF OthersStay, Types, Settling
<1>2. \/ MayHalve /\ SetBlockSize(blockSize \div 2, "detect")
      \/ SetBlockSize(GuessBlockSize, "done")
  BY DEF Detect
<1>3. CASE MayHalve /\ SetBlockSize(blockSize \div 2, "detect")
  <2>1. IsPower(blockSize) /\ blockSize # 1
    BY <1>1, <1>3, PowerIs, OptionsAre DEF MayHalve
  <2>2. PICK h : IsPower(h) /\ h \in Nat \ {0} /\ blockSize = 2 * h /\ blockSize \div 2 = h
    BY <2>1, PowerSteps
  <2>3. IsNumberPowerOfTwo(h) /\ h < blockSize /\ SetBlockSize(h, "detect")
    BY <1>3, <2>2, PowerIs
  <2>4. Settling' /\ pc' = "expand" /\ blockSize' = blockSize
    BY <1>1, <2>2, <2>3, Shrink
  <2>5. QED
    BY <2>4
<1>4. CASE SetBlockSize(GuessBlockSize, "done")
  <2>1. PICK guess : guess = GuessBlockSize
    OBVIOUS
  <2>2. guess = 0 \/ \E n \in Nat \ {0} : guess = blockSize * n
    BY <1>1, <2>1, GuessIs
  <2>3. guess \in Nat /\ (guess < blockSize => guess = 0)
    <3>1. ASSUME NEW n \in Nat \ {0}, guess = blockSize * n
          PROVE  guess \in Nat /\ guess >= blockSize
      BY <1>1, <3>1
    <3>2. QED
      BY <1>1, <2>2, <3>1
  <2>4. SetBlockSize(guess, "done")
    BY <1>4, <2>1
  <2>5. CASE guess < blockSize
    <3>1. Settling' /\ pc' = "expand" /\ blockSize' = blockSize
      BY <1>1, <2>3, <2>4, <2>5, Shrink
    <3>2. QED
      BY <3>1
  <2>6. CASE guess > blockSize
    <3>1. /\ blockSize' = guess /\ pc' = "done" /\ Distinct(groups')
          /\ \A a \in Elements(groups') : a % guess = 0 /\ InTHP(a, InitialTHPs)
      BY <1>1, <2>3, <2>4, <2>6, Grow
    <3>2. Adding'
      BY <1>1, <3>1 DEF Settling, Adding, InTHP, THPSize, InitialTHPs
    <3>3. QED
      BY <1>1, <2>3, <2>6, <3>1, <3>2
  <2>7. CASE guess = blockSize
    <3>1. pc' = "done" /\ UNCHANGED <<groups, blockSize>>
      BY <2>4, <2>7, <1>1 DEF SetBlockSize
    <3>2. Adding'
      BY <1>1, <3>1 DEF Settling, Adding, InTHP, THPSize, InitialTHPs
    <3>3. QED
      BY <3>1, <3>2
  <2>8. QED
    BY <1>1, <2>3, <2>5, <2>6, <2>7
<1>5. QED
  BY <1>2, <1>3, <1>4

(* expandBlocks *)
LEMMA ExpandOne ==
  ASSUME Types, Settling, ExpandAddress, OthersStay, blockSize > 0,
         IsNumberPowerOfTwo(config.initialBlockSize)
  PROVE  Settling' /\ pc' = "expand" /\ blockSize' = blockSize
<1>1. /\ pc = "expand" /\ StartsBlock /\ offset < blockSize /\ offset' = offset + target
      /\ groups' = groups \/ Takes(groups, groups', Address + offset)
      /\ UNCHANGED <<blockSize, pc, return, target, group, index, size>>
      /\ UNCHANGED <<dram, config, mappings, thp, block, held>>
  BY AddToExistingTakes DEF ExpandAddress, OthersStay
<1>2. /\ groups \in Seq(Seq(Nat)) /\ group \in DOMAIN groups /\ index \in 1 .. size + 1
      /\ size \in Nat /\ size <= Len(groups[group]) /\ index <= size
      /\ blockSize \in Nat /\ target \in Nat /\ offset \in Nat
  BY <1>1 DEF Types, StartsBlock
<1>3. groups[group] \in Seq(Nat) /\ index \in DOMAIN groups[group] /\ groups[group][index] \in Nat
  BY <1>2
<1>4. PICK a \in Nat : a = groups[group][index]
  BY <1>3
<1>5. PICK n \in Nat : n = a + offset
  BY <1>2, <1>4
<1>6. /\ a \in Elements(groups) /\ a % blockSize = 0
      /\ groups' = groups \/ Takes(groups, groups', n)
  BY <1>1, <1>2, <1>3, <1>4, <1>5, ElementsAre DEF StartsBlock, Address
<1>7. /\ groups' \in Seq(Seq(Nat))
      /\ Elements(groups) \subseteq Elements(groups') /\ Elements(groups') \subseteq Elements(groups) \cup {n}
      /\ \A k \in DOMAIN groups : /\ k \in DOMAIN groups'
                                  /\ \A i \in DOMAIN groups[k] : i \in DOMAIN groups'[k] /\ groups'[k][i] = groups[k][i]
      /\ Distinct(groups) /\ n \notin Elements(groups) => Distinct(groups')
      /\ (\A k \in DOMAIN groups : groups[k] # << >>) => \A k \in DOMAIN groups' : groups'[k] # << >>
  <2>1. CASE groups' = groups
    BY <1>2, <2>1
  <2>2. CASE Takes(groups, groups', n)
    <3>1. groups \in Seq(Seq(Nat))
      BY <1>2
    <3>2. groups' \in Seq(Seq(Nat)) /\ Elements(groups') = Elements(groups) \cup {n}
      BY <2>2, <3>1, TakesPlaces
    <3>3. \A k \in DOMAIN groups : /\ k \in DOMAIN groups'
                                  /\ \A i \in DOMAIN groups[k] :
                                       i \in DOMAIN groups'[k] /\ groups'[k][i] = groups[k][i]
      <4>1. Keeps(groups, groups')
        BY <2>2, <3>1, TakesKeeps
      <4>2. QED
        BY <4>1 DEF Keeps
    <3>4. Distinct(groups) /\ n \notin Elements(groups) => Distinct(groups')
      BY <2>2, <3>1, TakesPlaces
    <3>5. (\A k \in DOMAIN groups : groups[k] # << >>) => \A k \in DOMAIN groups' : groups'[k] # << >>
      <4>1. NoneEmpty(groups) => NoneEmpty(groups')
        BY <2>2, <3>1, TakesKeeps
      <4>2. QED
        BY <4>1 DEF NoneEmpty
    <3>6. QED
      BY <3>2, <3>3, <3>4, <3>5
  <2>3. QED
    BY <1>6, <2>1, <2>2
<1>8. /\ held = << >> /\ thp = NInitialTHPs /\ block = config.startOffset
      /\ config.initialBlockSize <= THPSize
      /\ \A b \in Elements(groups) : InTHP(b, InitialTHPs)
      /\ Expanding \/ Stuck
  BY <1>1 DEF Settling
<1>9. CASE Expanding
  <2>1. /\ blockSize = 2 * target /\ offset = target /\ n = a + target /\ offset' = blockSize
        /\ target \in Nat \ {0} /\ target < blockSize
        /\ IsNumberPowerOfTwo(blockSize) /\ blockSize <= config.initialBlockSize /\ Distinct(groups)
        /\ \A b \in Elements(groups) : b % target = 0 /\ (b % blockSize = 0 \/ IsBehind(b))
    BY <1>1, <1>2, <1>5, <1>9 DEF Expanding
  <2>2. a % (2 * target) = 0
    BY <1>6, <2>1
  <2>3. n % target = 0 /\ n % blockSize # 0
    BY <2>1, <2>2, MultiplesOfHalf
  <2>4. n \notin Elements(groups)
    <3> SUFFICES ASSUME n \in Elements(groups)
                 PROVE  FALSE
      OBVIOUS
    <3>1. IsBehind(n)
      BY <2>1, <2>3
    <3>2. PICK k \in DOMAIN groups : \E i \in DOMAIN groups[k] :
            /\ groups[k][i] + target = n
            /\ k < group \/ (k = group /\ (i < index \/ (i = index /\ offset = blockSize)))
      BY <3>1 DEF IsBehind
    <3>3. PICK i \in DOMAIN groups[k] :
            /\ groups[k][i] + target = n
            /\ k < group \/ (k = group /\ (i < index \/ (i = index /\ offset = blockSize)))
      BY <3>2
    <3>4. groups[k][i] \in Nat
      BY <1>2
    <3>5. groups[k][i] = groups[group][index]
      <4>1. target \in Nat /\ groups[k][i] + target = a + target
        BY <2>1, <3>3
      <4>2. QED
        BY <1>4, <3>4, <4>1
    <3>6. k = group /\ i = index
      BY <1>2, <1>3, <2>1, <3>5 DEF Distinct
    <3>7. group \in Nat /\ index \in Nat /\ offset # blockSize
      BY <1>2, <2>1
    <3>8. QED
      BY <3>3, <3>6, <3>7
  <2>5. InTHP(n, InitialTHPs)
    <3>1. PICK t \in InitialTHPs, o \in 0 .. THPSize - 1 : a = mappings[t] + o
      BY <1>6, <1>8 DEF InTHP
    <3>2. t \in 1 .. NTHPs /\ THPSize \in Nat /\ mappings[t] \in Nat
      <4>1. InitialTHPs \subseteq 1 .. NTHPs
        BY OptionsAre DEF InitialTHPs
      <4>2. QED
        BY <4>1, THPsAre
    <3>3. IsPower(blockSize) /\ blockSize <= THPSize
      <4>1. config.initialBlockSize \in Nat
        BY OptionsAre
      <4>2. IsNumberPowerOfTwo(blockSize) /\ blockSize <= config.initialBlockSize
            /\ config.initialBlockSize <= THPSize /\ blockSize \in Nat
        BY <1>2, <1>8, <2>1
      <4>3. IsPower(blockSize)
        BY <4>2, PowerIs
      <4>4. QED
        BY <3>2, <4>1, <4>2, <4>3
    <3>4. /\ blockSize \in Nat \ {0} /\ \E q \in Nat : THPSize = q * blockSize
          /\ \E q \in Nat : mappings[t] = q * blockSize
      BY <1>2, <3>2, <3>3, THPsDivide
    <3> DEFINE m == mappings[t]
               T == THPSize
    <3>5. m \in Nat /\ T \in Nat /\ o \in 0 .. T - 1 /\ (m + o) % blockSize = 0
          /\ (\E q \in Nat : T = q * blockSize) /\ \E q \in Nat : m = q * blockSize
      BY <1>6, <3>1, <3>2, <3>4
    <3> HIDE DEF m, T
    <3>6. o + blockSize <= T
      BY <3>4, <3>5, BlockEndsInTHP
    <3>7. o + target \in 0 .. T - 1
      BY <2>1, <3>5, <3>6
    <3>8. n = mappings[t] + (o + target)
      BY <2>1, <3>1, <3>2, <3>5
    <3>9. QED
      BY <3>7, <3>8 DEF InTHP, T
  <2>6. IsBehind(n)'
    <3>1. group \in DOMAIN groups' /\ index \in DOMAIN groups'[group] /\ groups'[group][index] + target = n
      BY <1>2, <1>3, <1>4, <1>7, <2>1
    <3>2. QED
      BY <1>1, <2>1, <3>1 DEF IsBehind
  <2>7. ASSUME NEW b, IsBehind(b)
        PROVE  IsBehind(b)'
    <3>1. PICK k \in DOMAIN groups : \E i \in DOMAIN groups[k] :
            /\ groups[k][i] + target = b
            /\ k < group \/ (k = group /\ (i < index \/ (i = index /\ offset = blockSize)))
      BY <2>7 DEF IsBehind
    <3>2. PICK i \in DOMAIN groups[k] :
            /\ groups[k][i] + target = b
            /\ k < group \/ (k = group /\ (i < index \/ (i = index /\ offset = blockSize)))
      BY <3>1
    <3>3. k \in DOMAIN groups' /\ i \in DOMAIN groups'[k] /\ groups'[k][i] + target = b
      BY <1>7, <3>2
    <3>4. QED
      BY <1>1, <2>1, <3>2, <3>3 DEF IsBehind
  <2>8. \A b \in Elements(groups') : /\ b % target = 0 /\ (b % blockSize = 0 \/ IsBehind(b)')
                                     /\ InTHP(b, InitialTHPs)
    BY <1>7, <1>8, <2>1, <2>3, <2>5, <2>6, <2>7
  <2>9. Expanding'
    BY <1>1, <1>7, <1>9, <2>1, <2>4, <2>8 DEF Expanding, Filled
  <2>10. QED
    BY <1>1, <1>8, <2>8, <2>9 DEF Settling, InTHP, THPSize, InitialTHPs
<1>10. CASE Stuck
  <2>1. /\ target = 0 /\ offset = 0 /\ group = 1 /\ index = 1 /\ size >= 1
        /\ groups[1][1] % blockSize = 0
    BY <1>10 DEF Stuck
  <2>2. offset' = 0 /\ n = a
    BY <1>1, <1>5, <2>1
  <2>3. \A b \in Elements(groups') : InTHP(b, InitialTHPs)
    BY <1>6, <1>7, <1>8, <2>2
  <2>4. groups'[1][1] = groups[1][1]
    BY <1>2, <1>3, <1>7, <2>1
  <2>5. Stuck'
    BY <1>1, <2>1, <2>2, <2>4 DEF Stuck
  <2>6. QED
    BY <1>1, <1>8, <2>3, <2>5 DEF Settling, InTHP, THPSize, InitialTHPs
<1>11. QED
  BY <1>8, <1>9, <1>10

LEMMA NextOfGroup ==
  ASSUME Types, Settling, NextAddress, OthersStay, blockSize > 0
  PROVE  Settling' /\ pc' = "expand" /\ blockSize' = blockSize
<1>1. /\ pc = "expand" /\ index <= size /\ (StartsBlock => offset >= blockSize)
      /\ index' = index + 1 /\ offset' = target
      /\ UNCHANGED <<groups, blockSize, pc, return, target, group, size>>
      /\ UNCHANGED <<dram, config, mappings, thp, block, held>>
  BY DEF NextAddress, FirstOffset, OthersStay
<1>2. /\ groups \in Seq(Seq(Nat)) /\ index \in Nat /\ blockSize \in Nat
  BY <1>1 DEF Types
<1>3. ~ Stuck
  BY <1>1, <1>2 DEF Stuck, StartsBlock, Address
<1>4. Expanding
  BY <1>1, <1>3 DEF Settling
<1>5. ASSUME NEW b, IsBehind(b)
      PROVE  IsBehind(b)'
  <2>1. PICK k \in DOMAIN groups : \E i \in DOMAIN groups[k] :
          /\ groups[k][i] + target = b
          /\ k < group \/ (k = group /\ (i < index \/ (i = index /\ offset = blockSize)))
    BY <1>5 DEF IsBehind
  <2>2. PICK i \in DOMAIN groups[k] :
          /\ groups[k][i] + target = b
          /\ k < group \/ (k = group /\ (i < index \/ (i = index /\ offset = blockSize)))
    BY <2>1
  <2>3. groups[k] \in Seq(Nat)
    BY <1>2
  <2>4. i \in Nat
    BY <2>3
  <2>5. i < index \/ i = index => i < index'
    BY <1>1, <1>2, <2>4
  <2>6. QED
    BY <1>1, <2>2, <2>5 DEF IsBehind
<1>6. \A a \in Elements(groups) : a % target = 0 /\ (a % blockSize = 0 \/ IsBehind(a)')
  BY <1>4, <1>5 DEF Expanding
<1>7. Expanding'
  BY <1>1, <1>4, <1>6 DEF Expanding, Filled
<1>8. QED
  BY <1>1, <1>7 DEF Settling, InTHP, THPSize, InitialTHPs

LEMMA NextOfGroups ==
  ASSUME Types, Settling, NextGroup, OthersStay
  PROVE  Settling' /\ pc' = "expand" /\ blockSize' = blockSize
<1>1. /\ pc = "expand" /\ index > size /\ group' = group + 1 /\ index' = 1
      /\ UNCHANGED <<groups, blockSize, pc, return, target, offset>>
      /\ UNCHANGED <<dram, config, mappings, thp, block, held>>
  BY DEF NextGroup, OthersStay
<1>2. groups \in Seq(Seq(Nat)) /\ group \in DOMAIN groups /\ size \in Nat
  BY <1>1 DEF Types
<1>3. ~ Stuck
  BY <1>1, <1>2 DEF Stuck
<1>4. Expanding
  BY <1>1, <1>3 DEF Settling
<1>5. ASSUME NEW b, IsBehind(b)
      PROVE  IsBehind(b)'
  <2>1. PICK k \in DOMAIN groups : \E i \in DOMAIN groups[k] :
          groups[k][i] + target = b /\ (k < group \/ k = group)
    BY <1>5 DEF IsBehind
  <2>2. k \in Nat /\ group \in Nat
    BY <1>2
  <2>3. k < group'
    BY <1>1, <2>1, <2>2
  <2>4. QED
    BY <1>1, <2>1, <2>3 DEF IsBehind
<1>6. \A a \in Elements(groups) : a % target = 0 /\ (a % blockSize = 0 \/ IsBehind(a)')
  BY <1>4, <1>5 DEF Expanding
<1>7. Expanding'
  BY <1>1, <1>4, <1>6 DEF Expanding, Filled
<1>8. QED
  BY <1>1, <1>7 DEF Settling, InTHP, THPSize, InitialTHPs

LEMMA EndOfGroups ==
  ASSUME Types, Settling, EndExpansion, OthersStay, blockSize > 0,
         IsNumberPowerOfTwo(config.initialBlockSize)
  PROVE  Settling' /\ pc' # "done" /\ blockSize' > 0
<1>1. /\ pc = "expand" /\ index > size /\ blockSize' = target /\ pc' = return
      /\ UNCHANGED <<groups, return, loop>>
      /\ UNCHANGED <<dram, config, mappings, thp, block, held>>
  BY DEF EndExpansion, OthersStay
<1>2. /\ groups \in Seq(Seq(Nat)) /\ size \in Nat /\ target \in Nat /\ blockSize \in Nat
      /\ config.initialBlockSize \in Nat
  BY <1>1, OptionsAre DEF Types
<1>3. ~ Stuck
  BY <1>1, <1>2 DEF Stuck
<1>4. Expanding
  BY <1>1, <1>3 DEF Settling
<1>5. /\ return \in {"step", "detect"} /\ IsNumberPowerOfTwo(target) /\ target > 0
      /\ target <= config.initialBlockSize
      /\ return = "step" => IsNumberPowerOfTwo(config.blockSize)
      /\ return = "detect" => Filled
      /\ \A a \in Elements(groups) : a % target = 0
      /\ Distinct(groups)
  BY <1>2, <1>4 DEF Expanding
<1>6. QED
  BY <1>1, <1>5 DEF Settling, Filled, InTHP, THPSize, InitialTHPs

LEMMA SettleSound ==
  ASSUME Types, Sound, Settle, pc # "crashed", IsNumberPowerOfTwo(config.initialBlockSize)
  PROVE  pc' = "crashed" \/ Sound'
<1>1. /\ phase = "add" /\ phase' = "add" /\ SettleBlockSize /\ OthersStay
      /\ blockSize > 0 /\ groups # << >>
  BY DEF Settle, SettleBlockSize, OthersStay, Sound, Types
<1>2. SUFFICES ASSUME pc' # "crashed"
               PROVE  (pc' # "done" => Settling') /\ (pc' = "done" => Adding') /\ blockSize' > 0
  BY <1>1 DEF Sound
<1>3. pc # "done"
  BY <1>1 DEF SettleBlockSize, ChooseBlockSize, StepBlockSize, StopSteps, SortGroups, Detect,
              ExpandAddress, CompareWithEmptyGroup, NextAddress, NextGroup, EndExpansion
<1>4. Settling
  BY <1>1, <1>3 DEF Sound
<1>5. CASE ChooseBlockSize
  BY <1>1, <1>4, <1>5, Choose
<1>6. CASE StepBlockSize
  BY <1>1, <1>4, <1>6, Step
<1>7. CASE StopSteps
  BY <1>1, <1>4, <1>7, Stop
<1>8. CASE SortGroups
  <2>1. Settling' /\ pc' = "guess" /\ blockSize' > 0
    BY <1>1, <1>4, <1>8, SortAll
  <2>2. QED
    BY <2>1
<1>9. CASE Detect
  BY <1>1, <1>4, <1>9, DetectSize
<1>10. CASE ExpandAddress
  <2>1. Settling' /\ pc' = "expand" /\ blockSize' = blockSize
    BY <1>1, <1>4, <1>10, ExpandOne
  <2>2. QED
    BY <1>1, <2>1
<1>11. CASE CompareWithEmptyGroup
  BY <1>2, <1>11 DEF CompareWithEmptyGroup
<1>12. CASE NextAddress
  <2>1. Settling' /\ pc' = "expand" /\ blockSize' = blockSize
    BY <1>1, <1>4, <1>12, NextOfGroup
  <2>2. QED
    BY <1>1, <2>1
<1>13. CASE NextGroup
  <2>1. Settling' /\ pc' = "expand" /\ blockSize' = blockSize
    BY <1>1, <1>4, <1>13, NextOfGroups
  <2>2. QED
    BY <1>1, <2>1
<1>14. CASE EndExpansion
  BY <1>1, <1>4, <1>14, EndOfGroups
<1>15. QED
  BY <1>1, <1>5, <1>6, <1>7, <1>8, <1>9, <1>10, <1>11, <1>12, <1>13, <1>14 DEF SettleBlockSize

-----------------------------------------------------------------------------
(* The additional THPs *)

(* A block of an additional THP has not been in the groups before. *)
LEMMA BlockIsNew ==
  ASSUME Types, Adding, blockSize > 0, thp < NTHPs, block < EndBlock
  PROVE  BlockAddress \in Nat /\ BlockAddress \notin Elements(groups)
<1>1. /\ thp \in Nat /\ NInitialTHPs \in Nat /\ NTHPs \in Nat /\ thp >= NInitialTHPs /\ blockSize # 0
      /\ AdditionalTHPs \subseteq 1 .. NTHPs
  BY OptionsAre DEF Types, Adding, AdditionalTHPs
<1>2. BlockAddress \in Nat
  BY NextBlockIs
<1>3. ASSUME NEW b \in Elements(groups)
      PROVE  b # BlockAddress
  <2>1. InTHP(b, InitialTHPs) \/ IsOffered(b, AdditionalTHPs)
    BY DEF Adding
  <2>2. CASE InTHP(b, InitialTHPs)
    BY <1>1, <2>2, OtherTHP
  <2>3. CASE IsOffered(b, AdditionalTHPs)
    BY <1>1, <2>3, OfferedOther
  <2>4. QED
    BY <2>1, <2>2, <2>3
<1>4. QED
  BY <1>2, <1>3

LEMMA AddOne ==
  ASSUME Types, Adding, blockSize > 0, AddBlockToExisting,
         UNCHANGED <<dram, config, blockSize, pc, mappings, held>>
  PROVE  Adding'
<1>1. /\ thp < NTHPs /\ block < EndBlock /\ block' = block + 1 /\ thp' = thp
      /\ groups' = groups \/ Takes(groups, groups', BlockAddress)
  BY AddToExistingTakes DEF AddBlockToExisting
<1>2. /\ groups \in Seq(Seq(Nat)) /\ thp \in Nat /\ block \in Nat /\ config.startOffset \in Nat
      /\ NInitialTHPs \in Nat /\ NTHPs \in Nat /\ thp >= NInitialTHPs /\ block >= config.startOffset
      /\ held = << >> /\ Distinct(groups) /\ blockSize # 0
  BY OptionsAre DEF Types, Adding
<1>3. /\ AdditionalTHPs \subseteq 1 .. NTHPs /\ AdditionalTHPs \subseteq Nat
      /\ thp + 1 \in AdditionalTHPs
  BY <1>1, <1>2 DEF AdditionalTHPs
<1>4. PICK a \in Nat : a = BlockAddress
  BY <1>1, NextBlockIs
<1>5. \A b \in Elements(groups) :
        (InTHP(b, InitialTHPs) /\ b % blockSize = 0) \/ IsOffered(b, AdditionalTHPs)
  BY DEF Adding
<1>6. a \notin Elements(groups)
  BY <1>1, <1>4, BlockIsNew
<1>7. IsOffered(a, AdditionalTHPs)'
  BY <1>1, <1>2, <1>3, <1>4, OfferedNew
<1>8. ASSUME NEW b, IsOffered(b, AdditionalTHPs)
      PROVE  IsOffered(b, AdditionalTHPs)'
  BY <1>1, <1>3, <1>8, OfferedKept
<1>9. Elements(groups') \subseteq Elements(groups) \cup {a} /\ Distinct(groups')
  <2>1. CASE Takes(groups, groups', a)
    BY <1>2, <1>6, <2>1, TakesPlaces
  <2>2. QED
    BY <1>1, <1>2, <1>4, <2>1
<1>10. \A b \in Elements(groups') :
        (InTHP(b, InitialTHPs) /\ b % blockSize = 0) \/ IsOffered(b, AdditionalTHPs)'
  BY <1>5, <1>7, <1>8, <1>9
<1>11. block + 1 >= config.startOffset
  BY <1>2
<1>12. QED
  BY <1>1, <1>2, <1>9, <1>10, <1>11
     DEF Adding, InTHP, IsOffered, THPSize, InitialTHPs, AdditionalTHPs

LEMMA AddNextTHP ==
  ASSUME Types, Adding, NextTHP, UNCHANGED <<dram, config, blockSize, pc, mappings, held>>
  PROVE  Adding'
<1>1. thp' = thp + 1 /\ block' = config.startOffset /\ groups' = groups
  BY DEF NextTHP
<1>2. /\ thp \in Nat /\ NInitialTHPs \in Nat /\ NTHPs \in Nat /\ config.startOffset \in Nat
      /\ thp >= NInitialTHPs /\ AdditionalTHPs \subseteq Nat
  BY OptionsAre DEF Types, Adding, AdditionalTHPs
<1>3. ASSUME NEW b, IsOffered(b, AdditionalTHPs)
      PROVE  IsOffered(b, AdditionalTHPs)'
  BY <1>1, <1>2, <1>3, OfferedKept
<1>4. \A b \in Elements(groups) :
        (InTHP(b, InitialTHPs) /\ b % blockSize = 0) \/ IsOffered(b, AdditionalTHPs)'
  BY <1>3 DEF Adding
<1>5. thp + 1 >= NInitialTHPs
  BY <1>2
<1>6. QED
  BY <1>1, <1>2, <1>4, <1>5
     DEF Adding, InTHP, IsOffered, THPSize, InitialTHPs, AdditionalTHPs

-----------------------------------------------------------------------------
(* From the empty bank group to the finished groups *)

LEMMA LayoutInit == Init => LayoutInv
<1> SUFFICES ASSUME Init
             PROVE  LayoutInv
  OBVIOUS
<1>1. /\ groups = << >> /\ blockSize = config.initialBlockSize /\ pc = "main" /\ phase = "fill"
      /\ thp = 0 /\ block = config.startOffset /\ held = << >> /\ config \in Options
  BY DEF Init, BlockSizeInit
<1>2. /\ config.initialBlockSize \in Nat \ {0} /\ config.startOffset \in Nat /\ NInitialTHPs \in Nat
  BY <1>1, AmdreAssumption, BlockSizeAssumption
<1>3. Elements(groups) = {} /\ Distinct(groups) /\ Filled
  BY <1>1, NoElements DEF Filled
<1>4. Filling
  BY <1>1, <1>2, <1>3 DEF Filling
<1>5. QED
  BY <1>1, <1>2, <1>4 DEF LayoutInv, Sound

LEMMA ConfigStays == Next => UNCHANGED <<dram, config, mappings>>
<1> SUFFICES ASSUME Next
             PROVE  UNCHANGED <<dram, config, mappings>>
  OBVIOUS
<1>1. CASE AddTHPs
  BY <1>1 DEF AddTHPs
<1>2. CASE AddBlockCrashes
  BY <1>2 DEF AddBlockCrashes
<1>3. CASE Regroup
  BY <1>3 DEF Regroup, Grouping!StartRegrouping, Grouping!EraseFirstGroup,
              Grouping!ReAddAddress, Grouping!TestPlausible
<1>4. CASE Settle
  BY <1>4 DEF Settle, SettleBlockSize
<1>5. CASE Finish
  BY <1>5 DEF Finish, Grouping!Finish
<1>6. QED
  BY <1>1, <1>2, <1>3, <1>4, <1>5 DEF Next

LEMMA LayoutNext == Types /\ LayoutInv /\ [Next]_vars => LayoutInv'
<1> SUFFICES ASSUME Types, LayoutInv, [Next]_vars
             PROVE  LayoutInv'
  OBVIOUS
<1>0. Types'
  BY TypesNext
<1>1. CASE UNCHANGED vars
  BY <1>1 DEF vars, loop, LayoutInv, Sound, Filling, Regrouping, HeldApart, Settling, Adding, Filled,
              Expanding, Stuck, IsBehind, InTHP, IsOffered, THPSize, InitialTHPs, AdditionalTHPs
<1>2. CASE Next
  <2> SUFFICES ASSUME IsNumberPowerOfTwo(config.initialBlockSize), pc' # "crashed"
               PROVE  Sound'
    BY <1>2, ConfigStays DEF LayoutInv
  <2>0. pc # "crashed" /\ UNCHANGED <<dram, config, mappings>>
    BY <1>2, ConfigStays DEF Next, AddTHPs, AddBlockCrashes, Regroup, Finish, Settle, SettleBlockSize,
              ChooseBlockSize, StepBlockSize, StopSteps, SortGroups, Detect,
              ExpandAddress, CompareWithEmptyGroup, NextAddress, NextGroup, EndExpansion
  <2>1. Sound /\ blockSize > 0 /\ blockSize # 0
    BY <2>0 DEF LayoutInv, Sound, Types
  <2>2. CASE AddTHPs
    <3>1. UNCHANGED <<dram, config, blockSize, pc, mappings, phase, held>>
      BY <2>2 DEF AddTHPs
    <3>2. CASE AddBlock
      <4>1. phase = "fill" /\ pc = "main"
        BY <3>2 DEF AddBlock, Types
      <4>2. Filling'
        BY <2>1, <3>1, <3>2, <4>1, FillBlock DEF Sound
      <4>3. QED
        BY <2>1, <3>1, <4>1, <4>2 DEF Sound
    <3>3. CASE AddBlockToExisting
      <4>1. phase = "add" /\ pc = "done"
        BY <3>3 DEF AddBlockToExisting
      <4>2. Adding'
        BY <2>1, <3>1, <3>3, <4>1, AddOne DEF Sound
      <4>3. QED
        BY <2>1, <3>1, <4>1, <4>2 DEF Sound
    <3>4. CASE NextTHP /\ phase = "fill"
      <4>1. pc = "main"
        BY <3>4 DEF Types
      <4>2. Filling'
        BY <2>1, <3>1, <3>4, FillNextTHP DEF Sound
      <4>3. QED
        BY <2>1, <3>1, <3>4, <4>1, <4>2 DEF Sound
    <3>5. CASE NextTHP /\ phase # "fill"
      <4>1. phase = "add" /\ pc = "done"
        BY <3>5 DEF NextTHP
      <4>2. Adding'
        BY <2>1, <3>1, <3>5, <4>1, AddNextTHP DEF Sound
      <4>3. QED
        BY <2>1, <3>1, <4>1, <4>2 DEF Sound
    <3>6. QED
      BY <2>2, <3>2, <3>3, <3>4, <3>5 DEF AddTHPs
  <2>3. CASE AddBlockCrashes
    BY <2>3 DEF AddBlockCrashes
  <2>4. CASE Regroup
    <3>1. UNCHANGED <<config, blockSize, pc, mappings>>
      BY <2>4 DEF Regroup
    <3>2. CASE Grouping!StartRegrouping
      <4>1. phase = "fill" /\ phase' = "regroup" /\ pc = "main"
        BY <3>2 DEF Grouping!StartRegrouping, Types
      <4>2. IsPower(config.initialBlockSize) /\ Filling
        BY <2>1, <4>1, PowerIs, OptionsAre DEF Sound
      <4>3. Regrouping'
        BY <2>1, <3>1, <3>2, <4>2, StartRegroup
      <4>4. QED
        BY <2>1, <3>1, <4>1, <4>3 DEF Sound
    <3>3. CASE Grouping!EraseFirstGroup
      <4>1. phase = "regroup" /\ phase' = "regroup" /\ pc = "main"
        BY <3>3 DEF Grouping!EraseFirstGroup, Types
      <4>2. Regrouping'
        BY <2>1, <3>1, <3>3, <4>1, EraseGroup DEF Sound
      <4>3. QED
        BY <2>1, <3>1, <4>1, <4>2 DEF Sound
    <3>4. CASE Grouping!ReAddAddress
      <4>1. phase = "regroup" /\ phase' = "regroup" /\ pc = "main"
        BY <3>4 DEF Grouping!ReAddAddress, Types
      <4>2. Regrouping'
        BY <2>1, <3>1, <3>4, <4>1, ReAdd DEF Sound
      <4>3. QED
        BY <2>1, <3>1, <4>1, <4>2 DEF Sound
    <3>5. CASE Grouping!TestPlausible
      <4>1. phase = "regroup" /\ phase' \in {"regroup", "add"} /\ pc = "main"
        BY <3>5 DEF Grouping!TestPlausible, Types
      <4>2. (phase' = "regroup" => Regrouping') /\ (phase' = "add" => Settling')
        BY <1>0, <2>1, <3>1, <3>5, <4>1, Plausible DEF Sound
      <4>3. QED
        BY <2>1, <3>1, <4>1, <4>2 DEF Sound
    <3>6. QED
      BY <2>4, <3>2, <3>3, <3>4, <3>5 DEF Regroup
  <2>5. CASE Settle
    BY <2>0, <2>1, <2>5, SettleSound
  <2>6. CASE Finish
    <3>1. /\ pc = "done" /\ phase' = "done"
          /\ UNCHANGED <<dram, config, blockSize, pc, mappings, groups, thp, block, held>>
      BY <2>6 DEF Finish, Grouping!Finish
    <3>2. Adding'
      BY <2>1, <3>1 DEF Sound, Adding, InTHP, IsOffered, THPSize, InitialTHPs, AdditionalTHPs
    <3>3. QED
      BY <2>1, <3>1, <3>2 DEF Sound
  <2>7. QED
    BY <1>2, <2>2, <2>3, <2>4, <2>5, <2>6 DEF Next
<1>3. QED
  BY <1>1, <1>2

LEMMA SoundInMemory ==
  Types /\ Sound /\ pc # "crashed" => Elements(groups) \cup Range(held) \subseteq DOMAIN dram.cells
<1> SUFFICES ASSUME Types, Sound, NEW a \in Elements(groups) \cup Range(held), pc # "crashed"
             PROVE  a \in DOMAIN dram.cells
  OBVIOUS
<1>1. InitialTHPs \subseteq 1 .. NTHPs /\ AdditionalTHPs \subseteq 1 .. NTHPs
  BY OptionsAre DEF InitialTHPs, AdditionalTHPs
<1>2. ASSUME NEW ts, ts \subseteq 1 .. NTHPs, InTHP(a, ts)
      PROVE  a \in DOMAIN dram.cells
  BY <1>2, THPsAre DEF InTHP
<1>3. ASSUME NEW ts, ts \subseteq 1 .. NTHPs, IsOffered(a, ts)
      PROVE  a \in DOMAIN dram.cells
  <2>1. blockSize # 0
    BY DEF Sound, Types
  <2>2. InTHP(a, ts)
    BY <1>3, <2>1, OfferedInTHP
  <2>3. QED
    BY <1>2, <1>3, <2>2
<1>4. phase = "regroup" \/ held = << >>
  BY DEF Sound, Filling, Settling, Adding, Types
<1>5. CASE phase = "regroup"
  <2>1. InTHP(a, InitialTHPs)
    BY <1>5 DEF Sound, Regrouping
  <2>2. QED
    BY <1>1, <1>2, <2>1
<1>6. CASE held = << >>
  <2>1. a \in Elements(groups)
    BY <1>6, NoElements
  <2>2. IsOffered(a, InitialTHPs) \/ InTHP(a, InitialTHPs) \/ IsOffered(a, AdditionalTHPs)
    BY <2>1 DEF Sound, Filling, Regrouping, Settling, Adding, Types
  <2>3. QED
    BY <1>1, <1>2, <1>3, <2>2
<1>7. QED
  BY <1>4, <1>5, <1>6

(* After a crash nothing moves. *)
LEMMA CrashKeeps ==
  Types /\ Next /\ pc' = "crashed" => UNCHANGED <<groups, held, dram, config>>
<1> SUFFICES ASSUME Types, Next, pc' = "crashed"
             PROVE  UNCHANGED <<groups, held, dram, config>>
  OBVIOUS
<1>1. CASE AddTHPs
  <2>1. pc = "crashed" /\ phase \in {"add", "done"}
    BY <1>1 DEF AddTHPs, Types
  <2>2. QED
    BY <1>1, <2>1 DEF AddTHPs, AddBlock, AddBlockToExisting, NextTHP
<1>2. CASE AddBlockCrashes
  BY <1>2 DEF AddBlockCrashes
<1>3. CASE Regroup
  <2>1. pc = "crashed" /\ phase \in {"add", "done"}
    BY <1>3 DEF Regroup, Types
  <2>2. QED
    BY <1>3, <2>1 DEF Regroup, Grouping!StartRegrouping, Grouping!EraseFirstGroup,
                      Grouping!ReAddAddress, Grouping!TestPlausible
<1>4. CASE Settle
  <2>1. /\ SettleBlockSize /\ UNCHANGED <<dram, config, held>>
    BY <1>4 DEF Settle, SettleBlockSize
  <2>2. ASSUME NEW new, NEW r \in {"step", "detect", "done"}, SetBlockSize(new, r)
        PROVE  FALSE
    BY <2>2 DEF SetBlockSize
  <2>3. CASE CompareWithEmptyGroup
    BY <2>1, <2>3 DEF CompareWithEmptyGroup
  <2>4. ~ StepBlockSize /\ ~ Detect
    BY <2>2 DEF StepBlockSize, Detect
  <2>5. ~ ChooseBlockSize /\ ~ StopSteps /\ ~ SortGroups
    BY DEF ChooseBlockSize, StopSteps, SortGroups
  <2>6. ~ ExpandAddress /\ ~ NextAddress /\ ~ NextGroup /\ ~ EndExpansion
    BY DEF ExpandAddress, NextAddress, NextGroup, EndExpansion, Types
  <2>7. QED
    BY <2>1, <2>3, <2>4, <2>5, <2>6 DEF SettleBlockSize
<1>5. CASE Finish
  BY <1>5 DEF Finish, Grouping!Finish
<1>6. QED
  BY <1>1, <1>2, <1>3, <1>4, <1>5 DEF Next

(* The size does not fall below the minimum. *)
Minimum ==
  /\ PowersOfTwo /\ config.blockSize = 0
  /\ IsNumberPowerOfTwo(config.minimumBlockSize)
  /\ config.minimumBlockSize <= config.initialBlockSize
  => /\ blockSize >= config.minimumBlockSize
     /\ pc # "step"
     /\ pc = "expand" => target = 0 \/ target >= config.minimumBlockSize

LEMMA MinimumInit == Init => Minimum
BY DEF Init, BlockSizeInit, Minimum

LEMMA MinimumNext == Types /\ LayoutInv /\ Minimum /\ [Next]_vars => Minimum'
<1> SUFFICES ASSUME Types, LayoutInv, Minimum, [Next]_vars
             PROVE  Minimum'
  OBVIOUS
<1>1. CASE UNCHANGED vars
  BY <1>1 DEF vars, loop, Minimum, PowersOfTwo
<1>2. CASE Next
  <2> DEFINE least == config.minimumBlockSize
  <2>1. UNCHANGED <<dram, config, mappings>>
    BY <1>2, ConfigStays
  <2> SUFFICES ASSUME PowersOfTwo, config.blockSize = 0, IsNumberPowerOfTwo(least),
                      least <= config.initialBlockSize
               PROVE  /\ blockSize' >= least /\ pc' # "step"
                      /\ pc' = "expand" => target' = 0 \/ target' >= least
    BY <2>1 DEF Minimum, PowersOfTwo
  <2>2. /\ blockSize >= least /\ pc # "step"
        /\ pc = "expand" => target = 0 \/ target >= least
    BY DEF Minimum
  <2>3. least \in Nat \ {0} /\ blockSize \in Nat /\ IsPower(least)
    BY OptionsAre, PowerIs DEF Types
  <2>4. ~ IsNumberPowerOfTwo(0)
    <3>1. ~ IsPower(0)
      BY PowerSteps
    <3>2. QED
      BY <3>1, PowerIs
  <2>5. CASE AddTHPs \/ AddBlockCrashes \/ Regroup \/ Finish
    BY <2>2, <2>5 DEF AddTHPs, AddBlockCrashes, Regroup, Finish, loop
  <2>6. CASE Settle /\ pc # "crashed"
    <3>1. phase = "add" /\ SettleBlockSize /\ groups \in Seq(Seq(Nat))
      BY <2>6 DEF Settle, Types
    <3>2. pc # "done" => Settling
      BY <2>6, <3>1 DEF LayoutInv, Sound, PowersOfTwo
    <3>3. CASE ChooseBlockSize
      BY <2>2, <2>3, <2>4, <3>3 DEF ChooseBlockSize, loop
    <3>4. CASE Detect
      <4>1. pc = "guess" /\ IsPower(blockSize)
        BY <2>3, <3>2, <3>4, PowerIs DEF Detect, Settling
      <4>2. CASE MayHalve /\ SetBlockSize(blockSize \div 2, "detect")
        <5>1. least < blockSize
          BY <2>3, <4>2 DEF MayHalve
        <5>2. 2 * least <= blockSize
          BY <2>3, <4>1, <5>1, PowersCompare
        <5>3. blockSize \div 2 < blockSize /\ blockSize \div 2 >= least
          BY <2>3, <5>2
        <5>4. pc' = "expand" /\ target' = blockSize \div 2 /\ blockSize' = blockSize
          BY <2>3, <4>2, <5>3 DEF SetBlockSize
        <5>5. QED
          BY <2>2, <5>3, <5>4
      <4>3. CASE SetBlockSize(GuessBlockSize, "done")
        <5>1. PICK guess : guess = GuessBlockSize
          OBVIOUS
        <5>2. guess = 0 \/ \E n \in Nat \ {0} : guess = blockSize * n
          BY <2>3, <3>1, <5>1, GuessIs
        <5>3. guess = 0 \/ (guess \in Nat /\ guess >= blockSize)
          <6>1. ASSUME NEW n \in Nat \ {0}
                PROVE  blockSize * n \in Nat /\ blockSize * n >= blockSize
            BY <2>3
          <6>2. QED
            BY <5>2, <6>1
        <5>4. SetBlockSize(guess, "done")
          BY <4>3, <5>1
        <5>5. CASE guess < blockSize
          <6>1. pc' = "expand" /\ target' = guess /\ blockSize' = blockSize /\ guess = 0
            BY <2>3, <5>3, <5>4, <5>5 DEF SetBlockSize
          <6>2. QED
            BY <2>2, <6>1
        <5>6. CASE ~ (guess < blockSize)
          <6>1. pc' = "done" /\ blockSize' = guess /\ guess \in Nat /\ guess >= blockSize
            BY <2>3, <5>3, <5>4, <5>6 DEF SetBlockSize
          <6>2. QED
            BY <2>2, <2>3, <6>1
        <5>7. QED
          BY <5>5, <5>6
      <4>4. QED
        BY <3>4, <4>2, <4>3 DEF Detect
    <3>5. CASE EndExpansion
      <4>1. /\ pc = "expand" /\ index > size /\ blockSize' = target /\ pc' = return
        BY <3>5 DEF EndExpansion
      <4>2. size \in Nat /\ target \in Nat
        BY <4>1 DEF Types
      <4>3. Expanding
        BY <3>2, <4>1, <4>2 DEF Settling, Stuck
      <4>4. return # "step" /\ target # 0 /\ return # "expand"
        BY <2>4, <4>3 DEF Expanding
      <4>5. QED
        BY <2>2, <4>1, <4>4
    <3>6. ~ StepBlockSize /\ ~ StopSteps
      BY <2>2 DEF StepBlockSize, StopSteps
    <3>7. CASE SortGroups
      BY <2>2, <3>7 DEF SortGroups
    <3>8. CASE ExpandAddress \/ CompareWithEmptyGroup \/ NextAddress \/ NextGroup
      BY <2>2, <3>8 DEF ExpandAddress, CompareWithEmptyGroup, NextAddress, NextGroup, loop
    <3>9. QED
      BY <3>1, <3>3, <3>4, <3>5, <3>6, <3>7, <3>8 DEF SettleBlockSize
  <2>7. ASSUME Settle, pc = "crashed"
        PROVE  FALSE
    BY <2>7 DEF Settle, SettleBlockSize, ChooseBlockSize, StepBlockSize, StopSteps, SortGroups, Detect,
                ExpandAddress, CompareWithEmptyGroup, NextAddress, NextGroup, EndExpansion
  <2>8. QED
    BY <1>2, <2>5, <2>6, <2>7 DEF Next
<1>3. QED
  BY <1>1, <1>2

-----------------------------------------------------------------------------

IInv == Types /\ LayoutInv /\ InMemory /\ Minimum

LEMMA MemoryInit == Init => InMemory
BY NoElements DEF Init, InMemory

LEMMA MemoryNext == Types /\ Types' /\ LayoutInv' /\ InMemory /\ [Next]_vars => InMemory'
<1> SUFFICES ASSUME Types, Types', LayoutInv', InMemory, [Next]_vars
             PROVE  InMemory'
  OBVIOUS
<1>1. CASE UNCHANGED vars
  BY <1>1 DEF vars, InMemory
<1>2. CASE Next /\ pc' = "crashed"
  <2>1. UNCHANGED <<groups, held, dram, config>>
    BY <1>2, CrashKeeps
  <2>2. QED
    BY <2>1 DEF InMemory
<1>3. CASE pc' # "crashed"
  <2>1. (Types /\ Sound /\ pc # "crashed" => Elements(groups) \cup Range(held) \subseteq DOMAIN dram.cells)'
    BY SoundInMemory, PTL
  <2>2. QED
    BY <1>3, <2>1 DEF InMemory, LayoutInv
<1>4. QED
  BY <1>1, <1>2, <1>3

LEMMA Invariance == Spec => []IInv
<1>1. Init => IInv
  BY TypesInit, LayoutInit, MemoryInit, MinimumInit DEF IInv
<1>2. IInv /\ [Next]_vars => IInv'
  BY TypesNext, LayoutNext, MemoryNext, MinimumNext DEF IInv
<1>3. QED
  BY <1>1, <1>2, PTL DEF Spec

LEMMA SeqsOf ==
  ASSUME NEW S, NEW g \in Seq(Seq(S)), NEW D, Elements(g) \subseteq D
  PROVE  g \in Seq(Seq(D))
<1>1. ASSUME NEW k \in DOMAIN g
      PROVE  g[k] \in Seq(D)
  <2>1. g[k] \in Seq(S)
    OBVIOUS
  <2>2. \A i \in DOMAIN g[k] : g[k][i] \in D
    BY ElementsAre
  <2>3. DOMAIN g[k] = 1 .. Len(g[k]) /\ Len(g[k]) \in Nat /\ g[k] \in [1 .. Len(g[k]) -> S]
    BY <2>1
  <2>4. g[k] \in [1 .. Len(g[k]) -> D]
    BY <2>2, <2>3
  <2>5. QED
    BY <2>3, <2>4, FunctionIsSeq
<1>2. DOMAIN g = 1 .. Len(g) /\ Len(g) \in Nat /\ g \in [1 .. Len(g) -> Seq(S)]
  OBVIOUS
<1>3. g \in [1 .. Len(g) -> Seq(D)]
  BY <1>1, <1>2
<1>4. QED
  BY <1>2, <1>3, FunctionIsSeq

LEMMA InitialMemoryInTHP ==
  ASSUME Types
  PROVE  \A a \in InitialMemory : InTHP(a, InitialTHPs)
<1> DEFINE size0 == config.initialBlockSize
           end == config.endOffset * PageSize
<1>1. /\ size0 \in Nat \ {0} /\ config.startOffset \in Nat /\ THPSize \in Nat
      /\ config.endOffset \in Nat /\ config.endOffset <= PagesPerTHP
      /\ PageSize \in Nat \ {0} /\ PagesPerTHP \in Nat
  BY OptionsAre, THPsAre, AmdreAssumption
<1>2. end \in Nat /\ end <= THPSize
  BY <1>1 DEF THPSize
<1>3. ASSUME NEW t \in InitialTHPs, NEW j \in config.startOffset .. (end \div size0) - 1,
             NEW i \in 0 .. size0 - 1
      PROVE  InTHP((mappings[t] + j * size0) + i, InitialTHPs)
  <2>1. PICK n \in Nat : n = end \div size0 /\ n * size0 <= end
    <3> HIDE DEF end, size0
    <3>1. QED
      BY <1>1, <1>2
  <2>2. j \in Nat /\ j + 1 <= n
    BY <1>1, <1>3, <2>1
  <2> HIDE DEF end, size0
  <2>3. (j + 1) * size0 <= n * size0
    BY <1>1, <2>1, <2>2
  <2>4. (j + 1) * size0 = j * size0 + size0 /\ j * size0 \in Nat
    BY <1>1, <2>2
  <2>5. n * size0 \in Nat
    BY <1>1, <2>1
  <2>6. j * size0 + i \in 0 .. THPSize - 1
    BY <1>1, <1>2, <2>1, <2>3, <2>4, <2>5
  <2>7. t \in 1 .. NTHPs /\ mappings[t] \in Nat
    BY OptionsAre, THPsAre DEF InitialTHPs
  <2>8. (mappings[t] + j * size0) + i = mappings[t] + (j * size0 + i)
    BY <1>1, <2>4, <2>7
  <2>9. QED
    BY <2>6, <2>8 DEF InTHP
<1>4. QED
  BY <1>3 DEF InitialMemory, BlocksOf, InitialTHPs

(* Every variable has the values it should have, and when the initial      *)
(* block size is a power of two all grouped addresses are addresses of the *)
(* memory: expandBlocks does not step out of it, guesses of 0 included.    *)
THEOREM AmdreTyped == Spec => []TypeOK
<1>1. Types /\ InMemory => TypeOK
  <2> SUFFICES ASSUME Types, InMemory
               PROVE  TypeOK
    OBVIOUS
  <2>1. IsNumberPowerOfTwo(config.initialBlockSize) => groups \in Seq(Seq(DOMAIN dram.cells))
    BY SeqsOf DEF InMemory, Types
  <2>2. QED
    BY <2>1 DEF Types, TypeOK
<1>2. QED
  BY <1>1, Invariance, PTL DEF IInv

LEMMA AdditionalApart ==
  ASSUME Types, NEW a, InTHP(a, AdditionalTHPs)
  PROVE  a \notin InitialMemory
<1> SUFFICES ASSUME a \in InitialMemory
             PROVE  FALSE
  OBVIOUS
<1>1. InitialTHPs \subseteq 1 .. NTHPs /\ AdditionalTHPs \subseteq 1 .. NTHPs
      /\ InitialTHPs \cap AdditionalTHPs = {}
  BY OptionsAre DEF InitialTHPs, AdditionalTHPs
<1>2. PICK t \in InitialTHPs, o \in 0 .. THPSize - 1 : a = mappings[t] + o
  BY InitialMemoryInTHP DEF InTHP
<1>3. PICK u \in AdditionalTHPs, p \in 0 .. THPSize - 1 : a = mappings[u] + p
  BY DEF InTHP
<1>4. t \in 1 .. NTHPs /\ u \in 1 .. NTHPs /\ mappings[t] + o = mappings[u] + p
  BY <1>1, <1>2, <1>3
<1>5. t = u
  BY <1>4, THPsApart
<1>6. QED
  BY <1>1, <1>5

LEMMA HeadsOnlyHolds == Types /\ LayoutInv => HeadsOnly
<1> SUFFICES ASSUME Types, LayoutInv, Settled, PowersOfTwo
             PROVE  \A k \in DOMAIN groups :
                      /\ \A a \in Range(groups[k]) :
                           IsNumberPowerOfTwo(blockSize) \/ a \in InitialMemory => a % blockSize = 0
                      /\ Cardinality(Range(groups[k])) = Len(groups[k])
                      /\ \A l \in DOMAIN groups \ {k} : Range(groups[k]) \cap Range(groups[l]) = {}
  BY DEF HeadsOnly
<1>1. /\ Sound /\ blockSize # 0 /\ blockSize \in Nat /\ groups \in Seq(Seq(Nat))
      /\ pc # "expand"
  BY DEF LayoutInv, Sound, Settled, PowersOfTwo, Types
<1>2. Settling \/ Adding
  BY <1>1 DEF Sound, Settled, Types
<1>3. Distinct(groups)
  BY <1>1, <1>2 DEF Settling, Adding
<1>4. \A a \in Elements(groups) :
        (InTHP(a, InitialTHPs) /\ a % blockSize = 0) \/ IsOffered(a, AdditionalTHPs)
  BY <1>1, <1>2 DEF Settling, Adding
<1>5. AdditionalTHPs \subseteq 1 .. NTHPs
  BY OptionsAre DEF AdditionalTHPs
<1>6. ASSUME NEW a \in Elements(groups), IsNumberPowerOfTwo(blockSize) \/ a \in InitialMemory
      PROVE  a % blockSize = 0
  <2> SUFFICES ASSUME IsOffered(a, AdditionalTHPs)
               PROVE  a % blockSize = 0
    BY <1>4
  <2>1. InTHP(a, AdditionalTHPs) /\ (IsPower(blockSize) => a % blockSize = 0)
    BY <1>1, <1>5, OfferedInTHP
  <2>2. a \notin InitialMemory
    BY <2>1, AdditionalApart
  <2>3. QED
    BY <1>1, <1>6, <2>1, <2>2, PowerIs
<1>7. ASSUME NEW k \in DOMAIN groups
      PROVE  Range(groups[k]) \subseteq Elements(groups)
  BY DEF Elements
<1>8. ASSUME NEW k \in DOMAIN groups
      PROVE  Cardinality(Range(groups[k])) = Len(groups[k])
  <2> DEFINE g == groups[k]
  <2>1. g \in Seq(Nat)
    BY <1>1
  <2>2. g \in [1 .. Len(g) -> Nat] /\ Len(g) \in Nat /\ DOMAIN g = 1 .. Len(g)
    BY <2>1
  <2>3. \A i, j \in DOMAIN g : g[i] = g[j] => i = j
    BY <1>3 DEF Distinct
  <2> HIDE DEF g
  <2>4. \A i, j \in 1 .. Len(g) : i < j => g[i] # g[j]
    BY <2>2, <2>3
  <2>5. Cardinality(Range(g)) = Len(g)
    BY <2>2, <2>4, EnumerationCovers
  <2>6. QED
    BY <2>5 DEF g
<1>9. ASSUME NEW k \in DOMAIN groups, NEW l \in DOMAIN groups \ {k}
      PROVE  Range(groups[k]) \cap Range(groups[l]) = {}
  BY <1>3 DEF Distinct, Range
<1>10. QED
  BY <1>6, <1>7, <1>8, <1>9

(* Whatever the steps of the block size, for powers of two each group      *)
(* holds heads of blocks of the size reached and no address is in two      *)
(* places, while and after the additional THPs come in.                    *)
THEOREM AmdreHeadsOnly == Spec => []HeadsOnly
BY HeadsOnlyHolds, Invariance, PTL DEF IInv

(* detectBlockSize never reaches a size below the option -s, as long as    *)
(* that is a power of two and no larger than the initial size.             *)
THEOREM AmdreMinimum == Spec => []MinimumRespected
<1>1. Minimum => MinimumRespected
  BY DEF Minimum, MinimumRespected
<1>2. QED
  BY <1>1, Invariance, PTL DEF IInv

=============================================================================
