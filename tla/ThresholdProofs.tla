-------------------------- MODULE ThresholdProofs --------------------------
(***************************************************************************)
(* Proofs about Threshold: a histogram with spread hits gives a threshold  *)
(* above them and not above the conflicts, and the median of several       *)
(* thresholds is where most of them are.                                   *)
(***************************************************************************)
EXTENDS Threshold, Lemmas

-----------------------------------------------------------------------------
(* Histograms *)

IsHistogram(h) ==
  /\ h.lowest \in Nat
  /\ IsFiniteSet(DOMAIN h.count)
  /\ h.count \in [0 .. Cardinality(DOMAIN h.count) - 1 -> Nat]

LEMMA HistogramsAre ==
  ASSUME NEW s \in Setups, NEW h \in Histograms(s)
  PROVE  IsHistogram(h)
BY ThresholdAssumption DEF IsHistogram

LEMMA BinsAreNatural ==
  ASSUME NEW h, IsHistogram(h)
  PROVE  /\ DOMAIN h.count = 0 .. Cardinality(DOMAIN h.count) - 1
         /\ DOMAIN h.count \subseteq Nat
         /\ LargeBins(h) \subseteq DOMAIN h.count /\ IsFiniteSet(LargeBins(h))
<1>1. DOMAIN h.count = 0 .. Cardinality(DOMAIN h.count) - 1 /\ IsFiniteSet(DOMAIN h.count)
  BY DEF IsHistogram
<1>2. Cardinality(DOMAIN h.count) \in Nat
  BY <1>1, FS_CardinalityType
<1> DEFINE n == Cardinality(DOMAIN h.count)
<1> HIDE DEF n
<1>3. DOMAIN h.count = 0 .. n - 1 /\ n \in Nat
  BY <1>1, <1>2 DEF n
<1>4. DOMAIN h.count \subseteq Nat
  BY <1>3
<1>5. LargeBins(h) \subseteq DOMAIN h.count
  BY DEF LargeBins
<1>6. QED
  BY <1>1, <1>4, <1>5, FS_Subset

(* The pages counted up to a bin are no more than those up to a later one. *)
LEMMA MatchesGrow ==
  ASSUME NEW h, IsHistogram(h), NEW i \in DOMAIN h.count, NEW j \in DOMAIN h.count, i <= j
  PROVE  /\ FoundMatches(h, i) \in Nat /\ FoundMatches(h, j) \in Nat
         /\ FoundMatches(h, i) <= FoundMatches(h, j)
<1> DEFINE n == Cardinality(DOMAIN h.count)
<1>1. DOMAIN h.count = 0 .. n - 1 /\ DOMAIN h.count \subseteq Nat
  BY BinsAreNatural
<1>2. IsFiniteSet(DOMAIN h.count) /\ \A k \in DOMAIN h.count : h.count[k] \in Nat
  BY DEF IsHistogram
<1>3. n \in Nat
  BY <1>2, FS_CardinalityType
<1> HIDE DEF n
<1>4. 0 .. j \subseteq DOMAIN h.count /\ 0 .. i \subseteq 0 .. j
  BY <1>1, <1>3
<1>5. IsFiniteSet(0 .. j) /\ \A k \in 0 .. j : h.count[k] \in Nat
  BY <1>2, <1>4, FS_Subset
<1>6. QED
  BY <1>4, <1>5, SumGrows DEF FoundMatches

(* The last large bin before i, which is 0 when there is none *)
LEMMA LastValueIs ==
  ASSUME NEW h, IsHistogram(h), NEW i \in DOMAIN h.count
  PROVE  /\ LastValue(h, i) \in {0} \cup {j \in LargeBins(h) : j < i}
         /\ LastValue(h, i) \in Nat
         /\ \A j \in LargeBins(h) : j < i => j <= LastValue(h, i)
<1> DEFINE S == {0} \cup {j \in LargeBins(h) : j < i}
<1>1. S \subseteq Int /\ S \subseteq Nat /\ S # {} /\ IsFiniteSet(S)
  <2>1. LargeBins(h) \subseteq Nat /\ IsFiniteSet(LargeBins(h))
    BY BinsAreNatural
  <2>2. IsFiniteSet({j \in LargeBins(h) : j < i}) /\ IsFiniteSet({0})
    BY <2>1, FS_Subset, FS_Singleton
  <2>3. IsFiniteSet(S)
    BY <2>2, FS_Union
  <2>4. QED
    BY <2>1, <2>3
<1> HIDE DEF S
<1>2. \E x \in S : \A y \in S : x >= y
  <2>1. PICK x \in S : \A y \in S : y <= x
    BY <1>1, LargestOfFinite
  <2>2. \A y \in S : x >= y
    BY <1>1, <2>1
  <2>3. QED
    BY <2>2
<1>3. Max(S) \in S /\ \A y \in S : Max(S) >= y
  BY <1>2 DEF Max
<1>4. LastValue(h, i) = Max(S)
  BY DEF LastValue, S
<1>5. \A y \in S : y <= Max(S)
  BY <1>1, <1>3
<1>6. QED
  BY <1>1, <1>3, <1>4, <1>5 DEF S

(* The first candidate, if there is one *)
LEMMA FirstCandidate ==
  ASSUME NEW h, IsHistogram(h), Candidates(h) # {}
  PROVE  /\ Min(Candidates(h)) \in Candidates(h)
         /\ \A i \in Candidates(h) : Min(Candidates(h)) <= i
<1>1. Candidates(h) \subseteq LargeBins(h)
  BY DEF Candidates
<1>2. Candidates(h) \subseteq Int /\ IsFiniteSet(Candidates(h))
  BY <1>1, BinsAreNatural, FS_Subset
<1>3. \E x \in Candidates(h) : \A y \in Candidates(h) : x <= y
  BY <1>2, SmallestOfFinite
<1>4. QED
  BY <1>3 DEF Min

LEMMA CandidatesAreBins ==
  ASSUME NEW h, IsHistogram(h), NEW i \in Candidates(h)
  PROVE  i \in DOMAIN h.count /\ i \in LargeBins(h) /\ i \in Nat
BY BinsAreNatural DEF Candidates

(* measureSingleThreshold returns a time or -1. *)
LEMMA SingleThresholdType ==
  ASSUME NEW h, IsHistogram(h)
  PROVE  SingleThreshold(h) \in Nat \cup {-1}
<1>1. CASE Candidates(h) = {}
  BY <1>1 DEF SingleThreshold
<1>2. CASE Candidates(h) # {}
  <2> DEFINE i == Min(Candidates(h))
  <2>1. i \in DOMAIN h.count /\ i \in Nat
    BY <1>2, FirstCandidate, CandidatesAreBins
  <2>2. LastValue(h, i) \in Nat
    BY <2>1, LastValueIs
  <2>3. h.lowest \in Nat
    BY DEF IsHistogram
  <2>4. SingleThreshold(h) = (i + LastValue(h, i)) \div 2 + h.lowest
    BY <1>2 DEF SingleThreshold
  <2> HIDE DEF i
  <2>5. \A x, y, z \in Nat : (x + y) \div 2 + z \in Nat
    OBVIOUS
  <2>6. QED
    BY <2>1, <2>2, <2>3, <2>4, <2>5
<1>3. QED
  BY <1>1, <1>2

-----------------------------------------------------------------------------
(* Spread hits.  The bin c, with which the conflicts begin, is a           *)
(* candidate; a smaller one would follow a gap among the hits.             *)

LEMMA ConflictsAreCandidate ==
  ASSUME NEW h, IsHistogram(h), NEW f \in DOMAIN h.count, NEW c \in DOMAIN h.count,
         HitsAndConflicts(h, f, c)
  PROVE  LastValue(h, c) = f /\ c \in Candidates(h)
<1>1. DOMAIN h.count \subseteq Nat /\ LargeBins(h) \subseteq DOMAIN h.count
  BY BinsAreNatural
<1>2. f \in LargeBins(h) /\ c \in LargeBins(h) /\ f \in Nat /\ c \in Nat /\ c - f > 2
  BY <1>1 DEF HitsAndConflicts
<1>3. \A j \in LargeBins(h) : j < c => j <= f
  <2> SUFFICES ASSUME NEW j \in LargeBins(h), j < c
               PROVE  j <= f
    OBVIOUS
  <2>1. j \in DOMAIN h.count /\ h.count[j] > 2 /\ h.count[j] \in Nat
    BY DEF LargeBins, IsHistogram
  <2>2. h.count[j] > 0
    BY <2>1
  <2>3. j \in Nat /\ (j <= f \/ j >= c)
    BY <1>1, <2>1, <2>2 DEF HitsAndConflicts
  <2>4. QED
    BY <1>2, <2>3
<1>4. LastValue(h, c) = f
  <2>1. /\ LastValue(h, c) \in {0} \cup {j \in LargeBins(h) : j < c}
        /\ LastValue(h, c) \in Nat
        /\ \A j \in LargeBins(h) : j < c => j <= LastValue(h, c)
    BY LastValueIs
  <2>2. f <= LastValue(h, c)
    BY <1>2, <2>1
  <2>3. LastValue(h, c) <= f
    BY <1>2, <1>3, <2>1
  <2>4. QED
    BY <1>2, <2>1, <2>2, <2>3
<1>5. FollowsGap(h, c)
  BY <1>2, <1>4 DEF FollowsGap
<1>6. FoundMatches(h, c) >= MostPages
  <2>1. /\ FoundMatches(h, f) \in Nat /\ FoundMatches(h, c) \in Nat
        /\ FoundMatches(h, f) <= FoundMatches(h, c)
    BY <1>2, MatchesGrow
  <2>2. FoundMatches(h, f) >= MostPages
    BY DEF HitsAndConflicts
  <2>3. MostPages \in Int
    BY ThresholdAssumption DEF MostPages
  <2>4. QED
    BY <2>1, <2>2, <2>3
<1>7. QED
  BY <1>2, <1>4, <1>5, <1>6 DEF Candidates, EndsGap

LEMMA NoCandidateAmongHits ==
  ASSUME NEW h, IsHistogram(h), NEW f \in DOMAIN h.count, f \in LargeBins(h),
         SpreadHits(h, f), NEW i \in Candidates(h), i <= f
  PROVE  FALSE
<1> DEFINE hits == {j \in LargeBins(h) : j <= f}
<1>1. LargeBins(h) \subseteq Nat /\ i \in DOMAIN h.count /\ i \in LargeBins(h)
  BY BinsAreNatural, CandidatesAreBins
<1>2. /\ \A j \in {0, 1, Min(hits)} : FoundMatches(h, j) < MostPages
      /\ \A j \in hits \ {f} : j + 1 \in hits \/ j + 2 \in hits
  BY DEF SpreadHits
<1>3. FollowsGap(h, i) /\ FoundMatches(h, i) >= MostPages
  BY DEF Candidates, EndsGap
<1>4. i \notin {0, 1, Min(hits)}
  <2>1. FoundMatches(h, i) \in Nat /\ MostPages \in Int
    BY <1>1, MatchesGrow, ThresholdAssumption, i <= i DEF MostPages, LargeBins
  <2>2. ~ (FoundMatches(h, i) < MostPages)
    BY <1>3, <2>1
  <2>3. QED
    BY <1>2, <2>2
<1>5. i \in Nat /\ f \in Nat /\ LastValue(h, i) < i - 2
  BY <1>1, <1>3, <1>4 DEF FollowsGap
<1>6. /\ LastValue(h, i) \in {0} \cup {j \in LargeBins(h) : j < i}
      /\ LastValue(h, i) \in Nat
      /\ \A j \in LargeBins(h) : j < i => j <= LastValue(h, i)
  BY <1>1, LastValueIs
<1>7. PICK m \in hits : m < i
  <2>1. hits \subseteq Int /\ IsFiniteSet(hits) /\ i \in hits
    BY <1>1, BinsAreNatural, FS_Subset
  <2> HIDE DEF hits
  <2>2. \E x \in hits : \A y \in hits : x <= y
    BY <2>1, SmallestOfFinite
  <2>3. Min(hits) \in hits /\ Min(hits) <= i
    BY <2>1, <2>2 DEF Min
  <2>4. Min(hits) < i
    <3>1. Min(hits) # i /\ Min(hits) \in Int /\ i \in Int
      BY <1>4, <2>1, <2>3
    <3>2. QED
      BY <2>3, <3>1
  <2>5. QED
    BY <2>3, <2>4
<1>8. LastValue(h, i) \in hits \ {f}
  <2>1. m \in Nat /\ m \in LargeBins(h) /\ m <= LastValue(h, i)
    BY <1>1, <1>6, <1>7
  <2>2. LastValue(h, i) \in LargeBins(h)
    BY <1>6, <2>1
  <2>3. QED
    BY <1>5, <1>6, <2>2
<1>9. PICK j \in hits : j = LastValue(h, i) + 1 \/ j = LastValue(h, i) + 2
  BY <1>2, <1>8
<1>10. j \in LargeBins(h) /\ j \in Nat /\ j < i
  BY <1>1, <1>5, <1>6, <1>9
<1>11. j <= LastValue(h, i)
  BY <1>6, <1>10
<1>12. QED
  BY <1>6, <1>9, <1>10, <1>11

LEMMA SpreadHitsGiveBetween ==
  ASSUME NEW h, IsHistogram(h), NEW f \in DOMAIN h.count, NEW c \in DOMAIN h.count,
         HitsAndConflicts(h, f, c), SpreadHits(h, f)
  PROVE  SingleThreshold(h) - h.lowest \in f + 1 .. c
<1> DEFINE i == Min(Candidates(h))
<1>1. LastValue(h, c) = f /\ c \in Candidates(h) /\ Candidates(h) # {}
  BY ConflictsAreCandidate
<1>2. i \in Candidates(h) /\ i <= c
  BY <1>1, FirstCandidate
<1>3. i \in DOMAIN h.count /\ i \in LargeBins(h) /\ i \in Nat
  BY <1>2, CandidatesAreBins
<1>4. f \in Nat /\ c \in Nat /\ f \in LargeBins(h) /\ c - f > 2 /\ h.lowest \in Nat
  BY BinsAreNatural DEF HitsAndConflicts, IsHistogram
<1>5. i >= c
  <2>1. ~ (i <= f)
    BY <1>2, <1>4, NoCandidateAmongHits
  <2>2. h.count[i] > 0
    <3>1. h.count[i] \in Nat /\ h.count[i] > 2
      BY <1>3 DEF LargeBins, IsHistogram
    <3>2. QED
      BY <3>1
  <2>3. QED
    BY <1>3, <2>1, <2>2 DEF HitsAndConflicts
<1>6. i = c
  BY <1>2, <1>3, <1>4, <1>5
<1>7. SingleThreshold(h) = (c + f) \div 2 + h.lowest
  BY <1>1, <1>6 DEF SingleThreshold
<1>8. QED
  BY <1>4, <1>7

-----------------------------------------------------------------------------
(* The median *)

LEMMA MedianIs ==
  ASSUME NEW s \in Seq(Nat \cup {-1}), Len(s) > 0
  PROVE  /\ Median(s) \in {s[k] : k \in DOMAIN s} /\ Median(s) \in Nat \cup {-1}
         /\ Cardinality({k \in DOMAIN s : s[k] < Median(s)}) <= Len(s) \div 2
         /\ Cardinality({k \in DOMAIN s : s[k] <= Median(s)}) > Len(s) \div 2
<1> DEFINE n == Len(s)
           m == n \div 2 + 1
           D == DOMAIN s
           v == Median(s)
<1>1. n \in Nat /\ n > 0 /\ D = 1 .. n /\ \A k \in D : s[k] \in Nat \cup {-1}
  OBVIOUS
<1>2. IsFiniteSet(D) /\ Cardinality(D) = n
  BY <1>1, IntervalSize
<1>3. m \in 1 .. n
  BY <1>1
<1>4. v = SortedPart(s, D)[m]
  BY DEF Median, Sorted
<1>5. \A k \in D : s[k] \in Int
  BY <1>1
<1>6. m \in 1 .. Cardinality(D)
  BY <1>2, <1>3
<1>7. \A x : IsFiniteSet({k \in D : s[k] < x}) /\ IsFiniteSet({k \in D : s[k] <= x})
  BY <1>2, FS_Subset
<1> HIDE DEF D, m, v, n
<1>8. /\ v \in {s[k] : k \in D}
      /\ Cardinality({k \in D : s[k] < v}) < m
      /\ Cardinality({k \in D : s[k] <= v}) >= m
  <2>1. HasRank(SortedPart(s, D)[m], m, s, D)
    BY <1>2, <1>5, <1>6, SortedAt
  <2>2. HasRank(v, m, s, D)
    BY <1>4, <2>1
  <2>3. QED
    BY <2>2 DEF HasRank
<1>9. /\ Cardinality({k \in D : s[k] < v}) \in Nat
      /\ Cardinality({k \in D : s[k] <= v}) \in Nat
  BY <1>7, FS_CardinalityType
<1>10. v \in Nat \cup {-1}
  BY <1>1, <1>8
<1>11. /\ Cardinality({k \in D : s[k] < v}) <= n \div 2
       /\ Cardinality({k \in D : s[k] <= v}) > n \div 2
  BY <1>1, <1>8, <1>9 DEF m
<1>12. QED
  BY <1>8, <1>10, <1>11 DEF D, v, n

(* An interval that holds most of the values holds the median. *)
LEMMA MedianInMajority ==
  ASSUME NEW s \in Seq(Nat \cup {-1}), NEW f \in Int, NEW c \in Int,
         2 * Cardinality({k \in DOMAIN s : s[k] \in f .. c}) > Len(s)
  PROVE  Median(s) \in f .. c
<1> DEFINE n == Len(s)
           K == {k \in DOMAIN s : s[k] \in f .. c}
           v == Median(s)
           upTo == {k \in DOMAIN s : s[k] <= v}
           below == {k \in DOMAIN s : s[k] < v}
<1>1. n \in Nat /\ IsFiniteSet(DOMAIN s) /\ Cardinality(DOMAIN s) = n
  BY IntervalSize
<1>2. /\ IsFiniteSet(K) /\ IsFiniteSet(upTo) /\ IsFiniteSet(below)
      /\ Cardinality(K) \in Nat /\ Cardinality(upTo) \in Nat /\ Cardinality(below) \in Nat
      /\ Cardinality(K) <= n
  BY <1>1, FS_Subset, FS_CardinalityType
<1>3. 2 * Cardinality(K) > n
  OBVIOUS
<1>4. v \in Int /\ Cardinality(below) <= n \div 2 /\ Cardinality(upTo) > n \div 2
  <2>1. n > 0
    BY <1>1, <1>2, <1>3
  <2>2. v \in Nat \cup {-1} /\ Cardinality(below) <= n \div 2 /\ Cardinality(upTo) > n \div 2
    BY <2>1, MedianIs, Zenon
  <2> HIDE DEF v, below, upTo, n
  <2>3. QED
    BY <2>2
<1> HIDE DEF v
<1>5. \A k \in DOMAIN s : s[k] \in Int
  OBVIOUS
<1>6. ASSUME v < f
      PROVE  FALSE
  <2>1. upTo \cap K = {}
    BY <1>4, <1>5, <1>6
  <2>2. upTo \cup K \subseteq DOMAIN s
    OBVIOUS
  <2> HIDE DEF upTo, K, n
  <2>3. Cardinality(upTo \cup K) = Cardinality(upTo) + Cardinality(K)
    BY <1>2, <2>1, DisjointSize
  <2>4. Cardinality(upTo \cup K) <= n
    BY <1>1, <2>2, FS_Subset
  <2>5. QED
    BY <1>1, <1>2, <1>3, <1>4, <2>3, <2>4
<1>7. ASSUME v > c
      PROVE  FALSE
  <2>1. K \subseteq below
    BY <1>4, <1>5, <1>7
  <2> HIDE DEF below, K, n
  <2>2. Cardinality(K) <= Cardinality(below)
    BY <1>2, <2>1, FS_Subset
  <2>3. QED
    BY <1>1, <1>2, <1>3, <1>4, <2>2
<1>8. QED
  BY <1>4, <1>6, <1>7 DEF v

LEMMA FailedMedian ==
  ASSUME NEW s \in Seq(Nat \cup {-1}), Len(s) > 0, Median(s) = -1
  PROVE  2 * Cardinality({k \in DOMAIN s : s[k] = -1}) > Len(s)
<1> DEFINE n == Len(s)
           K == {k \in DOMAIN s : s[k] = -1}
<1>1. n \in Nat /\ IsFiniteSet(DOMAIN s)
  BY IntervalSize
<1>2. {k \in DOMAIN s : s[k] <= Median(s)} = K
  OBVIOUS
<1>3. Cardinality(K) > n \div 2
  BY <1>2, MedianIs
<1>4. Cardinality(K) \in Nat
  BY <1>1, FS_Subset, FS_CardinalityType
<1> HIDE DEF n, K
<1>5. 2 * Cardinality(K) > n
  BY <1>1, <1>3, <1>4
<1>6. QED
  BY <1>5 DEF n, K

-----------------------------------------------------------------------------
(* measureThreshold *)

(* The last result is that of the last histogram, and what is kept is the  *)
(* median of all that were asked for.                                      *)
MeasureInv ==
  /\ TypeOK
  /\ thresholds # << >> =>
       /\ times \in Histograms(setup)
       /\ Last(thresholds) = SingleThreshold(times)
  /\ \/ threshold = setup.option
     \/ /\ setup.option = 0
        /\ Len(thresholds) = setup.measurements
        /\ threshold = Median(thresholds)

LEMMA MeasureInvInit ==
  Init => MeasureInv
BY ThresholdAssumption DEF Init, MeasureInv, TypeOK

LEMMA MeasureInvStep ==
  MeasureInv /\ [Next]_vars => MeasureInv'
<1> SUFFICES ASSUME MeasureInv, [Next]_vars
             PROVE  MeasureInv'
  OBVIOUS
<1> USE DEF MeasureInv, TypeOK
<1>1. setup.option \in Nat /\ setup.measurements \in Nat \ {0}
  BY ThresholdAssumption
<1>2. CASE MeasureSingleThreshold
  <2> DEFINE t == SingleThreshold(times')
  <2>1. times' \in Histograms(setup) /\ thresholds' = Append(thresholds, t)
    BY <1>2 DEF MeasureSingleThreshold
  <2>2. t \in Nat \cup {-1}
    BY <2>1, HistogramsAre, SingleThresholdType
  <2> HIDE DEF t
  <2>3. /\ thresholds' \in Seq(Nat \cup {-1})
        /\ Len(thresholds') = Len(thresholds) + 1 /\ Last(thresholds') = t
    BY <2>1, <2>2 DEF Last
  <2>4. setup' = setup /\ threshold' = threshold /\ threshold = 0
    BY <1>2 DEF MeasureSingleThreshold
  <2>5. Len(thresholds) < setup.measurements /\ Len(thresholds) \in Nat
    BY <1>2 DEF MeasureSingleThreshold, Unmeasured
  <2>6. TypeOK'
    BY <1>1, <2>1, <2>3, <2>4, <2>5
  <2>7. threshold' = setup'.option
    BY <2>4, <2>5
  <2>8. QED
    BY <2>1, <2>3, <2>4, <2>6, <2>7 DEF t
<1>3. CASE TakeMedian
  <2>1. /\ threshold = 0 /\ ~ Unmeasured /\ threshold' = Median(thresholds)
        /\ UNCHANGED <<setup, times, thresholds>>
    BY <1>3 DEF TakeMedian
  <2>2. Len(thresholds) = setup.measurements /\ Len(thresholds) > 0
    <3>1. ~ (Len(thresholds) < setup.measurements) /\ Len(thresholds) \in Nat
      BY <2>1 DEF Unmeasured
    <3>2. QED
      BY <1>1, <3>1
  <2>3. Median(thresholds) \in Nat \cup {-1}
    BY <2>2, MedianIs
  <2>4. setup.option = 0
    BY <2>1, <2>2
  <2>5. Median(thresholds)' = Median(thresholds)
    BY <2>1
  <2>6. QED
    BY <2>1, <2>2, <2>3, <2>4, <2>5
<1>4. CASE UNCHANGED vars
  <2>1. UNCHANGED <<setup, times, thresholds, threshold>>
    BY <1>4 DEF vars
  <2>2. /\ Median(thresholds)' = Median(thresholds)
        /\ SingleThreshold(times)' = SingleThreshold(times)
        /\ Last(thresholds)' = Last(thresholds) /\ Len(thresholds)' = Len(thresholds)
    BY <2>1
  <2>3. QED
    BY <2>1, <2>2
<1>5. QED
  BY <1>2, <1>3, <1>4 DEF Next

LEMMA MeasureInvSafety ==
  Spec => []MeasureInv
BY MeasureInvInit, MeasureInvStep, PTL DEF Spec

(* Each result is -1 or a time, there are no more than asked for, and the  *)
(* threshold is one of them or the option.                                 *)
THEOREM TypeSafety ==
  Spec => []TypeOK
<1>1. MeasureInv => TypeOK
  BY DEF MeasureInv
<1>2. QED
  BY <1>1, MeasureInvSafety, PTL

(* measureSingleThreshold separates spread hits from conflicts, for any    *)
(* number of pages and bins.                                               *)
THEOREM SpreadHitsAreSeparated ==
  Spec => []SpreadHitsSeparated
<1>1. MeasureInv => SpreadHitsSeparated
  <2> SUFFICES ASSUME MeasureInv, thresholds # << >>,
                      NEW f \in DOMAIN times.count, NEW c \in DOMAIN times.count,
                      HitsAndConflicts(times, f, c), SpreadHits(times, f)
               PROVE  Between(Last(thresholds), f, c)
    BY DEF SpreadHitsSeparated
  <2>1. IsHistogram(times) /\ Last(thresholds) = SingleThreshold(times)
    BY HistogramsAre DEF MeasureInv, TypeOK
  <2>2. SingleThreshold(times) - times.lowest \in f + 1 .. c
    BY <2>1, SpreadHitsGiveBetween
  <2>3. QED
    BY <2>1, <2>2 DEF Between
<1>2. QED
  BY <1>1, MeasureInvSafety, PTL

(* A median of any number of results is where most of them are. *)
THEOREM MedianIsShielded ==
  Spec => []MedianShields
<1>1. MeasureInv => MedianShields
  <2> SUFFICES ASSUME MeasureInv, Measured, NEW f \in Times, NEW c \in Times,
                      Majority({k \in DOMAIN thresholds : thresholds[k] \in f .. c})
               PROVE  threshold \in f .. c
    BY DEF MedianShields
  <2>1. /\ thresholds \in Seq(Nat \cup {-1})
        /\ Len(thresholds) = setup.measurements /\ threshold = Median(thresholds)
    BY DEF MeasureInv, TypeOK, Measured
  <2>2. f \in Int /\ c \in Int
    BY <2>1 DEF Times
  <2>3. 2 * Cardinality({k \in DOMAIN thresholds : thresholds[k] \in f .. c}) > Len(thresholds)
    BY <2>1 DEF Majority
  <2>4. QED
    BY <2>1, <2>2, <2>3, MedianInMajority
<1>2. QED
  BY <1>1, MeasureInvSafety, PTL

(* A -1 is only kept when most of the measurements returned it. *)
THEOREM FailureIsMajority ==
  Spec => []FailureNeedsMajority
<1>1. MeasureInv => FailureNeedsMajority
  <2> SUFFICES ASSUME MeasureInv, Measured, threshold = -1
               PROVE  Majority({k \in DOMAIN thresholds : thresholds[k] = -1})
    BY DEF FailureNeedsMajority
  <2>1. /\ thresholds \in Seq(Nat \cup {-1})
        /\ Len(thresholds) = setup.measurements /\ Median(thresholds) = -1
    BY DEF MeasureInv, TypeOK, Measured
  <2>2. Len(thresholds) > 0
    BY <2>1, ThresholdAssumption DEF MeasureInv, TypeOK
  <2>3. QED
    BY <2>1, <2>2, FailedMedian DEF Majority
<1>2. QED
  BY <1>1, MeasureInvSafety, PTL

=============================================================================
