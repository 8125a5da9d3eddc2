----------------------------- MODULE Threshold -----------------------------
(***************************************************************************)
(* Measuring the row conflict threshold before anything is grouped         *)
(* (helper.cpp): a histogram of the times of one page against all pages of *)
(* a THP gives one threshold or none, and the median of several is kept.   *)
(* Times are counted in bins of 10 cycles; all thresholds are multiples of *)
(* that, so a time reaches one exactly when its bin does.                  *)
(***************************************************************************)
EXTENDS Sorting, Sequences, FiniteSetsExt, SequencesExt

CONSTANTS
  PagesPerTHP,     \* option -P
  Setups,          \* option -t, and option -T (0: measure)
  Histograms(_)    \* what the memory of a setup can yield, in one measurement

ASSUME ThresholdAssumption ==
  /\ PagesPerTHP \in Nat \ {0}
  /\ \A s \in Setups :
       /\ s.option \in Nat /\ s.measurements \in Nat \ {0}
       /\ \A h \in Histograms(s) :   \* count[i] pages, i bins above the lowest
            /\ h.lowest \in Nat /\ h.count[0] > 0 /\ IsFiniteSet(DOMAIN h.count)
            /\ h.count \in [0 .. Cardinality(DOMAIN h.count) - 1 -> Nat]
            /\ SumFunction(h.count) = PagesPerTHP

VARIABLES
  setup,
  times,        \* the histogram of the last measurement, << >> before the first
  thresholds,   \* the results so far; -1 when none was found
  threshold     \* config's: 0 when it is still to be measured

vars == <<setup, times, thresholds, threshold>>

-----------------------------------------------------------------------------
(* measureSingleThreshold *)

FoundMatches(h, i) == SumFunctionOnSet(h.count, 0 .. i)

MostPages == (PagesPerTHP * 3) \div 4

LargeBins(h) == {i \in DOMAIN h.count : h.count[i] > 2}

LastValue(h, i) == Max({0} \cup {j \in LargeBins(h) : j < i})

(* lastValue < i - 2 in unsigned arithmetic, where 0 - 2 and 1 - 2 are huge *)
FollowsGap(h, i) == i < 2 \/ LastValue(h, i) < i - 2

(* A variant of EndsGap that does not ask how many pages were faster. *)
EndsAnyGap(h, i) == FollowsGap(h, i)

EndsGap(h, i) == FollowsGap(h, i) /\ FoundMatches(h, i) >= MostPages

Candidates(h) == {i \in LargeBins(h) : EndsGap(h, i)}

SingleThreshold(h) ==
  IF Candidates(h) = {} THEN -1
  ELSE LET i == Min(Candidates(h)) IN (i + LastValue(h, i)) \div 2 + h.lowest

-----------------------------------------------------------------------------
(* measureThreshold.  The results are kept as uint64_t; compareUInt64      *)
(* truncates their difference to int, so that -1 is the smallest again.    *)

(* Variants of Median: without sorting, and the element before it. *)
Middle(s) == s[Len(s) \div 2 + 1]
BeforeMedian(s) == Sorted(s)[(Len(s) + 1) \div 2]

Median(s) == Sorted(s)[Len(s) \div 2 + 1]

Init ==
  /\ setup \in Setups
  /\ times = << >>
  /\ thresholds = << >>
  /\ threshold = setup.option

(* A variant of Unmeasured by which one measurement too many is written. *)
OneMoreUnmeasured == Len(thresholds) <= setup.measurements

Unmeasured == Len(thresholds) < setup.measurements

MeasureSingleThreshold ==
  /\ threshold = 0 /\ Unmeasured
  /\ times' \in Histograms(setup)
  /\ thresholds' = Append(thresholds, SingleThreshold(times'))
  /\ UNCHANGED <<setup, threshold>>

TakeMedian ==
  /\ threshold = 0 /\ ~ Unmeasured
  /\ threshold' = Median(thresholds)
  /\ UNCHANGED <<setup, times, thresholds>>

Next == MeasureSingleThreshold \/ TakeMedian

Spec == Init /\ [][Next]_vars

-----------------------------------------------------------------------------

(* The results are those of the measurements asked for, and each is the    *)
(* failure or a time.                                                      *)
TypeOK ==
  /\ setup \in Setups /\ times \in Histograms(setup) \cup {<< >>}
  /\ thresholds \in Seq(Nat \cup {-1}) /\ Len(thresholds) <= setup.measurements
  /\ threshold \in Nat \cup {-1}

(* Hits up to bin f, which are three quarters of the pages, and conflicts  *)
(* from bin c on, with a gap between them.                                 *)
HitsAndConflicts(h, f, c) ==
  /\ f \in LargeBins(h) /\ c \in LargeBins(h) /\ c - f > 2
  /\ \A i \in DOMAIN h.count : h.count[i] > 0 => i <= f \/ i >= c
  /\ FoundMatches(h, f) >= MostPages

(* The hits are spread over several bins, some of them past the bins 0 and *)
(* 1, with no gap between those that are large.                            *)
SpreadHits(h, f) ==
  LET hits == {i \in LargeBins(h) : i <= f}
  IN /\ \A i \in {0, 1, Min(hits)} : FoundMatches(h, i) < MostPages
     /\ \A i \in hits \ {f} : i + 1 \in hits \/ i + 2 \in hits

Between(t, f, c) == t - times.lowest \in f + 1 .. c

(* A threshold that comes from spread hits and from conflicts lies between *)
(* them, whatever single pages are faster than both (as the page that is   *)
(* compared with itself).                                                  *)
SpreadHitsSeparated ==
  thresholds # << >> =>
    \A f, c \in DOMAIN times.count :
      HitsAndConflicts(times, f, c) /\ SpreadHits(times, f)
        => Between(Last(thresholds), f, c)

Majority(ks) == 2 * Cardinality(ks) > setup.measurements

Times == {0} \cup {thresholds[k] : k \in DOMAIN thresholds}

Measured == threshold # 0 /\ setup.option = 0

(* When most single measurements lie between the hits and the conflicts,   *)
(* so does the threshold that is kept, whether the others are too low, too *)
(* high or have failed.                                                    *)
MedianShields ==
  Measured =>
    \A f, c \in Times :
      Majority({k \in DOMAIN thresholds : thresholds[k] \in f .. c}) => threshold \in f .. c

(* The threshold that nothing ever reaches, a stored -1, is only kept when *)
(* most of the measurements failed.                                        *)
FailureNeedsMajority ==
  Measured /\ threshold = -1 =>
    Majority({k \in DOMAIN thresholds : thresholds[k] = -1})

-----------------------------------------------------------------------------

(* README.md:34: "The threshold between row hit and row conflict is        *)
(* measured automatically": so it should be for hits in few bins, too.     *)
HitsSeparated ==
  thresholds # << >> =>
    \A f, c \in DOMAIN times.count :
      HitsAndConflicts(times, f, c) => Between(Last(thresholds), f, c)

=============================================================================
