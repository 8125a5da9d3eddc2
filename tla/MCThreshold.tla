---------------------------- MODULE MCThreshold ----------------------------
(***************************************************************************)
(* Instances of Threshold: every histogram of a THP for one measurement,   *)
(* and a few of each kind for the median of several.                       *)
(***************************************************************************)
EXTENDS Threshold

CONSTANTS
  MaxBin,            \* bound: bins above the lowest
  MaxMeasurements    \* bound: measurements when there are several

Histogram(lowest, counts) ==
  [lowest |-> lowest, count |-> [i \in 0 .. Len(counts) - 1 |-> counts[i + 1]]]

(* PagesPerTHP pages in the bins 0 .. MaxBin, parted by MaxBin bars *)
Counts(bars) ==
  LET all == bars \cup {0, PagesPerTHP + MaxBin + 1}
      bar(i) == CHOOSE b \in all : Cardinality({x \in all : x < b}) = i
  IN [i \in 0 .. MaxBin |-> bar(i + 1) - bar(i) - 1]

AllHistograms ==
  {[lowest |-> 3, count |-> Counts(bars)] :
     bars \in kSubset(MaxBin, 2 .. PagesPerTHP + MaxBin)}

(* two that separate hits from conflicts; a narrow peak of hits, which     *)
(* gives a threshold below it; a disturbed one whose hits are slow; and    *)
(* conflicts that are too few to be seen                                   *)
SomeHistograms ==
  {Histogram(30, <<1, 3, 3, 0, 0, 0, 3>>), Histogram(31, <<1, 3, 3, 0, 0, 3>>),
   Histogram(30, <<1, 0, 0, 0, 6, 0, 0, 0, 3>>), Histogram(36, <<1, 3, 3, 0, 0, 0, 3>>),
   Histogram(30, <<1, 3, 3, 0, 0, 0, 1, 1, 1>>)}

AllSetups ==
  {[option |-> 0, measurements |-> 1]}
    \cup [option : {0, 33}, measurements : 2 .. MaxMeasurements]

HistogramsOf(s) == IF s.measurements = 1 THEN AllHistograms ELSE SomeHistograms

=============================================================================
