------------------------------ MODULE Sorting ------------------------------
(***************************************************************************)
(* What qsort and std::sort make of numbers, by the ranks of these.        *)
(***************************************************************************)
EXTENDS Integers, FiniteSetsExt

(* The elements of g with an index in I, in ascending order: the one at k  *)
(* is the smallest number that at least k of them do not exceed.           *)
SortedPart(g, I) ==
  [k \in 1 .. Cardinality(I) |->
     Min({v \in {g[i] : i \in I} : Cardinality({i \in I : g[i] <= v}) >= k})]

Sorted(g) == SortedPart(g, DOMAIN g)

=============================================================================
