--------------------------- MODULE CandidateOrder ---------------------------
(***************************************************************************)
(* The order in which the mask search visits its candidates.  The masks    *)
(* with 1 to MaxMaskBits bits set, none below the block-size bits, are     *)
(* visited by number of bits and, among equals, by value; a candidate is   *)
(* known here by its position in that order.  MaskEnumeration computes the *)
(* masks themselves and is shown to walk through this order.               *)
(***************************************************************************)
EXTENDS Integers

CONSTANT NCandidates     \* how many candidate masks there are

ASSUME NCandidatesAssumption == NCandidates \in Nat \ {0}

Positions == 0 .. NCandidates - 1

(* The mask 0, which generateNextAddressMask returns when it runs out. *)
NoCandidate == NCandidates

(* generateNextAddressMask(position, n - 1): n candidates further on. *)
Advance(position, n) ==
  IF position + n < NCandidates THEN position + n ELSE NoCandidate

=============================================================================
