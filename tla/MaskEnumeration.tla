-------------------------- MODULE MaskEnumeration --------------------------
(***************************************************************************)
(* The arithmetic by which one MaskThread produces its mask candidates     *)
(* (maskThread.cpp): integers of WordBits bits, signed where the code uses *)
(* long, and the loop of scanForMasks that asks for the next candidate.    *)
(***************************************************************************)
EXTENDS Integers, FiniteSets, Bitwise

CONSTANTS
  WordBits,       \* width of uint64_t and long (64 in the code)
  SkipLastNBits,  \* log2 of the block size
  MaxMaskBits,    \* option -x
  NThreads,       \* threads that calculateBitMasks creates
  Stride          \* option -n, getNumberOfThreadsForMaskCalculation

ASSUME EnumerationAssumption ==
  /\ WordBits \in Nat /\ SkipLastNBits \in 2 .. WordBits - 1
  /\ MaxMaskBits \in 1 .. WordBits - SkipLastNBits
  /\ NThreads \in Nat \ {0}
  /\ Stride \in Nat \ {0}

VARIABLES threadId, state, maskCandidate

vars == <<threadId, state, maskCandidate>>

Unsigned(x) == x % 2^WordBits

Signed(x) == IF x >= 2^(WordBits - 1) THEN x - 2^WordBits ELSE x

SetBits(x) == {i \in 0 .. WordBits - 1 : (x \div 2^i) % 2 = 1}

CountBits(x) == Cardinality(SetBits(x))

LowestBit(x) == x & Unsigned(-x)

(* The largest value a candidate may have once shifted down. *)
Limit == 2^(WordBits - SkipLastNBits) - 1

NextWithSameNumberOfBits(mask) ==
  IF mask = 0 THEN 0
  ELSE LET smallest    == Signed(LowestBit(mask))
           ripple      == Unsigned(mask + smallest)
           newSmallest == Signed(LowestBit(ripple))
           ones        == (newSmallest \div smallest) \div 2 - 1
       IN  ripple | Unsigned(ones)

(* A variant of IsTooManyBits with a limit that is one too low. *)
IsMostBits(nBits) == nBits = MaxMaskBits

IsTooManyBits(nBits) == nBits = MaxMaskBits + 1

(* One turn of the loop in generateNextAddressMask; its early return of 0  *)
(* is the mask 0, which every further turn leaves at 0.                    *)
NextMask(mask) ==
  LET next  == NextWithSameNumberOfBits(mask)
      nBits == CountBits(next) + 1
  IN  IF next <= Limit THEN next
      ELSE IF IsTooManyBits(nBits) THEN 0
      ELSE Unsigned(2^nBits - 1)

GenerateNextAddressMask(lastMask, nSkip) ==
  LET turn[n \in 0 .. nSkip + 1] ==
        IF n = 0 THEN lastMask \div 2^SkipLastNBits ELSE NextMask(turn[n - 1])
  IN  Unsigned(turn[nSkip + 1] * 2^SkipLastNBits)

Init ==
  /\ threadId \in 0 .. NThreads - 1
  /\ state = 0
  /\ maskCandidate = 2^SkipLastNBits

Next ==
  /\ maskCandidate # 0
  /\ state' = 1
  /\ maskCandidate' = GenerateNextAddressMask(maskCandidate,
                        IF state = 0 THEN threadId - 1 ELSE Stride - 1)
  /\ UNCHANGED threadId

Spec == Init /\ [][Next]_vars

-----------------------------------------------------------------------------
(* The reference order, stated without the arithmetic above. *)

Candidates ==
  {m \in 1 .. 2^WordBits - 1 : /\ CountBits(m) <= MaxMaskBits
                               /\ SetBits(m) \cap (0 .. SkipLastNBits - 1) = {}}

Precedes(m, n) ==
  \/ CountBits(m) < CountBits(n)
  \/ CountBits(m) = CountBits(n) /\ m < n

NumberOfCandidates == Cardinality(Candidates)

Position ==
  [m \in Candidates \cup {0} |->
     IF m = 0 THEN NumberOfCandidates
     ELSE Cardinality({n \in Candidates : Precedes(n, m)})]

Walk == INSTANCE CandidateWalk WITH
  NCandidates <- NumberOfCandidates,
  started     <- state = 1,
  position    <- Position[maskCandidate]

(* The candidates of thread i are those at the positions i, i + Stride,    *)
(* i + 2*Stride, ... of the reference order, none left out or visited      *)
(* twice, up to the end of the order: generateNextAddressMask with its     *)
(* ripple arithmetic, its overflow test and its early return.              *)
WalksTheOrder == Walk!WalkSpec

=============================================================================
