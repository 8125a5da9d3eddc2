------------------------------ MODULE MaskCheck ------------------------------
(***************************************************************************)
(* MaskThread::checkMask: is a mask candidate an address function of the   *)
(* measured groups?  It goes through the groups, counting those whose      *)
(* result is 1 and those whose result is 0, wants as many of the first as  *)
(* of the second, and at last asks checkModifiedMasks whether every bit of *)
(* the mask matters.  One action per turn of the loop over the groups and  *)
(* one per test that follows it.                                           *)
(***************************************************************************)
EXTENDS AddressMasks

CONSTANTS
  NGroups,   \* bound: number of measured groups
  Trials     \* bound: pairs of measured groups and option -p to try

ASSUME CheckAssumption ==
  /\ IsFiniteSet(Bits) /\ NGroups \in Nat \ {0}
  /\ \A trial \in Trials : /\ trial[1] \in [1 .. NGroups -> Seq(Masks)]
                           /\ trial[2] \in 1 .. 100

VARIABLES
  physicalAddresses,  \* one sequence of addresses per group
  errorPercentage,
  mask,
  group,              \* index of the group the loop is at
  nOnes, nZeroes,
  verdict             \* "none" until checkMask returns

vars == <<physicalAddresses, errorPercentage, mask, group, nOnes, nZeroes, verdict>>

inputs == <<physicalAddresses, errorPercentage, mask>>

Init ==
  /\ \E trial \in Trials : physicalAddresses = trial[1] /\ errorPercentage = trial[2]
  /\ mask \in Masks
  /\ group = 1
  /\ nOnes = 0 /\ nZeroes = 0
  /\ verdict = "none"

CheckGroup ==
  /\ verdict = "none" /\ group <= NGroups
  /\ LET g == physicalAddresses[group]
     IN  \/ /\ g = << >>
            /\ group' = group + 1
            /\ UNCHANGED <<nOnes, nZeroes, verdict>>
         \/ /\ g # << >> /\ TooManyErrors(g, mask, errorPercentage)
            /\ verdict' = "invalid"
            /\ UNCHANGED <<group, nOnes, nZeroes>>
         \/ /\ g # << >> /\ ~TooManyErrors(g, mask, errorPercentage)
            /\ IF CountsAsOne(g, mask, errorPercentage)
               THEN nOnes' = nOnes + 1 /\ UNCHANGED nZeroes
               ELSE nZeroes' = nZeroes + 1 /\ UNCHANGED nOnes
            /\ group' = group + 1
            /\ UNCHANGED verdict
  /\ UNCHANGED inputs

(* A variant of SplitsEvenly that lets uneven splits pass. *)
NotMoreOnes == nOnes <= nZeroes

SplitsEvenly == nOnes = nZeroes

CheckSplit ==
  /\ verdict = "none" /\ group = NGroups + 1
  /\ verdict' = IF SplitsEvenly THEN "balanced" ELSE "invalid"
  /\ UNCHANGED <<inputs, group, nOnes, nZeroes>>

CheckBits ==
  /\ verdict = "balanced"
  /\ verdict' = IF CheckModifiedMasks(physicalAddresses, mask)
                THEN "valid" ELSE "invalid"
  /\ UNCHANGED <<inputs, group, nOnes, nZeroes>>

Next == CheckGroup \/ CheckSplit \/ CheckBits

Spec == Init /\ [][Next]_vars

-----------------------------------------------------------------------------

Groups == {physicalAddresses[k] : k \in 1 .. NGroups}

Measured == UNION {{g[i] : i \in DOMAIN g} : g \in Groups}

GroupsVoting(bit) ==
  {k \in 1 .. NGroups : /\ physicalAddresses[k] # << >>
                        /\ GroupVote(physicalAddresses[k], mask) = bit}

VotesSplitEvenly == Cardinality(GroupsVoting(0)) = Cardinality(GroupsVoting(1))

Constant(m) == \A a, b \in Measured : BankBit(a, m) = BankBit(b, m)

(* No part of the mask computes a bit that is the same for all addresses,  *)
(* so leaving a part out changes which of the addresses the mask tells     *)
(* apart.  It need not change the vote of a group with tolerated errors.   *)
EveryBitNeeded == \A part \in (SUBSET mask) \ {{}, mask} : ~Constant(part)

Unanimous == \A g \in Groups : Errors(g, mask) = 0

(* The loops over the groups with their counters and early returns accept  *)
(* the masks that Accepts describes for the groups as a whole, no others.  *)
LoopDecidesAccepts ==
  /\ verdict = "valid" => Accepts(physicalAddresses, mask, errorPercentage)
  /\ verdict = "invalid" => ~Accepts(physicalAddresses, mask, errorPercentage)

(* A mask accepted with an error tolerance below one half puts one half of *)
(* the groups on each side by majority vote too, which is how              *)
(* areMasksOrthogonal counts them: the tolerance of checkMask, relative to *)
(* whichever address happens to be first, never flips a group.             *)
AcceptedSplitsByMajority ==
  verdict = "valid" /\ errorPercentage < 50 => VotesSplitEvenly

(* The two passes of checkModifiedMasks over masks with bits cleared let   *)
(* no mask through that has a part, of any size, that is the same for all  *)
(* addresses measured.  Groups and their votes play no part in this test.  *)
AcceptedNeedsEveryBit == verdict = "valid" => EveryBitNeeded

(* checkMask refuses no function of cleanly grouped addresses: a mask on   *)
(* which each group agrees, that halves the groups and has no redundant    *)
(* part is never turned down by the counting, whatever the tolerance.      *)
CleanFunctionAccepted ==
  Unanimous /\ VotesSplitEvenly /\ EveryBitNeeded => verdict # "invalid"

(* scanForMasks checks the 0 that ends its loop like any other candidate;  *)
(* it is never taken for a function as long as one group has an address.   *)
ZeroMaskRejected == mask = {} /\ Measured # {} => verdict # "valid"

(* maskThread.cpp:132-136: the first address of a group can itself be the  *)
(* wrong one, so a group is fine when its errors are below maxErrors or    *)
(* above its size less maxErrors.  A mask with no other fault is then not  *)
(* turned down.                                                            *)
FirstAddressMayBeWrong ==
  (/\ \A g \in Groups : LET e == Errors(g, mask) max == MaxErrors(g, errorPercentage)
                        IN  e = 0 \/ e < max \/ e > Len(g) - max
   /\ errorPercentage < 50 /\ VotesSplitEvenly /\ EveryBitNeeded)
  => verdict # "invalid"

=============================================================================
