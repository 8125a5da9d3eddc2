--------------------------- MODULE AddressFunction ---------------------------
(***************************************************************************)
(* AddressFunction::setUnifiedAddressMasks and the end of                  *)
(* calculateBitMasks: the masks that the threads found are sorted, each    *)
(* mask that is no sum of masks kept before is kept, and the number of     *)
(* masks kept is compared with the number of banks.  One action per turn   *)
(* of the loop over the masks.                                             *)
(***************************************************************************)
EXTENDS AddressMasks, Functions, SequencesExt

CONSTANTS
  IntBits,        \* width of int, by which the masks are compared (32)
  Trials          \* bound: measured groups with options -x and -p to try

ASSUME FunctionAssumption ==
  /\ Bits \subseteq Nat /\ IsFiniteSet(Bits)
  /\ IntBits \in Nat \ {0}
  /\ \A trial \in Trials : /\ trial[1] \in Seq(Seq(Masks)) /\ trial[2] \in Nat
                           /\ trial[3] \in 1 .. 100

VARIABLES
  physicalAddresses,        \* what bankGroup->getPhysicalAddresses() returned
  maxMaskBits,              \* option -x
  errorPercentage,          \* option -p, the errors checkMask bears in a group
  addressMasks,             \* validMasks, once they are sorted
  addressBitMasksForBanks,  \* the masks kept
  pc,                       \* "sort", "unify", "verdict" or "returned"
  current,                  \* index of currentMask
  success                   \* what calculateBitMasks returns

inputs == <<physicalAddresses, maxMaskBits, errorPercentage>>

vars == <<inputs, addressMasks, addressBitMasksForBanks, pc, current, success>>

(* What MaskSearch collects: it loses no mask that checkMask accepts, and  *)
(* the 0 at the end of each thread is checked like the others.  A mask     *)
(* that several threads push counts once here: setUnifiedAddressMasks      *)
(* finds a second copy of a mask in sums.                                  *)
Found(groups, limit, percentage) ==
  {m \in Masks : Cardinality(m) <= limit /\ Accepts(groups, m, percentage)}

(* A mask as less<int> sees it: its low bits, the uppermost one a sign.    *)
AsInt(m) ==
  LET Value(bits) == SumFunctionOnSet([b \in Bits |-> 2^b], bits)
  IN  Value({b \in m : b < IntBits - 1}) - Value({b \in m : b = IntBits - 1})

(* A variant of SortedOrders that leaves the order to the threads. *)
AnyOrder(masks) == {FoldSet(LAMBDA m, list : Append(list, m), << >>, masks)}

(* The orders that sort may leave a set of masks in; ties go either way.   *)
SortedOrders(masks) ==
  LET Highest(some) == {m \in some : \A n \in some : AsInt(n) <= AsInt(m)}
      orders[some \in SUBSET masks] ==
        IF some = {} THEN {<< >>}
        ELSE UNION {{Append(s, m) : s \in orders[some \ {m}]} : m \in Highest(some)}
  IN  orders[masks]

(* A variant of Sums that holds the masks alone. *)
SumsOfOne(masks) == ToSet(masks)

(* sums: the masks and all their XOR combinations, built one by one        *)
Sums(masks) ==
  LET sums[n \in 0 .. Len(masks)] ==
        IF n = 0 THEN {}
        ELSE sums[n - 1] \cup {Xor(s, masks[n]) : s \in sums[n - 1]} \cup {masks[n]}
  IN  sums[Len(masks)]

(* A variant of IsHalf that one half or more will do for. *)
IsHalfOrMore(n) == 2 * n >= Len(physicalAddresses)

IsHalf(n) == 2 * n = Len(physicalAddresses)

(* areMasksOrthogonal: the votes on two masks agree for half of the groups *)
AreMasksOrthogonal(masks) ==
  \A i, j \in DOMAIN masks : i # j =>
    LET Equal(k) == GroupVote(physicalAddresses[k], masks[i])
                      = GroupVote(physicalAddresses[k], masks[j])
    IN  IsHalf(Cardinality({k \in DOMAIN physicalAddresses : Equal(k)}))

Init ==
  /\ \E trial \in Trials : /\ physicalAddresses = trial[1] /\ maxMaskBits = trial[2]
                           /\ errorPercentage = trial[3]
  /\ addressMasks = << >>
  /\ addressBitMasksForBanks = << >>
  /\ pc = "sort"
  /\ current = 1
  /\ success = FALSE

(* The threads hand over what they found in an order that does not matter. *)
Sort ==
  /\ pc = "sort"
  /\ addressMasks' \in SortedOrders(Found(physicalAddresses, maxMaskBits, errorPercentage))
  /\ IF addressMasks' = << >>
     THEN pc' = "verdict" /\ UNCHANGED addressBitMasksForBanks
     ELSE pc' = "unify" /\ addressBitMasksForBanks' = <<addressMasks'[1]>>
  /\ UNCHANGED <<inputs, current, success>>

(* A variant of IsNew that tests for shared bits. *)
SharesNoBit(mask) == \A m \in ToSet(addressBitMasksForBanks) : m \cap mask = {}

IsNew(mask) == mask \notin Sums(addressBitMasksForBanks)

Unify ==
  /\ pc = "unify" /\ current <= Len(addressMasks)
  /\ LET mask == addressMasks[current]
     IN  addressBitMasksForBanks' =
           IF IsNew(mask) THEN Append(addressBitMasksForBanks, mask)
           ELSE addressBitMasksForBanks
  /\ current' = current + 1
  /\ UNCHANGED <<inputs, addressMasks, pc, success>>

(* Whether the masks are orthogonal is written to the log and no more.     *)
LogOrthogonality ==
  /\ pc = "unify" /\ current = Len(addressMasks) + 1
  /\ pc' = "verdict"
  /\ UNCHANGED <<inputs, addressMasks, addressBitMasksForBanks, current, success>>

(* A variant of BanksFor that takes twice the number of masks for 2 to it. *)
TwiceAsMany(nMasks) == 2 * nMasks

BanksFor(nMasks) == 2^nMasks

Verdict ==
  /\ pc = "verdict"
  /\ success' = (BanksFor(Len(addressBitMasksForBanks)) = Len(physicalAddresses))
  /\ pc' = "returned"
  /\ UNCHANGED <<inputs, addressMasks, addressBitMasksForBanks, current>>

Next == Sort \/ Unify \/ LogOrthogonality \/ Verdict

Spec == Init /\ [][Next]_vars /\ WF_vars(Next)

-----------------------------------------------------------------------------

Kept == ToSet(addressBitMasksForBanks)

FoundMasks == Found(physicalAddresses, maxMaskBits, errorPercentage)

SumOf(masks) == {b \in Bits : Cardinality({m \in masks : b \in m}) % 2 = 1}

(* No mask kept is a sum of other masks kept, at any time: the first mask, *)
(* which is kept before the loop and then meets itself, included.  The one *)
(* exception is 0, which is kept when no group has an address left.        *)
KeptIndependent ==
  /\ \A masks \in (SUBSET (Kept \ {{}})) \ {{}} : SumOf(masks) # {}
  /\ {} \in Kept => \A k \in DOMAIN physicalAddresses : physicalAddresses[k] = << >>
  /\ Len(addressBitMasksForBanks) = Cardinality(Kept)

(* No mask that was found is forgotten: each is a sum of masks kept.       *)
KeptSpansFound ==
  pc \in {"verdict", "returned"} =>
    \A m \in FoundMasks : \E masks \in SUBSET Kept : SumOf(masks) = m

ComparableAsInt == \A m \in FoundMasks : \A b \in m : b < IntBits

(* The masks kept do not depend on the schedule of the threads: they are   *)
(* the found masks that are no sum of numerically smaller found ones, and  *)
(* 0 if it was found, as long as int can tell the masks apart.             *)
KeptIsScheduleIndependent ==
  (ComparableAsInt /\ pc \in {"verdict", "returned"}) =>
    LET Smaller(m) == {n \in FoundMasks : AsInt(n) < AsInt(m)}
    IN  Kept = {m \in FoundMasks :
                  m = {} \/ \A masks \in SUBSET Smaller(m) : SumOf(masks) # m}

TellsApart(masks, k, l) ==
  \E m \in masks : GroupVote(physicalAddresses[k], m) # GroupVote(physicalAddresses[l], m)

AllToldApart ==
  \A k, l \in DOMAIN physicalAddresses : k # l => TellsApart(Kept, k, l)

(* Functions that are as many as success asks for but that the log calls   *)
(* not orthogonal do not tell all banks apart, however many there are: the *)
(* test that calculateBitMasks only logs is one that a right result passes.*)
RightSuccessIsOrthogonal ==
  pc = "returned" /\ success /\ AllToldApart =>
    AreMasksOrthogonal(addressBitMasksForBanks)

(* With at most four groups, none of them empty, and a tolerance below one *)
(* half, passing the test is enough as well: functions that are as many as *)
(* success asks for and that the log calls orthogonal tell any two banks   *)
(* apart.                                                                  *)
OrthogonalSuccessTellsApart ==
  (/\ pc = "returned" /\ success /\ Len(physicalAddresses) <= 4
   /\ errorPercentage < 50
   /\ \A k \in DOMAIN physicalAddresses : physicalAddresses[k] # << >>
   /\ AreMasksOrthogonal(addressBitMasksForBanks)) => AllToldApart

Vote(m) == [k \in DOMAIN physicalAddresses |-> GroupVote(physicalAddresses[k], m)]

(* Every address of the memory was measured and grouped by masks of at     *)
(* most maxMaskBits bits, and -p leaves a majority of each group.          *)
CompleteMeasurement ==
  LET measured == UNION {ToSet(physicalAddresses[k]) : k \in DOMAIN physicalAddresses}
      Constant(m, k) == \A a, b \in ToSet(physicalAddresses[k]) : BankBit(a, m) = BankBit(b, m)
      functions == {m \in Masks : /\ Cardinality(m) <= maxMaskBits
                                  /\ \A k \in DOMAIN physicalAddresses : Constant(m, k)}
  IN  /\ measured = Masks /\ errorPercentage < 50
      /\ \A k, l \in DOMAIN physicalAddresses : k # l => TellsApart(functions, k, l)

(* When the groups are complete and clean, the tool always ends with       *)
(* success, and with functions that tell every two banks apart.            *)
CompleteMeasurementSucceeds ==
  CompleteMeasurement => <>(pc = "returned" /\ success /\ AllToldApart)

=============================================================================
