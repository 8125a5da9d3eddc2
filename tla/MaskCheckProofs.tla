-------------------------- MODULE MaskCheckProofs --------------------------
(***************************************************************************)
(* Proofs that the loops of checkMask, with their counters and early       *)
(* returns, decide what Accepts describes; that a mask they accept halves  *)
(* the groups by majority as well and has no part that is the same for all *)
(* addresses; that they refuse no function of clean groups; and that they  *)
(* never accept 0.                                                         *)
(***************************************************************************)
EXTENDS MaskCheck, Lemmas

(* The groups up to n that are not empty, and those that count as one *)
MeasuredUpTo(n) == {k \in 1 .. n : physicalAddresses[k] # << >>}

OnesUpTo(n) ==
  {k \in MeasuredUpTo(n) : CountsAsOne(physicalAddresses[k], mask, errorPercentage)}

ZeroesUpTo(n) == MeasuredUpTo(n) \ OnesUpTo(n)

InputsOK ==
  /\ physicalAddresses \in [1 .. NGroups -> Seq(Masks)]
  /\ errorPercentage \in 1 .. 100
  /\ mask \in Masks

(* The counters are right for the groups before the one the loop is at,    *)
(* none of which had too many errors.                                      *)
CountersRight ==
  /\ nOnes = Cardinality(OnesUpTo(group - 1))
  /\ nZeroes = Cardinality(ZeroesUpTo(group - 1))
  /\ \A k \in MeasuredUpTo(group - 1) :
       ~ TooManyErrors(physicalAddresses[k], mask, errorPercentage)

(* Each verdict has its reason. *)
VerdictRight ==
  /\ verdict \in {"none", "balanced", "valid", "invalid"}
  /\ verdict \in {"balanced", "valid"} => group = NGroups + 1 /\ nOnes = nZeroes
  /\ verdict = "valid" => CheckModifiedMasks(physicalAddresses, mask)
  /\ verdict = "invalid" => ~ Accepts(physicalAddresses, mask, errorPercentage)

IInv == InputsOK /\ group \in 1 .. NGroups + 1 /\ CountersRight /\ VerdictRight

-----------------------------------------------------------------------------
(* The loop over the groups *)

LEMMA UpToFinite ==
  ASSUME NEW n \in Nat
  PROVE  /\ IsFiniteSet(OnesUpTo(n)) /\ IsFiniteSet(ZeroesUpTo(n))
         /\ n + 1 \notin OnesUpTo(n) /\ n + 1 \notin ZeroesUpTo(n)
<1>1. IsFiniteSet(1 .. n)
  BY FS_Interval
<1>2. OnesUpTo(n) \subseteq 1 .. n /\ ZeroesUpTo(n) \subseteq 1 .. n
  BY DEF OnesUpTo, ZeroesUpTo, MeasuredUpTo
<1>3. QED
  BY <1>1, <1>2, FS_Subset

(* What one more group adds to the three sets *)
LEMMA UpToNext ==
  ASSUME NEW n \in Nat
  PROVE  /\ physicalAddresses[n + 1] = << >> =>
              /\ MeasuredUpTo(n + 1) = MeasuredUpTo(n)
              /\ OnesUpTo(n + 1) = OnesUpTo(n) /\ ZeroesUpTo(n + 1) = ZeroesUpTo(n)
         /\ physicalAddresses[n + 1] # << >> =>
              /\ MeasuredUpTo(n + 1) = MeasuredUpTo(n) \cup {n + 1}
              /\ CountsAsOne(physicalAddresses[n + 1], mask, errorPercentage) =>
                   /\ OnesUpTo(n + 1) = OnesUpTo(n) \cup {n + 1}
                   /\ ZeroesUpTo(n + 1) = ZeroesUpTo(n)
              /\ ~ CountsAsOne(physicalAddresses[n + 1], mask, errorPercentage) =>
                   /\ OnesUpTo(n + 1) = OnesUpTo(n)
                   /\ ZeroesUpTo(n + 1) = ZeroesUpTo(n) \cup {n + 1}
<1> DEFINE one(k) == CountsAsOne(physicalAddresses[k], mask, errorPercentage)
<1>1. 1 .. n + 1 = (1 .. n) \cup {n + 1} /\ n + 1 \notin 1 .. n
  OBVIOUS
<1>2. \A m : OnesUpTo(m) = {k \in MeasuredUpTo(m) : one(k)}
  BY DEF OnesUpTo
<1>3. n + 1 \notin MeasuredUpTo(n)
  BY <1>1 DEF MeasuredUpTo
<1> HIDE DEF one
<1>4. physicalAddresses[n + 1] = << >> => MeasuredUpTo(n + 1) = MeasuredUpTo(n)
  BY <1>1 DEF MeasuredUpTo
<1>5. physicalAddresses[n + 1] # << >> => MeasuredUpTo(n + 1) = MeasuredUpTo(n) \cup {n + 1}
  BY <1>1 DEF MeasuredUpTo
<1>6. MeasuredUpTo(n + 1) = MeasuredUpTo(n) \cup {n + 1} =>
        /\ one(n + 1) => /\ OnesUpTo(n + 1) = OnesUpTo(n) \cup {n + 1}
                         /\ ZeroesUpTo(n + 1) = ZeroesUpTo(n)
        /\ ~ one(n + 1) => /\ OnesUpTo(n + 1) = OnesUpTo(n)
                           /\ ZeroesUpTo(n + 1) = ZeroesUpTo(n) \cup {n + 1}
  BY <1>2, <1>3 DEF ZeroesUpTo
<1>7. MeasuredUpTo(n + 1) = MeasuredUpTo(n) =>
        OnesUpTo(n + 1) = OnesUpTo(n) /\ ZeroesUpTo(n + 1) = ZeroesUpTo(n)
  BY <1>2 DEF ZeroesUpTo
<1>8. QED
  BY <1>4, <1>5, <1>6, <1>7 DEF one

(* Accepts in the words of the loop *)
LEMMA AcceptsByCounts ==
  ASSUME InputsOK
  PROVE  Accepts(physicalAddresses, mask, errorPercentage) <=>
           /\ \A k \in MeasuredUpTo(NGroups) :
                ~ TooManyErrors(physicalAddresses[k], mask, errorPercentage)
           /\ Cardinality(OnesUpTo(NGroups)) = Cardinality(ZeroesUpTo(NGroups))
           /\ CheckModifiedMasks(physicalAddresses, mask)
<1>1. {k \in DOMAIN physicalAddresses : physicalAddresses[k] # << >>} = MeasuredUpTo(NGroups)
  BY DEF InputsOK, MeasuredUpTo
<1>2. QED
  BY <1>1 DEF Accepts, OnesUpTo, ZeroesUpTo

LEMMA InitCounts == Init => IInv
<1> SUFFICES ASSUME Init PROVE IInv
  OBVIOUS
<1>1. InputsOK
  BY CheckAssumption DEF Init, InputsOK
<1>2. group = 1 /\ group \in 1 .. NGroups + 1
  BY CheckAssumption DEF Init
<1>3. MeasuredUpTo(0) = {} /\ OnesUpTo(0) = {} /\ ZeroesUpTo(0) = {}
  BY DEF MeasuredUpTo, OnesUpTo, ZeroesUpTo
<1>4. CountersRight
  BY <1>2, <1>3, FS_EmptySet DEF Init, CountersRight
<1>5. VerdictRight
  BY DEF Init, VerdictRight
<1>6. QED
  BY <1>1, <1>2, <1>4, <1>5 DEF IInv

LEMMA CheckGroupCounts == IInv /\ CheckGroup => IInv'
<1> SUFFICES ASSUME IInv, CheckGroup PROVE IInv'
  OBVIOUS
<1> DEFINE g == physicalAddresses[group]
<1>1. verdict = "none" /\ group \in 1 .. NGroups /\ UNCHANGED inputs
  BY CheckAssumption DEF IInv, CheckGroup
<1>2. group - 1 \in Nat /\ (group - 1) + 1 = group /\ (group + 1) - 1 = group
  BY <1>1, CheckAssumption
<1>3. InputsOK'
  BY <1>1 DEF IInv, InputsOK, inputs
<1>4. /\ MeasuredUpTo(group - 1)' = MeasuredUpTo(group' - 1)
      /\ OnesUpTo(group - 1)' = OnesUpTo(group' - 1)
      /\ ZeroesUpTo(group - 1)' = ZeroesUpTo(group' - 1)
  BY <1>1 DEF MeasuredUpTo, OnesUpTo, ZeroesUpTo, inputs
<1>5. CASE g # << >> /\ TooManyErrors(g, mask, errorPercentage)
  <2>1. verdict' = "invalid" /\ UNCHANGED <<group, nOnes, nZeroes>>
    BY <1>5 DEF CheckGroup
  <2>2. group \in MeasuredUpTo(NGroups)
    BY <1>1, <1>5 DEF MeasuredUpTo
  <2>3. ~ Accepts(physicalAddresses, mask, errorPercentage)
    BY <1>5, <2>2, AcceptsByCounts DEF IInv
  <2>4. (~ Accepts(physicalAddresses, mask, errorPercentage))'
    BY <1>1, <2>3 DEF Accepts, inputs
  <2>5. VerdictRight'
    BY <2>1, <2>4 DEF VerdictRight
  <2>6. CountersRight'
    BY <1>1, <1>4, <2>1 DEF IInv, CountersRight, inputs
  <2>7. QED
    BY <1>3, <2>1, <2>5, <2>6 DEF IInv
<1>6. ASSUME g = << >> \/ ~ TooManyErrors(g, mask, errorPercentage),
             group' = group + 1, UNCHANGED verdict,
             nOnes' = Cardinality(OnesUpTo(group)), nZeroes' = Cardinality(ZeroesUpTo(group))
      PROVE  IInv'
  <2>1. group' \in 1 .. NGroups + 1 /\ group' - 1 = group
    BY <1>1, <1>6, CheckAssumption
  <2>2. MeasuredUpTo(group) \subseteq MeasuredUpTo(group - 1)
                               \cup (IF g = << >> THEN {} ELSE {group})
    BY <1>2, UpToNext
  <2>3. \A k \in MeasuredUpTo(group) :
          ~ TooManyErrors(physicalAddresses[k], mask, errorPercentage)
    BY <1>6, <2>2 DEF IInv, CountersRight
  <2>4. CountersRight'
    BY <1>1, <1>4, <1>6, <2>1, <2>3 DEF CountersRight, inputs
  <2>5. VerdictRight'
    BY <1>1, <1>6 DEF VerdictRight
  <2>6. QED
    BY <1>3, <2>1, <2>4, <2>5 DEF IInv
<1>7. CASE g = << >>
  <2>1. group' = group + 1 /\ UNCHANGED <<nOnes, nZeroes, verdict>>
    BY <1>7 DEF CheckGroup
  <2>2. OnesUpTo(group) = OnesUpTo(group - 1) /\ ZeroesUpTo(group) = ZeroesUpTo(group - 1)
    BY <1>2, <1>7, UpToNext
  <2>3. QED
    BY <1>6, <1>7, <2>1, <2>2 DEF IInv, CountersRight
<1>8. CASE g # << >> /\ ~ TooManyErrors(g, mask, errorPercentage)
  <2>1. group' = group + 1 /\ UNCHANGED verdict
    BY <1>8 DEF CheckGroup
  <2>2. /\ IsFiniteSet(OnesUpTo(group - 1)) /\ IsFiniteSet(ZeroesUpTo(group - 1))
        /\ group \notin OnesUpTo(group - 1) /\ group \notin ZeroesUpTo(group - 1)
    BY <1>2, UpToFinite
  <2>3. CASE CountsAsOne(g, mask, errorPercentage)
    <3>1. /\ OnesUpTo(group) = OnesUpTo(group - 1) \cup {group}
          /\ ZeroesUpTo(group) = ZeroesUpTo(group - 1)
      BY <1>2, <1>8, <2>3, UpToNext
    <3>2. Cardinality(OnesUpTo(group)) = Cardinality(OnesUpTo(group - 1)) + 1
      BY <2>2, <3>1, FS_AddElement
    <3>3. nOnes' = nOnes + 1 /\ nZeroes' = nZeroes
      BY <1>8, <2>3 DEF CheckGroup
    <3>4. QED
      BY <1>6, <1>8, <2>1, <3>1, <3>2, <3>3 DEF IInv, CountersRight
  <2>4. CASE ~ CountsAsOne(g, mask, errorPercentage)
    <3>1. /\ OnesUpTo(group) = OnesUpTo(group - 1)
          /\ ZeroesUpTo(group) = ZeroesUpTo(group - 1) \cup {group}
      BY <1>2, <1>8, <2>4, UpToNext
    <3>2. Cardinality(ZeroesUpTo(group)) = Cardinality(ZeroesUpTo(group - 1)) + 1
      BY <2>2, <3>1, FS_AddElement
    <3>3. nOnes' = nOnes /\ nZeroes' = nZeroes + 1
      BY <1>8, <2>4 DEF CheckGroup
    <3>4. QED
      BY <1>6, <1>8, <2>1, <3>1, <3>2, <3>3 DEF IInv, CountersRight
  <2>5. QED
    BY <2>3, <2>4
<1>9. QED
  BY <1>5, <1>7, <1>8

-----------------------------------------------------------------------------
(* The tests after the loop *)

LEMMA TestsKeepCounters ==
  ASSUME IInv, UNCHANGED <<inputs, group, nOnes, nZeroes>>
  PROVE  /\ InputsOK' /\ group' \in 1 .. NGroups + 1 /\ CountersRight'
         /\ (Accepts(physicalAddresses, mask, errorPercentage))'
              <=> Accepts(physicalAddresses, mask, errorPercentage)
<1>1. InputsOK' /\ group' \in 1 .. NGroups + 1
  BY DEF IInv, InputsOK, inputs
<1>2. CountersRight'
  BY DEF IInv, CountersRight, OnesUpTo, ZeroesUpTo, MeasuredUpTo, inputs
<1>3. QED
  BY <1>1, <1>2 DEF inputs

LEMMA CheckSplitCounts == IInv /\ CheckSplit => IInv'
<1> SUFFICES ASSUME IInv, CheckSplit PROVE IInv'
  OBVIOUS
<1>1. UNCHANGED <<inputs, group, nOnes, nZeroes>> /\ group = NGroups + 1
  BY DEF CheckSplit
<1>2. group - 1 = NGroups
  BY <1>1, CheckAssumption
<1>3. CASE nOnes = nZeroes
  <2>1. verdict' = "balanced"
    BY <1>3 DEF CheckSplit, SplitsEvenly
  <2>2. VerdictRight'
    BY <1>1, <1>3, <2>1 DEF VerdictRight
  <2>3. QED
    BY <1>1, <2>2, TestsKeepCounters DEF IInv
<1>4. CASE nOnes # nZeroes
  <2>1. verdict' = "invalid"
    BY <1>4 DEF CheckSplit, SplitsEvenly
  <2>2. ~ Accepts(physicalAddresses, mask, errorPercentage)
    BY <1>2, <1>4, AcceptsByCounts DEF IInv, CountersRight
  <2>3. VerdictRight'
    BY <1>1, <2>1, <2>2, TestsKeepCounters DEF VerdictRight
  <2>4. QED
    BY <1>1, <2>3, TestsKeepCounters DEF IInv
<1>5. QED
  BY <1>3, <1>4

LEMMA CheckBitsCounts == IInv /\ CheckBits => IInv'
<1> SUFFICES ASSUME IInv, CheckBits PROVE IInv'
  OBVIOUS
<1>1. UNCHANGED <<inputs, group, nOnes, nZeroes>> /\ verdict = "balanced"
  BY DEF CheckBits
<1>2. group = NGroups + 1 /\ nOnes = nZeroes
  BY <1>1 DEF IInv, VerdictRight
<1>3. CASE CheckModifiedMasks(physicalAddresses, mask)
  <2>1. verdict' = "valid"
    BY <1>3 DEF CheckBits
  <2>2. (CheckModifiedMasks(physicalAddresses, mask))'
    BY <1>1, <1>3 DEF inputs
  <2>3. VerdictRight'
    BY <1>1, <1>2, <2>1, <2>2 DEF VerdictRight
  <2>4. QED
    BY <1>1, <2>3, TestsKeepCounters DEF IInv
<1>4. CASE ~ CheckModifiedMasks(physicalAddresses, mask)
  <2>1. verdict' = "invalid"
    BY <1>4 DEF CheckBits
  <2>2. ~ Accepts(physicalAddresses, mask, errorPercentage)
    BY <1>4, AcceptsByCounts DEF IInv
  <2>3. VerdictRight'
    BY <1>1, <2>1, <2>2, TestsKeepCounters DEF VerdictRight
  <2>4. QED
    BY <1>1, <2>3, TestsKeepCounters DEF IInv
<1>5. QED
  BY <1>3, <1>4

LEMMA IInvAlways == Spec => []IInv
<1>1. IInv /\ UNCHANGED vars => IInv'
  <2> SUFFICES ASSUME IInv, UNCHANGED vars PROVE IInv'
    OBVIOUS
  <2>1. UNCHANGED <<inputs, group, nOnes, nZeroes>> /\ UNCHANGED verdict
    BY DEF vars, inputs
  <2>2. VerdictRight'
    BY <2>1, TestsKeepCounters DEF IInv, VerdictRight, inputs
  <2>3. QED
    BY <2>1, <2>2, TestsKeepCounters DEF IInv
<1>2. IInv /\ [Next]_vars => IInv'
  BY <1>1, CheckGroupCounts, CheckSplitCounts, CheckBitsCounts DEF Next
<1>3. QED
  BY <1>2, InitCounts, PTL DEF Spec

LEMMA CountsDecide == IInv => LoopDecidesAccepts
<1> SUFFICES ASSUME IInv PROVE LoopDecidesAccepts
  OBVIOUS
<1>1. ASSUME verdict = "valid"
      PROVE  Accepts(physicalAddresses, mask, errorPercentage)
  <2>1. group - 1 = NGroups /\ nOnes = nZeroes /\ CheckModifiedMasks(physicalAddresses, mask)
    BY <1>1, CheckAssumption DEF IInv, VerdictRight
  <2>2. QED
    BY <2>1, AcceptsByCounts DEF IInv, CountersRight
<1>2. QED
  BY <1>1 DEF IInv, VerdictRight, LoopDecidesAccepts

(* The loops of checkMask accept exactly the masks that Accepts describes. *)
THEOREM LoopDecides == Spec => []LoopDecidesAccepts
BY IInvAlways, CountsDecide, PTL

-----------------------------------------------------------------------------
(* The tolerance and the majority *)

LEMMA BankBitIsBit ==
  ASSUME InputsOK, NEW a \in Masks
  PROVE  BankBit(a, mask) \in {0, 1}
<1>1. IsFiniteSet(a \cap mask)
  BY CheckAssumption, FS_Subset DEF Masks
<1>2. Cardinality(a \cap mask) \in Nat
  BY <1>1, FS_CardinalityType
<1>3. QED
  BY <1>2 DEF BankBit

(* Fewer than half of a group may be wrong. *)
LEMMA ToleranceBelowHalf ==
  ASSUME NEW n \in Nat \ {0}, NEW p \in 0 .. 49
  PROVE  (n * p) \div 100 \in Nat /\ 2 * ((n * p) \div 100) < n
<1>1. n * p \in Nat /\ n * p <= n * 49
  OBVIOUS
<1>2. \A x \in Nat : x <= n * 49 => x \div 100 \in Nat /\ 2 * (x \div 100) < n
  OBVIOUS
<1>3. QED
  BY <1>1, <1>2

(* A group that is not turned down counts as its majority votes. *)
LEMMA CountsAsMajority ==
  ASSUME InputsOK, errorPercentage < 50, NEW g \in Seq(Masks), g # << >>,
         ~ TooManyErrors(g, mask, errorPercentage)
  PROVE  CountsAsOne(g, mask, errorPercentage) <=> GroupVote(g, mask) = 1
<1> DEFINE bit(i) == BankBit(g[i], mask)
           Voting(b) == {i \in DOMAIN g : bit(i) = b}
           zeroes == Cardinality(Voting(0))
           ones == Cardinality(Voting(1))
           e == Errors(g, mask)
           max == MaxErrors(g, errorPercentage)
<1>1. 1 \in DOMAIN g /\ Len(g) \in Nat \ {0} /\ DOMAIN g = 1 .. Len(g)
  OBVIOUS
<1>2. \A i \in DOMAIN g : bit(i) \in {0, 1}
  BY BankBitIsBit
<1>3. GroupVote(g, mask) = IF ones > zeroes THEN 1 ELSE 0
  BY DEF GroupVote
<1>4. e = IF bit(1) = 0 THEN ones ELSE zeroes
  <2>1. {i \in DOMAIN g : bit(i) # bit(1)} = IF bit(1) = 0 THEN Voting(1) ELSE Voting(0)
    BY <1>1, <1>2
  <2>2. QED
    BY <2>1 DEF Errors
<1> HIDE DEF bit
<1>5. ones \in Nat /\ zeroes \in Nat /\ ones + zeroes = Len(g)
  <2>1. IsFiniteSet(DOMAIN g) /\ Cardinality(DOMAIN g) = Len(g)
    BY <1>1, IntervalSize
  <2>2. /\ DOMAIN g = Voting(0) \cup Voting(1) /\ Voting(0) \cap Voting(1) = {}
        /\ Voting(0) \subseteq DOMAIN g /\ Voting(1) \subseteq DOMAIN g
    <3>1. Voting(0) \subseteq DOMAIN g /\ Voting(1) \subseteq DOMAIN g
      OBVIOUS
    <3>2. \A i \in DOMAIN g : i \in Voting(0) \/ i \in Voting(1)
      BY <1>2
    <3>3. \A i : ~ (i \in Voting(0) /\ i \in Voting(1))
      <4>1. 0 # 1
        OBVIOUS
      <4>2. QED
        BY <4>1
    <3> HIDE DEF Voting
    <3>4. QED
      BY <3>1, <3>2, <3>3
  <2> HIDE DEF Voting
  <2>3. IsFiniteSet(Voting(0)) /\ IsFiniteSet(Voting(1))
    BY <2>1, <2>2, FS_Subset
  <2>4. ones \in Nat /\ zeroes \in Nat
    BY <2>3, FS_CardinalityType
  <2>5. Cardinality(DOMAIN g) = zeroes + ones - 0
    BY <2>2, <2>3, FS_Union, FS_EmptySet
  <2>6. QED
    BY <2>1, <2>4, <2>5
<1>6. max \in Nat /\ 2 * max < Len(g)
  BY <1>1, ToleranceBelowHalf DEF MaxErrors, InputsOK
<1>7. \A n \in 1 .. e : ~ (n > max /\ n < Len(g) - max)
  BY DEF TooManyErrors
<1>8. CountsAsOne(g, mask, errorPercentage) <=>
        \/ bit(1) = 1 /\ e <= max
        \/ bit(1) = 0 /\ e > max
  BY DEF CountsAsOne, bit
<1>9. bit(1) \in {0, 1}
  BY <1>1, <1>2
<1> HIDE DEF ones, zeroes, e, max
<1>10. e \in Nat /\ (e > max => max + 1 >= Len(g) - max)
  BY <1>4, <1>5, <1>6, <1>7
<1>11. CASE bit(1) = 1
  BY <1>3, <1>4, <1>5, <1>6, <1>8, <1>10, <1>11
<1>12. CASE bit(1) = 0
  BY <1>3, <1>4, <1>5, <1>6, <1>8, <1>10, <1>12
<1>13. QED
  BY <1>9, <1>11, <1>12

(* Where counting and voting agree on each group, they agree on the split. *)
LEMMA VotingIsCounting ==
  ASSUME \A k \in MeasuredUpTo(NGroups) :
           CountsAsOne(physicalAddresses[k], mask, errorPercentage)
             <=> GroupVote(physicalAddresses[k], mask) = 1
  PROVE  GroupsVoting(1) = OnesUpTo(NGroups) /\ GroupsVoting(0) = ZeroesUpTo(NGroups)
<1>1. \A g : GroupVote(g, mask) \in {0, 1}
  BY DEF GroupVote
<1>2. \A bit : GroupsVoting(bit) =
        {k \in MeasuredUpTo(NGroups) : GroupVote(physicalAddresses[k], mask) = bit}
  BY DEF GroupsVoting, MeasuredUpTo
<1>3. QED
  BY <1>1, <1>2 DEF OnesUpTo, ZeroesUpTo

LEMMA CountsSplitByMajority == IInv => AcceptedSplitsByMajority
<1> SUFFICES ASSUME IInv, verdict = "valid", errorPercentage < 50
             PROVE  VotesSplitEvenly
  BY DEF AcceptedSplitsByMajority
<1>1. group - 1 = NGroups /\ nOnes = nZeroes
  BY CheckAssumption DEF IInv, VerdictRight
<1>2. Cardinality(OnesUpTo(NGroups)) = Cardinality(ZeroesUpTo(NGroups))
  BY <1>1 DEF IInv, CountersRight
<1>3. \A k \in MeasuredUpTo(NGroups) :
        CountsAsOne(physicalAddresses[k], mask, errorPercentage)
          <=> GroupVote(physicalAddresses[k], mask) = 1
  <2> SUFFICES ASSUME NEW k \in MeasuredUpTo(NGroups)
               PROVE  CountsAsOne(physicalAddresses[k], mask, errorPercentage)
                        <=> GroupVote(physicalAddresses[k], mask) = 1
    OBVIOUS
  <2>1. physicalAddresses[k] \in Seq(Masks) /\ physicalAddresses[k] # << >>
    BY DEF MeasuredUpTo, IInv, InputsOK
  <2>2. ~ TooManyErrors(physicalAddresses[k], mask, errorPercentage)
    BY <1>1 DEF IInv, CountersRight
  <2>3. QED
    BY <2>1, <2>2, CountsAsMajority DEF IInv
<1>4. QED
  BY <1>2, <1>3, VotingIsCounting DEF VotesSplitEvenly

(* A mask that checkMask accepts with a tolerance below one half also      *)
(* halves the groups as areMasksOrthogonal counts them, by majority.       *)
THEOREM AcceptedSplits == Spec => []AcceptedSplitsByMajority
BY IInvAlways, CountsSplitByMajority, PTL

-----------------------------------------------------------------------------
(* The candidate 0 *)

LEMMA ZeroSplitsNothing == IInv => ZeroMaskRejected
<1> SUFFICES ASSUME IInv, mask = {}, Measured # {}, verdict = "valid"
             PROVE  FALSE
  BY DEF ZeroMaskRejected
<1>1. group - 1 = NGroups /\ nOnes = nZeroes
  BY CheckAssumption DEF IInv, VerdictRight
<1>2. \A a : BankBit(a, mask) = 0
  BY FS_EmptySet DEF BankBit
<1>3. \A g : Errors(g, mask) = 0
  BY <1>2, FS_EmptySet DEF Errors
<1>4. \A g \in Seq(Masks) : ~ CountsAsOne(g, mask, errorPercentage)
  <2> SUFFICES ASSUME NEW g \in Seq(Masks)
               PROVE  ~ (0 > MaxErrors(g, errorPercentage))
    BY <1>2, <1>3 DEF CountsAsOne
  <2>1. Len(g) \in Nat /\ errorPercentage \in Nat
    BY DEF IInv, InputsOK
  <2>2. Len(g) * errorPercentage \in Nat
    BY <2>1
  <2>3. QED
    BY <2>2 DEF MaxErrors
<1>5. OnesUpTo(NGroups) = {}
  BY <1>4 DEF OnesUpTo, MeasuredUpTo, IInv, InputsOK
<1>6. Cardinality(ZeroesUpTo(NGroups)) = 0
  BY <1>1, <1>5, FS_EmptySet DEF IInv, CountersRight
<1>7. ZeroesUpTo(NGroups) = {}
  BY <1>6, UpToFinite, FS_EmptySet, CheckAssumption
<1>8. \A k \in 1 .. NGroups : physicalAddresses[k] = << >>
  BY <1>5, <1>7 DEF ZeroesUpTo, MeasuredUpTo
<1>9. QED
  BY <1>8 DEF Measured, Groups

(* The 0 at the end of scanForMasks is never an address function, unless   *)
(* all groups are empty.                                                   *)
THEOREM ZeroRejected == Spec => []ZeroMaskRejected
BY IInvAlways, ZeroSplitsNothing, PTL

-----------------------------------------------------------------------------
(* Masks with bits cleared *)

Parts(m) == (SUBSET m) \ {{}, m}

(* What getModifiedMasks computes for a mask from its results for the masks *)
(* with one bit less                                                       *)
ModifiedStep(modified, m) ==
  (UNION {modified[n] : n \in OneBitCleared(m)}) \cup (OneBitCleared(m) \ {{}})

(* Clearing a bit from each of the parts of a part gives parts. *)
LEMMA PartsByOneBit ==
  ASSUME NEW m \in Masks
  PROVE  (UNION {Parts(n) : n \in OneBitCleared(m)}) \cup (OneBitCleared(m) \ {{}}) = Parts(m)
<1>1. OneBitCleared(m) = {m \ {b} : b \in m}
  BY DEF OneBitCleared
<1>2. ASSUME NEW part \in Parts(m)
      PROVE  \E n \in OneBitCleared(m) : part \in Parts(n) \/ part = n
  <2>1. part \subseteq m /\ part # m /\ part # {}
    BY DEF Parts
  <2>2. PICK b \in m : b \notin part
    BY <2>1
  <2>3. m \ {b} \in OneBitCleared(m) /\ part \subseteq m \ {b}
    BY <1>1, <2>1, <2>2
  <2>4. QED
    BY <2>1, <2>3 DEF Parts
<1>3. ASSUME NEW n \in OneBitCleared(m)
      PROVE  n \subseteq m /\ n # m
  BY <1>1, <1>3
<1>4. ASSUME NEW n \in OneBitCleared(m), NEW part \in Parts(n)
      PROVE  part \in Parts(m)
  BY <1>3, <1>4 DEF Parts
<1>5. ASSUME NEW n \in OneBitCleared(m), n # {}
      PROVE  n \in Parts(m)
  BY <1>3, <1>5 DEF Parts
<1>6. \A part \in Parts(m) : part # {}
  BY DEF Parts
<1>7. QED
  BY <1>2, <1>4, <1>5, <1>6

LEMMA AllModifiedDef ==
  AllModified = [m \in Masks |-> ModifiedStep(AllModified, m)]
<1> DEFINE parts == [m \in Masks |-> Parts(m)]
<1>1. AllModified = CHOOSE f : f = [m \in Masks |-> ModifiedStep(f, m)]
  BY DEF AllModified, ModifiedStep
<1>2. parts = [m \in Masks |-> ModifiedStep(parts, m)]
  <2> SUFFICES ASSUME NEW m \in Masks
               PROVE  Parts(m) = ModifiedStep(parts, m)
    OBVIOUS
  <2>1. \A n \in OneBitCleared(m) : n \in Masks
    BY DEF OneBitCleared, Masks
  <2>2. {parts[n] : n \in OneBitCleared(m)} = {Parts(n) : n \in OneBitCleared(m)}
    BY <2>1
  <2>3. QED
    BY <2>2, PartsByOneBit DEF ModifiedStep
<1> HIDE DEF parts
<1>3. QED
  BY <1>1, <1>2

(* Both passes of getModifiedMasks together clear bits in every way. *)
LEMMA ModifiedAreParts ==
  ASSUME IsFiniteSet(Bits), NEW m \in Masks
  PROVE  AllModified[m] = Parts(m)
<1> DEFINE wrong == {n \in Masks : AllModified[n] # Parts(n)}
<1> SUFFICES ASSUME wrong # {} PROVE FALSE
  OBVIOUS
<1>1. PICK n \in wrong : \A k \in wrong : k \subseteq n => k = n
  <2>1. wrong \in SUBSET (SUBSET Bits)
    BY DEF Masks
  <2> HIDE DEF wrong
  <2>2. QED
    BY <2>1, MinimalSubset
<1>2. \A k \in OneBitCleared(n) : AllModified[k] = Parts(k)
  <2> TAKE k \in OneBitCleared(n)
  <2>1. k \in Masks /\ k \subseteq n /\ k # n
    BY DEF OneBitCleared, Masks
  <2>2. QED
    BY <1>1, <2>1
<1>3. {AllModified[k] : k \in OneBitCleared(n)} = {Parts(k) : k \in OneBitCleared(n)}
  BY <1>2
<1>4. AllModified[n] = ModifiedStep(AllModified, n)
  BY AllModifiedDef
<1>5. AllModified[n] = Parts(n)
  BY <1>3, <1>4, PartsByOneBit DEF ModifiedStep
<1>6. QED
  BY <1>5

-----------------------------------------------------------------------------
(* Redundant parts *)

(* The bit of a mask is the sum of those of a part and of what is left. *)
LEMMA BitOfParts ==
  ASSUME IsFiniteSet(Bits), NEW m \in Masks, NEW n, n \subseteq m, NEW a \in Masks
  PROVE  /\ BankBit(a, m) \in {0, 1} /\ BankBit(a, n) \in {0, 1} /\ BankBit(a, m \ n) \in {0, 1}
         /\ BankBit(a, m) = BankBit(a, n) <=> BankBit(a, m \ n) = 0
<1>1. /\ IsFiniteSet(a \cap n) /\ IsFiniteSet(a \cap (m \ n))
      /\ a \cap m = (a \cap n) \cup (a \cap (m \ n))
      /\ (a \cap n) \cap (a \cap (m \ n)) = {}
  BY FS_Subset DEF Masks
<1>2. /\ Cardinality(a \cap n) \in Nat /\ Cardinality(a \cap (m \ n)) \in Nat
      /\ Cardinality(a \cap m) = Cardinality(a \cap n) + Cardinality(a \cap (m \ n))
  BY <1>1, DisjointSize
<1>3. \A x, y \in Nat : /\ x % 2 \in {0, 1} /\ y % 2 \in {0, 1} /\ (x + y) % 2 \in {0, 1}
                        /\ (x + y) % 2 = x % 2 <=> y % 2 = 0
  OBVIOUS
<1>4. QED
  BY <1>2, <1>3 DEF BankBit

(* A mask is equivalent to what remains of it when a part is cleared       *)
(* exactly when that part computes the same bit for all addresses.         *)
LEMMA EquivalentIsConstant ==
  ASSUME InputsOK, NEW n \in SUBSET mask
  PROVE  Equivalent(physicalAddresses, mask, n) <=> Constant(mask \ n)
<1>1. Measured = UNION {{physicalAddresses[k][i] : i \in DOMAIN physicalAddresses[k]} :
                          k \in DOMAIN physicalAddresses}
  <2>1. DOMAIN physicalAddresses = 1 .. NGroups
    BY DEF InputsOK
  <2>2. QED
    BY <2>1 DEF Measured, Groups
<1>2. Measured \subseteq Masks
  <2> SUFFICES ASSUME NEW k \in 1 .. NGroups, NEW i \in DOMAIN physicalAddresses[k]
               PROVE  physicalAddresses[k][i] \in Masks
    BY DEF Measured, Groups
  <2>1. physicalAddresses[k] \in Seq(Masks)
    BY DEF InputsOK
  <2>2. QED
    BY <2>1
<1>3. \A a \in Measured :
        /\ BankBit(a, mask \ n) \in {0, 1}
        /\ BankBit(a, mask) = BankBit(a, n) <=> BankBit(a, mask \ n) = 0
  <2> TAKE a \in Measured
  <2>1. a \in Masks /\ mask \in Masks /\ IsFiniteSet(Bits)
    BY <1>2, CheckAssumption DEF InputsOK
  <2>2. n \subseteq mask
    OBVIOUS
  <2>3. QED
    BY <2>1, <2>2, BitOfParts
<1>4. QED
  BY <1>1, <1>3 DEF Equivalent, Constant

LEMMA ModifiedMasksDecide ==
  ASSUME InputsOK
  PROVE  CheckModifiedMasks(physicalAddresses, mask) <=> EveryBitNeeded
<1>1. AllModified[mask] = Parts(mask)
  BY ModifiedAreParts, CheckAssumption DEF InputsOK
<1>2. OneBitCleared(mask) \ {{}} \subseteq Parts(mask)
  BY DEF OneBitCleared, Parts
<1>3. CheckModifiedMasks(physicalAddresses, mask) <=>
        \A n \in Parts(mask) : ~ Equivalent(physicalAddresses, mask, n)
  BY <1>1, <1>2 DEF CheckModifiedMasks
<1>4. \A n \in Parts(mask) : mask \ n \in Parts(mask) /\ mask \ (mask \ n) = n
  BY DEF Parts
<1>5. \A n \in Parts(mask) : Equivalent(physicalAddresses, mask, n) <=> Constant(mask \ n)
  BY EquivalentIsConstant DEF Parts
<1>6. EveryBitNeeded <=> \A n \in Parts(mask) : ~ Constant(n)
  BY DEF EveryBitNeeded, Parts
<1>7. (\A n \in Parts(mask) : ~ Constant(mask \ n)) <=> \A n \in Parts(mask) : ~ Constant(n)
  BY <1>4
<1>8. QED
  BY <1>3, <1>5, <1>6, <1>7

(* checkModifiedMasks lets no mask through that has a part which computes  *)
(* the same bit for all addresses measured: without that part the mask     *)
(* would tell the same addresses apart.                                    *)
THEOREM AcceptedIsMinimal == Spec => []AcceptedNeedsEveryBit
<1>1. IInv => AcceptedNeedsEveryBit
  BY ModifiedMasksDecide DEF IInv, VerdictRight, AcceptedNeedsEveryBit
<1>2. QED
  BY <1>1, IInvAlways, PTL

-----------------------------------------------------------------------------
(* Functions of clean groups *)

(* A group that agrees counts as the bit it agrees on. *)
LEMMA UnanimousCounts ==
  ASSUME InputsOK, NEW g \in Seq(Masks), g # << >>, Errors(g, mask) = 0
  PROVE  /\ ~ TooManyErrors(g, mask, errorPercentage)
         /\ CountsAsOne(g, mask, errorPercentage) <=> GroupVote(g, mask) = 1
<1> DEFINE Voting(b) == {i \in DOMAIN g : BankBit(g[i], mask) = b}
<1>1. 1 \in DOMAIN g /\ Len(g) \in Nat \ {0} /\ DOMAIN g = 1 .. Len(g)
  OBVIOUS
<1>2. IsFiniteSet(DOMAIN g) /\ Cardinality(DOMAIN g) = Len(g)
  BY <1>1, IntervalSize
<1>3. \A i \in DOMAIN g : BankBit(g[i], mask) = BankBit(g[1], mask)
  <2>1. IsFiniteSet({i \in DOMAIN g : BankBit(g[i], mask) # BankBit(g[1], mask)})
    BY <1>2, FS_Subset
  <2>2. {i \in DOMAIN g : BankBit(g[i], mask) # BankBit(g[1], mask)} = {}
    BY <2>1, FS_EmptySet DEF Errors
  <2>3. QED
    BY <2>2
<1>4. BankBit(g[1], mask) \in {0, 1}
  BY <1>1, BankBitIsBit
<1>5. MaxErrors(g, errorPercentage) \in Nat
  <2>1. errorPercentage \in Nat /\ Len(g) * errorPercentage \in Nat
    BY <1>1 DEF InputsOK
  <2>2. QED
    BY <2>1 DEF MaxErrors
<1>6. CountsAsOne(g, mask, errorPercentage) <=> BankBit(g[1], mask) = 1
  BY <1>5 DEF CountsAsOne
<1>7. GroupVote(g, mask) = IF Cardinality(Voting(1)) > Cardinality(Voting(0)) THEN 1 ELSE 0
  BY DEF GroupVote
<1>8. ~ TooManyErrors(g, mask, errorPercentage)
  <2>1. 1 .. Errors(g, mask) = {}
    OBVIOUS
  <2>2. QED
    BY <2>1 DEF TooManyErrors
<1>9. CASE BankBit(g[1], mask) = 1
  <2>1. Voting(1) = DOMAIN g /\ Voting(0) = {}
    <3>1. \A i \in DOMAIN g : BankBit(g[i], mask) = 1 /\ 1 # 0
      BY <1>3, <1>9
    <3>2. QED
      BY <3>1
  <2>2. Cardinality(Voting(1)) = Len(g) /\ Cardinality(Voting(0)) = 0
    BY <1>2, <2>1, FS_EmptySet
  <2>3. GroupVote(g, mask) = 1
    BY <1>1, <1>7, <2>2
  <2>4. QED
    BY <1>6, <1>8, <1>9, <2>3
<1>10. CASE BankBit(g[1], mask) = 0
  <2>1. Voting(0) = DOMAIN g /\ Voting(1) = {}
    <3>1. \A i \in DOMAIN g : BankBit(g[i], mask) = 0 /\ 0 # 1
      BY <1>3, <1>10
    <3>2. QED
      BY <3>1
  <2>2. Cardinality(Voting(0)) = Len(g) /\ Cardinality(Voting(1)) = 0
    BY <1>2, <2>1, FS_EmptySet
  <2>3. GroupVote(g, mask) = 0
    BY <1>1, <1>7, <2>2
  <2>4. QED
    BY <1>6, <1>8, <1>10, <2>3
<1>11. QED
  BY <1>4, <1>9, <1>10

(* checkMask turns down no mask on which every group agrees, that halves   *)
(* the groups and that has no redundant part.                              *)
THEOREM CleanFunctionsPass == Spec => []CleanFunctionAccepted
<1>1. ASSUME IInv, Unanimous, VotesSplitEvenly, EveryBitNeeded
      PROVE  Accepts(physicalAddresses, mask, errorPercentage)
  <2>1. \A k \in MeasuredUpTo(NGroups) :
          /\ ~ TooManyErrors(physicalAddresses[k], mask, errorPercentage)
          /\ CountsAsOne(physicalAddresses[k], mask, errorPercentage)
               <=> GroupVote(physicalAddresses[k], mask) = 1
    <3> TAKE k \in MeasuredUpTo(NGroups)
    <3>1. /\ physicalAddresses[k] \in Seq(Masks) /\ physicalAddresses[k] # << >>
          /\ Errors(physicalAddresses[k], mask) = 0
      BY <1>1 DEF MeasuredUpTo, IInv, InputsOK, Unanimous, Groups
    <3>2. QED
      BY <1>1, <3>1, UnanimousCounts DEF IInv
  <2>2. Cardinality(OnesUpTo(NGroups)) = Cardinality(ZeroesUpTo(NGroups))
    BY <1>1, <2>1, VotingIsCounting DEF VotesSplitEvenly
  <2>3. QED
    BY <1>1, <2>1, <2>2, AcceptsByCounts, ModifiedMasksDecide DEF IInv
<1>2. IInv => CleanFunctionAccepted
  BY <1>1 DEF IInv, VerdictRight, CleanFunctionAccepted
<1>3. QED
  BY <1>2, IInvAlways, PTL

=============================================================================
