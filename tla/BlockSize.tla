----------------------------- MODULE BlockSize -----------------------------
(***************************************************************************)
(* Settling the block size, after regrouping: main either guesses it from  *)
(* the groups (detectBlockSize) or moves to the size of option -B in steps *)
(* of 2 (setBlockSizeInSteps).  A smaller size expands the groups by the   *)
(* addresses inside the blocks, a larger one leaves only the heads of      *)
(* blocks in them (bankGroup.cpp).  A unit of the model is any number of   *)
(* bytes; an address is a number of units.                                 *)
(***************************************************************************)
EXTENDS AddressGroups, Sorting, SequencesExt

CONSTANTS
  Options,       \* initialBlockSize (-b), blockSize (-B, 0: detect), minimumBlockSize (-s)
  MaxGroupSize   \* bound: addresses in a group

ASSUME BlockSizeAssumption ==
  /\ MaxGroupSize \in Nat
  /\ \A o \in Options :
       /\ o.initialBlockSize \in Nat \ {0} /\ o.minimumBlockSize \in Nat \ {0}
       /\ o.blockSize \in Nat

VARIABLES
  config,      \* the options
  blockSize,
  pc,          \* "main", "step", "detect", "guess", "expand", "done" or "crashed"
  return,      \* where setBlockSize returns to
  target,      \* newBlockSize of expandBlocks
  group, index, size,   \* the group, its next address and addressGroupSize
  offset

loop == <<target, group, index, size, offset>>

-----------------------------------------------------------------------------
(* guessBlockSize *)

(* The indices at which a run of adjacent blocks begins. *)
RunStarts(g) == {i \in DOMAIN g : i = 1 \/ g[i - 1] + blockSize # g[i]}

(* Runs are counted when the next one begins, so the last one never is. *)
CountedRuns ==
  UNION {{<<k, i>> : i \in RunStarts(groups[k]) \ {1}} : k \in DOMAIN groups}

RunLength(g, i) == i - Max({j \in RunStarts(g) : j < i})

(* followupAddressMap: the lengths of the counted runs, with repetitions *)
Followups == [r \in CountedRuns |-> RunLength(groups[r[1]], r[2])]

Frequency(n, f) == Cardinality({r \in DOMAIN f : f[r] = n})

MostFrequent(f) ==
  {n \in Range(f) : \A m \in Range(f) : Frequency(m, f) <= Frequency(n, f)}

(* A variant of GuessBlockSize that returns a number of addresses. *)
GuessRunLength == IF CountedRuns = {} THEN 0 ELSE Min(MostFrequent(Followups))

(* The shortest of the most frequent runs, 0 when none was counted *)
GuessBlockSize ==
  IF CountedRuns = {} THEN 0 ELSE blockSize * Min(MostFrequent(Followups))

-----------------------------------------------------------------------------
(* simplifyBlocks.  Its validOffset reaches the new size when the last     *)
(* head it has met is followed by the rest of its block; the address 0,    *)
(* which it starts from, is never mapped.                                  *)

(* A variant of WholeBlock that asks for the head of the next block, too. *)
WholeBlockAndNext(head, g, new) ==
  \A o \in 1 .. new : o % blockSize = 0 => head + o \in Range(g)

WholeBlock(head, g, new) ==
  \A o \in 1 .. new - 1 : o % blockSize = 0 => head + o \in Range(g)

HeadsBefore(a, g, new) == {h \in Range(g) : h < a /\ h % new = 0}

(* It is this earlier block that decides, not the one that begins with a.  *)
IsKept(a, g, new) ==
  /\ a % new = 0
  /\ HeadsBefore(a, g, new) # {}
  /\ WholeBlock(Max(HeadsBefore(a, g, new)), g, new)

(* A variant of Simplified that removes nothing. *)
SimplifiedNot(g, new) == Sorted(g)

Simplified(g, new) == SortedPart(g, {i \in DOMAIN g : IsKept(g[i], g, new)})

-----------------------------------------------------------------------------

BlockSizeInit ==
  /\ config \in Options
  /\ blockSize = config.initialBlockSize
  /\ pc = "main" /\ return = "main"
  /\ target = 0 /\ group = 0 /\ index = 0 /\ size = 0 /\ offset = 0

(* setBlockSize(new), returning to r: expandBlocks starts its loops,       *)
(* simplifyBlocks does all of its work.                                    *)
SetBlockSize(new, r) ==
  \/ /\ new < blockSize
     /\ pc' = "expand" /\ return' = r
     /\ target' = new
     /\ group' = 1 /\ index' = 1 /\ size' = Len(groups[1]) /\ offset' = new
     /\ UNCHANGED <<groups, blockSize>>
  \/ /\ new > blockSize
     /\ groups' = [k \in DOMAIN groups |-> Simplified(groups[k], new)]
     /\ blockSize' = new
     /\ pc' = r /\ return' = r
     /\ UNCHANGED loop
  \/ /\ new = blockSize
     /\ pc' = r /\ return' = r
     /\ UNCHANGED <<groups, blockSize, loop>>

(* amdre.cpp, and the early returns of setBlockSizeInSteps *)
ChooseBlockSize ==
  /\ pc = "main"
  /\ pc' = CASE config.blockSize = blockSize -> "done"
             [] IsNumberPowerOfTwo(config.blockSize) /\ config.blockSize # blockSize -> "step"
             [] OTHER -> "detect"
  /\ UNCHANGED <<groups, blockSize, return, loop>>

(* A variant of NextStep that knows one direction only. *)
StepDown == blockSize \div 2

NextStep == IF config.blockSize > blockSize THEN 2 * blockSize ELSE blockSize \div 2

StepBlockSize ==
  /\ pc = "step" /\ blockSize # config.blockSize
  /\ SetBlockSize(NextStep, "step")

StopSteps ==
  /\ pc = "step" /\ blockSize = config.blockSize
  /\ pc' = "done"
  /\ UNCHANGED <<groups, blockSize, return, loop>>

(* A guess begins by sorting the groups. *)
SortGroups ==
  /\ pc = "detect"
  /\ groups' = [k \in DOMAIN groups |-> Sorted(groups[k])]
  /\ pc' = "guess"
  /\ UNCHANGED <<blockSize, return, loop>>

(* A variant of MayHalve that goes one size further. *)
MayHalveMinimum == blockSize >= config.minimumBlockSize

MayHalve == blockSize > config.minimumBlockSize

(* A turn of the loop of detectBlockSize, or its end, where the second     *)
(* guess is the same as the first.                                         *)
Detect ==
  /\ pc = "guess"
  /\ \E guess \in {GuessBlockSize} :
       IF guess = blockSize /\ MayHalve
       THEN SetBlockSize(blockSize \div 2, "detect")
       ELSE SetBlockSize(guess, "done")

-----------------------------------------------------------------------------
(* expandBlocks *)

Address == groups[group][index]

StartsBlock == index <= size /\ Address % blockSize = 0

HasEmptyGroup == \E k \in DOMAIN groups : groups[k] = << >>

ExpandAddress ==
  /\ pc = "expand" /\ StartsBlock /\ offset < blockSize /\ ~ HasEmptyGroup
  /\ \A k \in DOMAIN groups : Len(groups[k]) < MaxGroupSize
  /\ \E added \in BOOLEAN : AddToExisting(Address + offset, added)
  /\ offset' = offset + target
  /\ UNCHANGED <<blockSize, pc, return, target, group, index, size>>

(* compareAddressTiming reads the first of no times. *)
CompareWithEmptyGroup ==
  /\ pc = "expand" /\ StartsBlock /\ offset < blockSize /\ HasEmptyGroup
  /\ pc' = "crashed"
  /\ UNCHANGED <<groups, blockSize, return, loop>>

(* A variant of FirstOffset after which the inner loop does not run again. *)
LastOffset == offset

FirstOffset == target

NextAddress ==
  /\ pc = "expand" /\ index <= size /\ (StartsBlock => offset >= blockSize)
  /\ index' = index + 1
  /\ offset' = FirstOffset
  /\ UNCHANGED <<groups, blockSize, pc, return, target, group, size>>

(* A variant of NextSize that keeps the size of the group before. *)
SameSize == size

(* The size of a group is read once, when its turn comes. *)
NextSize == Len(groups[group + 1])

NextGroup ==
  /\ pc = "expand" /\ index > size /\ group < Len(groups)
  /\ group' = group + 1
  /\ index' = 1 /\ size' = NextSize
  /\ UNCHANGED <<groups, blockSize, pc, return, target, offset>>

EndExpansion ==
  /\ pc = "expand" /\ index > size /\ group = Len(groups)
  /\ blockSize' = target
  /\ pc' = return
  /\ UNCHANGED <<groups, return, loop>>

(* Everything main does between regrouping and the additional THPs *)
SettleBlockSize ==
  /\ \/ ChooseBlockSize \/ StepBlockSize \/ StopSteps \/ SortGroups \/ Detect
     \/ ExpandAddress \/ CompareWithEmptyGroup \/ NextAddress \/ NextGroup \/ EndExpansion
  /\ UNCHANGED <<dram, config>>

=============================================================================
