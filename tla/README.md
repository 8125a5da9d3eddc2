# A TLA+ model of amdre

`amdre` finds out which physical address bits select a DRAM bank. It has no
access to the memory controller: it measures how long two addresses take when
they are read in turn. Two addresses in different rows of one bank are slow (a
*row conflict*); all other pairs are fast. From such measurements it groups
addresses by bank and then searches for XOR masks that explain the groups.

The modules here describe that program, TLC checks them on small instances, and
TLAPS proves the central results for instances of any size.

## 1. The system

### Components

| Component | Source | State it keeps | Operations |
|---|---|---|---|
| Main program | `amdre.cpp` | list of mappings, error count | threshold; fill; regroup; block size; add; calculate |
| Threshold measurement | `helper.cpp:105-160` | row conflict threshold (in Config) | `measureSingleThreshold`, `measureThreshold` |
| Bank grouping | `bankGroup.cpp`, `addressGroup.cpp` | `addressGroups`: a vector of vectors of addresses | add an address or a THP, regroup, count groups |
| Block size | `bankGroup.cpp:122-231, 259-292` | `blockSize`, and the groups | guess, detect, expand, simplify, set in steps |
| Mask enumeration | `maskThread.cpp:23-55, 171-180` | `maskCandidate`, `state` of each thread | next candidate |
| Concurrent mask search | `maskThread.cpp:171-190`, `addressFunction.cpp:203-219` | `validMasks`, `validMasksMutex` | create, scan, push, join |
| Mask check | `maskThread.cpp:57-169` | none (reads the measured groups) | `checkMask`, `checkModifiedMasks` |
| Mask unification and verdict | `addressFunction.cpp:32-150, 219-234` | `addressBitMasksForBanks` | sort, unify, orthogonality, compare with the number of banks |
| Memory access and timing | `helper.cpp`, `asm.h` | memory mappings | `getTHP`, `measureAccessTime`, physical address of a virtual one |
| Configuration | `config.cpp` | options | read once at the start |
| Logger | `logger.cpp` | number of the last entry | print, update an entry in place |

Main runs the parts one after the other and in one thread: it fills the bank
group with the initial THPs (transparent huge pages), regroups everything until
the number of groups is a power of two, settles the block size, adds further
THPs to the groups it has, and computes the masks. Only the last step is
concurrent: `calculateBitMasks` starts threads that read the measured groups,
which nobody changes any more, and push the masks they find to one shared
vector under a mutex. There are no messages, no persistent state, no retries
other than the one of `getBankIndexForAddress`, and no timeouts.

### What is hard about it

* **Interleaving.** `push_back` reads and writes a shared vector; main joins the
  threads in the order of their creation while others still run.
* **Sharing out work.** Each thread walks through its own candidates with a
  stride that is an option, while the number of threads is not.
* **Integer arithmetic.** The enumeration mixes `uint64_t` and `long` at the top
  of the word; masks are sorted by `less<int>`; limits are tested for equality.
* **Groups that change while they are walked through.** Regrouping erases groups
  at the front and makes others at the back of the same vector.
* **Random samples and wrong measurements.** An address is compared with random
  members of a group, and single measurements are sometimes wrong.
* **Results that go stale.** The range of blocks of a THP is computed from a block
  size that changes between the initial and the additional THPs, and groups that
  were never empty before may be afterwards.
* **Histograms with wrap-around.** The search for the second peak of the measured
  times compares unsigned indices, and a failure is a number like any other.
* **Ending.** Main regroups without a limit on the number of tries.
* **Filters in a row.** Whether the search succeeds depends on the tolerance of
  `checkMask`, its test for redundant bits, the order of the masks and the XOR
  sums, each of which can turn down something the next one needs.

### What makes each part correct

* Grouping: no address is lost or doubled; a group never mixes banks; the number
  of banks is never too small; with distinct rows a bank has one group; the
  loop ends, and additional addresses are in the group of their bank or reported.
* Enumeration: each thread visits exactly its share of the masks with 1 to
  `-x` bits, in order, and stops.
* Search: when main unifies the masks none is missing, whatever the schedule.
* Mask check: what is accepted splits the groups in halves and has no part that is
  the same for all addresses; what fits clean groups is accepted.
* Unification: the masks kept are independent, span all that were found and do
  not depend on the schedule. Success only says that their number fits the number of
  banks: it can tell all banks apart only when the masks are orthogonal as well,
  which the code logs and does not ask for, and with up to four groups that is
  enough.
* Threshold: it lies between the times of row hits and those of row conflicts, and
  single bad measurements do not move it.
* Main: the groups that the masks are computed from hold each block of the size
  settled on that their bank has, and none of them is empty.
* Block size: adjusting ends at the size asked for, detection finds the size of
  regular blocks, and groups hold heads of blocks of that size, none twice.

## 2. Modules

```
CandidateOrder <--- CandidateWalk <==INSTANCE== MaskEnumeration
      ^
      |
 MaskSearch ==INSTANCE==> MaskHarvest         (MaskSearchProofs)

 AddressMasks <--- MaskCheck       <--- MCMaskCheck         (MaskCheckProofs)
      ^----------- AddressFunction <--- MCAddressFunction   (AddressFunctionProofs)

 AddressGroups <--- BankGrouping <--- MCBankGrouping   (BankGroupingProofs)
      ^                  ^
      |               INSTANCE
      |                  ||
      +--- BlockSize <--- Amdre  <--- MCAmdre          (AmdreProofs <--- AmdreBanksProofs)
              |
 Sorting <----+
      ^------ Threshold <--- MCThreshold               (ThresholdProofs)
```

`Lemmas` holds the facts that several proof modules cite: least and greatest elements,
minimal sets, cardinalities, ranks in a sorted sequence, sums over sets, powers of
two and remainders.

The parts are joined by their interfaces: `MaskEnumeration` shows that the
bit arithmetic walks through the abstract order of `CandidateOrder`, on which
`MaskSearch` is built; `MaskSearch` takes the result of `checkMask` as the
constant set `Valid` and shows that all of it arrives, which is the initial
state of `AddressFunction`; `AddressFunction` computes that set with `Accepts`,
which `MaskCheck` shows to be what the loops of `checkMask` decide. `Amdre` composes
the regrouping of `BankGrouping` with the actions of `BlockSize`; both work on the
same `groups` with the operators of `AddressGroups`. `Threshold` comes before all of
them, and they rest on it through `Conflict`.

Definitions called "a variant of ..." are plausible slips in the code (a missing
wait, an off-by-one, a dropped reset). They are not part of any specification:
replacing the real definition by the variant makes TLC report a violation of the
property the variant is listed with in `PROJECT.json`.

### MaskEnumeration (with CandidateOrder, CandidateWalk)

`maskCandidate` is an integer of `WordBits` bits. The operators follow
`generateNextAddressMask...` statement by statement: unsigned values wrap,
values kept in a `long` are signed, and the division is one of signed values.
`Next` is a turn of the loop in `scanForMasks`, with the thread id as the first
skip and the stride as every later one. The reference is stated without that
arithmetic: `Candidates` are the masks with at most `MaxMaskBits` bits and none
below the block size, `Precedes` orders them by number of bits and then value,
and `WalksTheOrder` says, through `CandidateWalk`, that a thread is at position
`threadId`, then `Stride` further, and so on to the end.

The model assumes `SkipLastNBits >= 2` and that `-x` is no more than the bits that
are left. Below that the C++ code shifts by the width of the word or divides the
smallest `long`; a larger `-x` would never meet the test for equality in line 41.

### MaskSearch, MaskHarvest

One variable per local of a thread (`pc`, `state`, `maskCandidate`, and `seen`,
what a `push_back` in progress has read), the shared `validMasks` and `mutex`, and
`mainPc`/`mainIdx` for `calculateBitMasks`. A candidate is its position in the
enumeration. `push_back` is two actions, `Load` and `Store`, so that a push under a
broken lock would lose elements; everything a thread does between two accesses
to shared state is one action (`Scan`). The 0 that ends the loop of `scanForMasks` is
checked like the other candidates: `NoCandidate` may be in `Valid`, as it is when all
groups are empty, and each thread then pushes it once. `NThreads` (argument of
`calculateBitMasks`, the number of CPUs by default) and `Stride` (option `-n`) are
separate constants because they are separate in the code.

`MaskHarvest` is the promise: valid masks are collected in any order and handed
over once, when none is missing. `ImplementsHarvest` is the refinement with
`found <- Found`, `handedOver <- mainPc = "done"`.

*Fairness*: weak fairness of main and of each thread. The threads are
`std::thread`s which the operating system schedules as long as they can run.
Nothing is assumed about who gets the mutex; `SearchEnds` holds anyway, since each
thread needs it only finitely often.

### AddressMasks, MaskCheck

An address and a mask are sets of bit positions, so `address & mask` is an
intersection and `xorBits` the parity of its size. `MaskCheck` has one action per
turn of the loop over the groups, one for the test of the halves and one for
`checkModifiedMasks`. The inner loop over the addresses of a group is folded into
`TooManyErrors`: `nErrors` is tested after each increment and therefore takes
every value up to its last on the way.

### AddressFunction

Starts from the set of masks that `checkMask` accepts for the given groups and the
tolerance of option `-p` in any order, the mask 0 included (`Found`), then `Sort`, one `Unify` per mask, `LogOrthogonality` and
`Verdict`. `SortedOrders` compares by the low `IntBits` bits as a signed number, as
`less<int>` does, and leaves ties in every order; `AsInt` adds the powers of two of the
low bits and takes off that of the sign. `addressMasks` is empty until the masks are
sorted, since what the threads leave is a set. `OrthogonalSuccessTellsApart` asks for
groups that are not empty: an empty one has no bank to be told apart from,
`checkMask` skips it, and `areMasksOrthogonal` counts it to the zeros whatever the mask
is. When all groups are empty (the run `adjacent_bits` ends there) `checkMask` accepts
the 0, which every thread pushes and unification keeps: `calculateBitMasks` can then
report a mask that computes nothing. `KeptIndependent` names that exception.
`getRelevantBits` is never called and is left out.

### AddressGroups

`groups` is `addressGroups`, in the order of the vector. The memory is the external
part: `dram` gives each address a bank and a row, chosen in the initial state and
never read except through `Conflict`. A comparison samples `NCompare` members at
random and takes the median, with at most `MaxWrong` of them measured wrong (a
property of the memory, too);
`BankIndices` are all the results `getBankIndexForAddress` can have (any group whose
time may be the largest one, or -1). A retry measures again and adds no further
result. The time of a comparison is abstracted to "reaches the threshold or not".

### BankGrouping

An address is a pair of THP and block. `phase`, `thp`, `block`, `held` and
`toRegroup` are the control state of `main`, `addTHPToBankGroup` and
`regroupAllAddresses`; `toRegroup` stands for `addressGroupSize - idx`, and `held`
for the addresses of the erased group that are still to be added again.

The change of the block size between regrouping and adding is not in this module:
it describes a run in which option `-B` names the initial block size. That keeps
the module small enough for layouts of every kind and for wrong measurements.

*Fairness*: weak fairness of `Next`; the program is one thread that does not block.

### BlockSize

A component without a specification of its own. An address is a number of units,
where a unit is any number of bytes. `pc` says which function main is in and
`return` where `setBlockSize` was called from; `target`, `group`, `index`, `size` and
`offset` are the locals of `expandBlocks`, which is one action per turn of each of
its loops, since it adds to the groups it walks through. `simplifyBlocks` is one
action: `IsKept` says of each head of a block whether it stays. Its `validOffset` has
reached the new size exactly when the head before is followed by the rest of its
block, so it is the *previous* block of the group that decides, and the first head
is always removed (`validOffset` starts at the old size). `guessBlockSize` sorts the
groups (`SortGroups`) and then counts runs; `RunStarts` and `CountedRuns` leave out the
last run of each group as the loop does. A guess of 0 leads to
`expandBlocks(blockSize, 0)`, which stays in its inner loop; the bound `MaxGroupSize`
stops the model there. An expansion that compares with an empty group reads a time
that is not there (`CompareWithEmptyGroup`). The block size that every
`AddressGroup` stores is left out: nobody reads it.

### Amdre

`main` from the empty bank group to the finished groups. It takes the state and the
actions of `BlockSize`, the regrouping of `BankGrouping` (an `INSTANCE`, of which
`StartRegrouping`, `EraseFirstGroup`, `ReAddAddress`, `TestPlausible` and `Finish` are
used) and its own actions for the loop of `addTHPToBankGroup`, whose blocks here have
addresses: `BlockAddress` steps by the block size of the moment and `EndBlock` is
computed from it. Option `-S` counts blocks in this loop, although it is documented
in pages (`config.cpp:282-283`), while `-E` counts pages; the actions do what the loop
does, and the finding `start_offset` reports it. `AdditionsComplete` takes the blocks
of the additional THPs from the documentation (`PageBlocks`) and so is stated for runs
in which both agree, without a start offset or with blocks of one page. `mappings` are the addresses `getTHP` returns (external), not in their order:
multiples of the size of a THP, as `posix_memalign` is asked for (`helper.cpp:83-99`),
no two of them equal and none 0, with memory behind all of their pages. A memory has
finitely many addresses and gives each of them a bank and a row (`AmdreAssumption`).
After `simplifyBlocks` a group may be empty, and `AddBlockCrashes` is the comparison
with it. `Settle` happens in the phase `"add"` before `pc = "done"`, the additional
THPs afterwards. `AdditionsComplete` speaks of initial block sizes that are powers of
two: others do not divide the THPs, and expanding them may lead to addresses behind the
initial blocks, even into an additional THP.

*Fairness*: weak fairness of `Next`; the program is one thread that does not block.

### Threshold

`measureSingleThreshold` is the operator `SingleThreshold` on a histogram: the pages
per bin of 10 cycles, bins counted from the lowest time. `EndsGap` is the test of
line 130 with its unsigned wrap-around; the first bin that passes it decides.
Thresholds are kept in bins, since all of them are multiples of 10 cycles.
`measureThreshold` is the action `MeasureSingleThreshold`, repeated, and `TakeMedian`;
-1 stands for the failure, which the code stores as the largest `uint64_t` and sorts
to the front again because `compareUInt64` returns an `int`. `Histograms` (external)
are the times the memory may show in one measurement.

## 3. Runs

| Run | Instance | Question |
|---|---|---|
| `enumeration` | words of 10 bits, 2 bits skipped, masks of up to 4 of 8 bits, 5 threads, stride 3 | does the arithmetic visit the right masks? |
| `search` | 10 candidates, 3 threads, stride 3, the first 4 and the 0 at the end valid | is any mask lost or doubled in some schedule, and does it end? |
| `few_threads` | 5 candidates, 2 threads, stride 3 | *violated*: see findings |
| `mask_check` | 2 groups: 3 bits and up to 2 addresses, or 1 bit and up to 5 addresses with 1, 25, 40 percent | is the right thing accepted? |
| `first_wrong` | 2 groups of up to 6 addresses, 40 percent | *violated*: see findings |
| `address_function` | up to 3 bank functions; 2 to 8 of 8 addresses, all 16 of 4 bits, and 4 bits with a constant parity; the last group or all of 0 to 4 groups empty; an address in a wrong group; 1 and 40 percent | are the masks kept independent, complete, and what does success mean? |
| `grouping` | 1 + 1 THPs of 3 blocks; any layout on 2 banks and 2 rows and any on 3 banks with distinct rows, without errors; 6 linear layouts with up to one wrong measurement per comparison of up to 2 | are groups right, what remains true when measurements are wrong, and does main's loop end? |
| `amdre` | 2 + 1 THPs of 2 pages of 4 units, the second below the first; initial sizes 1 to 4, `-B` 1, 4, 8, 6 (detected) or none, minimum 1 and 2, start offset 0 and 1, end offset 1 and 2; banks that change every 1, 2, 4, 8, 16 units, 2 or 4 of them, or an XOR of two bits | does the block size become what it should, do the groups follow, and do additional THPs find them? |
| `start_offset` | start offset 1, blocks of a quarter of a page | *violated*: see findings |
| `adjacent_bits` | bank = XOR of the two lowest bits, detected | *violated*: see findings |
| `threshold` | 10 pages in 7 bins, every histogram of a single measurement; up to 4 measurements of 5 kinds, and option `-T` | is the threshold between the peaks, and does the median keep bad measurements out? |
| `narrow_peak` | the same | *violated*: see findings |

Why the bounds are enough: a word of 10 bits has all the cases of the arithmetic
(ripple inside the word, a candidate past the limit with more bits to come, the
last number of bits, the top bit as a sign) and five threads with stride three
start at positions below and above the stride. Three threads are enough for two
to race and a third to be joined meanwhile, and one of them has two valid
candidates besides the 0. Redundant parts of two bits, which only the second pass of
`checkModifiedMasks` sees, need masks of three bits; a tolerance of two addresses
on either side needs five addresses. With `IntBits = 3` four address bits include
masks that compare equal as `int` and masks with the sign bit. Three blocks with
two rows make a bank fall into several groups, so that regrouping is repeated;
three banks are a number that is no power of two. One wrong measurement of two is
as many as the median can bear. Banks that change every 16 units give the initial
THPs one bank and the additional one another, so that errors are counted; with
every 8 units a bank has a single block to lose. Ten pages are the fewest for which
three quarters of them make two large bins and the rest a third. Two THPs whose order in the
groups is not that of their addresses make the sorting matter; sizes 1 to 8 take
three halvings or doublings; the odd size 3 is the smallest one from which the
steps miss the targets 4 and 8 for ever, and leaves groups empty. What grows with size
rather than with such cases is covered by the proofs.

`CHECK_DEADLOCK FALSE` is set everywhere because all of these computations end.

### Findings

* `few_threads`: option `-n` is documented as the number of threads, but the number
  of threads is always that of the CPUs and `-n` is only the stride. With `-n` above
  the number of CPUs, candidates are never looked at and masks are missing; with
  `-n` below it, masks are checked and pushed more than once (harmless, since
  unification drops the copies). `SearchLosesNothing` and `SearchReportsOnce` say
  exactly when this does not happen.
* `first_wrong`: the comment in `checkMask` allows the first address of a group to
  be the wrong one. The test runs after each increment of `nErrors`, so the count
  has to pass through the forbidden values and the mask is refused. The tolerance
  works from the other side only when the forbidden interval is empty.
* `start_offset`: `-S` is documented as the number of pages of a THP that are skipped.
  The loop of `addTHPToBankGroup` skips that many *blocks*, so with blocks smaller than
  a page some of the first pages are grouped, and the additional THPs, added in blocks of
  another size, lose more or less than the initial ones.
* `adjacent_bits`: the detected block size is documented as the number of addresses
  in a row that share a bank. The guess is the most frequent length of such rows
  wherever they begin. A bank that is the XOR of two adjacent bits has rows of twice
  the real size, shifted by half of it; after the guess, `simplifyBlocks` finds no
  whole block and leaves every group empty. `DetectionFindsBlocks` says for which
  memories the guess is right.
* `narrow_peak`: the search for the conflicts in the histogram asks for a bin of more
  than two pages after a gap, with three quarters of the pages up to it. Nothing
  keeps it from finding the hits themselves when they fill a single bin: before the
  first large bin `lastValue` is 0, and in bins 0 and 1 `i - 2` wraps around, so that
  there is always a gap. The threshold is then at or below the hits.
  `SpreadHitsSeparated` says when it is right, `MedianShields` that a minority of such
  measurements does no harm.

One more disagreement with the documentation is part of a property that holds. `-B` is
documented as the size that is assumed instead of measured (`config.cpp:276-277`). The
steps of `setBlockSizeInSteps` reach it from an initial size (`-b`) that is a power of
two, but only `-B` is tested for that: from a size whose doubles and halves pass by `-B`
(`MeetsWanted`) they go up and down for ever. `StepsMeetSize` states both.

## 4. Proofs

TLAPS checks the proof modules for all values of the constants that satisfy the
assumptions of the module they extend (`NCandidatesAssumption` and
`SearchAssumption`, `CheckAssumption`, `FunctionAssumption`, `GroupingAssumption` and
`ComparisonAssumption`, `BlockSizeAssumption` and `AmdreAssumption`, and those of
`Threshold`). TLC evaluates each of these on the instances of section 3.

**MaskSearchProofs.** `NothingLost` is not inductive: that a mask arrives depends on
where each thread is. `IInv` adds: a thread is inside the critical section exactly
when it holds the mutex, and what it has read is still the vector (`MutexInv`); a
thread's candidate is in its walk, the positions `t + k*Stride` and the 0 behind
them, and it is done only when it has come to the 0 (`WalkInv`); a valid candidate of
its walk is in the vector when the thread is past it, and nothing else is
(`FoundInv`); main has joined whom it has passed (`MainInv`). Shares cover all
positions when there are enough threads and do not overlap when there are few
enough; the 0 is in all walks, and `ReportedOnce` leaves it out. From that follow `SearchLosesNothing`, `SearchReportsOnce`, the two action
properties and the refinement `SearchImplementsHarvest` (every step collects one
mask, hands over, or stutters).

**MaskCheckProofs.** The inductive invariant says that both counters count the groups
behind the loop and that none of these had too many errors (`CountersRight`), and that
each verdict has its reason (`VerdictRight`); `AcceptsByCounts` then restates `Accepts`
in the words of the loop. `AcceptedSplits` rests on `CountsAsMajority`: the errors
relative to the first address are the votes for the other bit, and with fewer than half
of them tolerated a group that passes has either at most the tolerated number or, when
its size is twice that and one, the majority against its first address. All of
this needs only that masks have finitely many bits. `AcceptedIsMinimal` (no proper
part of an accepted mask has the same value on all addresses; nothing is said about the
votes of groups, which tolerated errors may leave as they are) and `CleanFunctionsPass` need to know what the passes of `checkModifiedMasks` generate:
`ModifiedAreParts` shows that `AllModified` are exactly the proper parts of a mask
(taking bits away one by one reaches each of them, by the smallest part that would be
missed), so that a mask is accepted only when every proper part tells some addresses
apart, and a function that is constant on each group, halves the groups and has only
such parts passes all three tests.

**AddressFunctionProofs.** `UnifyInv` says which masks are kept: those that are no sum
of masks before them in the list (`KeptAreNew`), that these are independent, and that
all masks the loop has passed are sums of them (`VisitedSpanned`). It rests on
`SumsAre`, that the set `sums` of the code is the set of XOR sums of the masks kept,
and on `SpanIsClosed` and `SumOfMore`, the algebra of XOR on finite sets of bits.
`UnificationIgnoresSchedule` then needs `OrdersAre` (every order in which `sort` may
leave the masks has smaller ones first) and `AsIntDiffers` (masks below the sign bit
and with it are told apart by `AsInt`, since the uppermost bit in which two sums of
powers of two differ decides). `KeptIndependent` follows with `ZeroFound`: the 0 is found only when no
group has an address left. `RightSuccessHalves` counts, for any number of groups: masks
that tell 2^n groups apart give each combination of n values to exactly one of them, so
changing the value of one mask is a one-to-one map between the groups on which it agrees
with another and those on which it differs (`FlippingMatches`), and both are one half.
The masks of a success that the log calls not orthogonal therefore never tell all banks
apart. The converse, `OrthogonalSuccessTellsApart`, is a matter of TLC.

**ThresholdProofs.** The invariant `MeasureInv` keeps that the last threshold is that of
the last histogram and that the result is the median of all of them.
`SpreadHitsAreSeparated` shows that no bin of the hits ends a gap and that the bin of the
conflicts does, so that the code picks a bin between the two. `MedianIsShielded` and
`FailureIsMajority` are facts about `Median`, by counting how many elements of a
sequence lie on either side of the one that `qsort` puts in the middle (`SortedAt` in
`Lemmas`).

**BankGroupingProofs.** `IInv` joins the types, `NoEmptyGroup` and `Homogeneous`.
`NoEmptyGroup` carries `toRegroup <= Len(groups)`, without which erasing the first
group would not be defined; `Homogeneous` rests on `JoinsOwnBank`: a majority in a
sample that wrong measurements cannot make up contains a real conflict, hence an
address of the same bank. `GroupingAccountsForAll` follows the set of addresses
offered so far through each action. `GroupingMedianHolds` is `JoinsOwnBank` again,
with noise.

Three more theorems build on these. `NoAddressTwice` is preserved because each address
that is added is new: one of a fresh offer by the order of the offers (from
`GroupingAccountsForAll`, all that is grouped has been offered), one on its way back
because it has left its group. `OneGroupPerBank` needs `Homogeneous` and
`NoAddressTwice`: a group of the bank of an address consists of other addresses of
that bank, hence of other rows, so that every member conflicts and no sample misses it
(`SureConflict`); no second group can be opened. `NoBankMissed` needs `InitialKept`,
that every address offered from the initial THPs is grouped or held and none is held
once regrouping is over: mapping each group to the one bank it belongs to then hits
every bank of the initial THPs.

**AmdreProofs.** `HeadsOnly` is not inductive: it says nothing while main regroups or while
`expandBlocks` is halfway. `LayoutInv` says where the addresses of the groups lie from
phase to phase, when the initial size is a power of two. While the initial THPs come
in, they are blocks that main has been at (`Filling`); while groups are taken apart, the
held addresses are apart from the grouped ones (`Regrouping`); while the block size is
settled, all are heads of blocks within the initial THPs (`Settling`); afterwards an
address is such a head or an additional block that main has been at (`Adding`). Halfway
through an expansion (`Expanding`) an address is a head of a block of the old size, or it
lies behind an address that the loops have passed (`IsBehind`). So the address that is
added next is new: it is no head of an old block, and the only address that it could lie
behind is the current one, which occurs once and has not been expanded. The remaining
case is `Stuck`, the expansion to a guess of 0, which adds copies of the first address and
never ends. That an address inside a block is memory needs that blocks do not cross the
end of a THP (`BlockEndsInTHP`), hence that THPs and blocks are powers of two; that
an additional block is new needs that THPs do not overlap (`THPsApart`). `Minimum` adds
that the target of an expansion is no smaller than option `-s`. Nothing is assumed about
the memory or the measurements: the three theorems hold with any number of wrong ones.
After a crash nothing is said of the groups other than that they are in memory.

**AmdreBanksProofs** says what *is* in the groups, when nothing is measured wrong and no
two addresses share a row (`Exact`; the initial size a power of two, and no crash).
Neither `ExpansionComplete` nor `AdditionsComplete` is inductive: both speak of moments
when main is through with something. `BanksInv` follows the groups from the start. Their
addresses come from the initial memory or from additional blocks main has been at
(`Origins`); two addresses are in one group exactly when they are in one bank
(`BanksApart`), since a comparison with a group of one bank then cannot be mistaken about
an address that is not in it (`ComparesRight`, `FindsBank`); `nErrors` counts the blocks
offered that are in no group, whose bank then has none (`Counting`); sizes that begin to
fall go on falling (`Falls`); and the blocks of the initial memory are in the groups
(`HeadsComplete`): all blocks offered while main fills, then all heads of blocks,
also while groups are taken apart (with the held ones), and after that, as long as every
bank has a group (`Covered`), all heads of blocks of the size reached. Halfway through an
expansion the half of each block that the loops have passed is there (`Expanded`), and
what was appended to the current group after its size was read begins no block, so it need
not be visited. The proof has one lemma per action (`FillPlaced` to `FinishPlaced`). At the
end of an expansion every multiple of the smaller size in the initial memory
is a multiple of the larger one or lies half a block behind one
(`HalvesInMemory`), and all are passed. Once sizes rise, blocks may get lost (a group
may even run empty), and `AdditionsComplete` needs no more than `BanksApart` and
`Counting` then, with `Filled` from the guard: a comparison with an empty group crashes.
`OfferedAreAdditional` shows that the loop over numbers of blocks offers the blocks
between the pages that `-S` and `-E` name when there is no start offset or a block is a
page. The theorem says nothing about memories with shared rows or wrong measurements.

`GroupsStayFilled` says when that does not happen: the memory consists of blocks of a
size `s` (`HasBlocksOf`), and every bank has more of them than `simplifyBlocks` runs
(`Spare`, the antecedent of the property). `simplifyBlocks` keeps a head when the head
*before* it is followed by the rest of its block, so each run takes the first block of
each bank away, and the head of a block that lost one before it may go as well.
`WholeBehind(s, d)` says what is left after `d` runs: the blocks of the initial memory
with at least `d` blocks of their bank before them are complete in the groups, in the
block size of the moment. `SimplifyLeaves` shows that a run leads from `d` to `d + 1`
and empties no group that has a block to spare (`KeptBehind` for the addresses that
stay), and `DoublingsCount` that there are no more runs than `Doublings` counts.
`SpareInv` says that, under `Spare`, main has not crashed, no group is empty after
regrouping, and while the size rises in steps, `WholeBehind` holds for the number of
steps made. When the size is detected there is only one run, provided that the guess is
`s`: the groups are ascending when it is made (`SortedAscends`) and hold all heads of
their bank (`BanksInv`, with `Covered`), so a counted run of adjacent blocks begins with
a block of size `s`, fills it (`RunFillsBlock`) and ends with it (`RunIsInBlock`), and
`GuessIsBlock` follows for whatever length is the most frequent. Which memories are
regular is part of the property; TLC finds the antecedent met, and its mutants violated,
in the run `amdre`.

**With TLC only**: liveness (`SearchEnds`, `GroupingEnds`,
`CompleteMeasurementSucceeds`, `StepsMeetSize`, `DetectionFindsBlocks`), which needs
fairness and ENABLED; `OrthogonalSuccessTellsApart`, which is bounded to four groups
by its statement; everything about `MaskEnumeration`, whose arithmetic uses
bit operations. All other safety invariants of the passing runs are theorems. The
induction theorems of the library take an operator as a parameter and cannot be used. Where a proof needs what a recursive function or a fold computes
(`Sums`, `AllModified`, `SortedOrders`, `AsInt`), it takes the smallest counterexample
instead (`LeastNatural`, `MinimalSubset` in `Lemmas`) or guesses the function and shows
that it solves the recursion. What `sort` does is defined by ranks in `Sorting` and not by
recursion, for the same reason.

## 5. Not modelled, and the plan

Planned: that `Amdre` with `-B` equal to `-b` implements `BankGrouping`.

Not modelled:

* `getTHP` returning `NULL` when memory is short (`amdre.cpp:34`): the program goes on
  with address 0 and reads unmapped memory; there is no behaviour of the code to
  model after that.
* The end of `main` (`amdre.cpp:76-88`): the exit code and the freeing of memory.
* An end offset above the pages of a THP, by which blocks behind the THP would be
  measured, and block sizes below 4 bytes (see `MaskEnumeration`).
* Repeated rows and wrong measurements in `Amdre`: with random samples they have too
  many outcomes for the composition; `BankGrouping` has them.
* Parsing of options (they are constants here), the text and the cursor movements
  of the logger (nothing reads its state), and the access to memory, page map and
  time stamp counter (hardware and kernel, which `Conflict` stands for).
