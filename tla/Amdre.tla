------------------------------- MODULE Amdre -------------------------------
(***************************************************************************)
(* main, from the empty bank group to the groups that the address          *)
(* functions are calculated from (amdre.cpp): it adds the initial THPs,    *)
(* regroups, settles the block size and adds further THPs in blocks of     *)
(* that size.  Regrouping is that of BankGrouping, the block size that of  *)
(* BlockSize; the THPs are here, since their blocks depend on both.        *)
(***************************************************************************)
EXTENDS BlockSize

CONSTANTS
  NInitialTHPs, NAdditionalTHPs,   \* options -i and -a
  PageSize,                        \* in units
  PagesPerTHP,                     \* option -P
  Memories,                        \* banks and rows of all addresses
  Mappings                         \* addresses getTHP may return, in order

NTHPs == NInitialTHPs + NAdditionalTHPs

ASSUME AmdreAssumption ==
  /\ NInitialTHPs \in Nat /\ NAdditionalTHPs \in Nat
  /\ PageSize \in Nat \ {0} /\ PagesPerTHP \in Nat \ {0}
  /\ IsNumberPowerOfTwo(PagesPerTHP * PageSize)
  /\ \A memory \in Memories : /\ IsFiniteSet(DOMAIN memory.cells)
                               /\ memory.cells \in [DOMAIN memory.cells -> Nat \X Nat]
  /\ \A m \in Mappings :
       /\ m \in [1 .. NTHPs -> Nat \ {0}]
       /\ \A t, u \in 1 .. NTHPs : m[t] % (PagesPerTHP * PageSize) = 0 /\ (t # u => m[t] # m[u])
       /\ \A memory \in Memories, t \in 1 .. NTHPs, o \in 0 .. PagesPerTHP * PageSize - 1 :
            m[t] + o \in DOMAIN memory.cells
  /\ \A o \in Options : o.startOffset \in Nat /\ o.endOffset \in 0 .. PagesPerTHP

VARIABLES
  mappings,
  phase, thp, block, held, toRegroup, nErrors   \* as in BankGrouping

vars == <<dram, groups, config, blockSize, pc, return, loop,
          mappings, phase, thp, block, held, toRegroup, nErrors>>

Grouping == INSTANCE BankGrouping WITH StartBlock <- 0, EndBlock <- 0, Layouts <- {}

-----------------------------------------------------------------------------

(* A variant of EndBlock that misses the last block. *)
LastBlock == (config.endOffset * PageSize - 1) \div blockSize

(* The blocks of a THP run from option -S, in blocks, to -E, in pages. *)
EndBlock == (config.endOffset * PageSize) \div blockSize

BlockAddress == mappings[thp + 1] + block * blockSize

Init ==
  /\ dram \in Memories /\ mappings \in Mappings
  /\ groups = << >>
  /\ BlockSizeInit
  /\ phase = "fill" /\ thp = 0 /\ block = config.startOffset
  /\ held = << >> /\ toRegroup = 0 /\ nErrors = 0

(* addTHPToBankGroup *)
AddBlock ==
  /\ phase = "fill" /\ thp < NInitialTHPs /\ block < EndBlock
  /\ AddAddress(BlockAddress)
  /\ block' = block + 1
  /\ UNCHANGED <<thp, nErrors>>

(* addTHPToExistingBankGroup *)
AddBlockToExisting ==
  /\ phase = "add" /\ pc = "done" /\ thp < NTHPs /\ block < EndBlock /\ ~ HasEmptyGroup
  /\ \E added \in BOOLEAN :
       /\ AddToExisting(BlockAddress, added)
       /\ nErrors' = IF added THEN nErrors ELSE nErrors + 1
  /\ block' = block + 1
  /\ UNCHANGED thp

NextTHP ==
  /\ \/ phase = "fill" /\ thp < NInitialTHPs
     \/ phase = "add" /\ pc = "done" /\ thp < NTHPs
  /\ block >= EndBlock
  /\ thp' = thp + 1
  /\ block' = config.startOffset
  /\ UNCHANGED <<groups, nErrors>>

AddTHPs ==
  /\ AddBlock \/ AddBlockToExisting \/ NextTHP
  /\ UNCHANGED <<dram, config, blockSize, pc, return, loop, mappings, phase, held, toRegroup>>

(* An additional address is compared with a group that lost all of its own *)
(* when the block size rose.                                               *)
AddBlockCrashes ==
  /\ phase = "add" /\ pc = "done" /\ thp < NTHPs /\ block < EndBlock /\ HasEmptyGroup
  /\ pc' = "crashed"
  /\ UNCHANGED <<dram, groups, config, blockSize, return, loop,
                 mappings, phase, thp, block, held, toRegroup, nErrors>>

Regroup ==
  /\ \/ Grouping!StartRegrouping \/ Grouping!EraseFirstGroup
     \/ Grouping!ReAddAddress \/ Grouping!TestPlausible
  /\ UNCHANGED <<config, blockSize, pc, return, loop, mappings>>

Settle ==
  /\ phase = "add" /\ SettleBlockSize
  /\ UNCHANGED <<mappings, phase, thp, block, held, toRegroup, nErrors>>

(* The groups go to the calculation of the address functions. *)
Finish ==
  /\ pc = "done" /\ Grouping!Finish
  /\ UNCHANGED <<config, blockSize, pc, return, loop, mappings>>

Next == AddTHPs \/ AddBlockCrashes \/ Regroup \/ Settle \/ Finish

(* One thread, which never stops by itself. *)
Spec == Init /\ [][Next]_vars /\ WF_vars(Next)

-----------------------------------------------------------------------------

(* Block sizes that are no powers of two may lead out of the memory.       *)
TypeOK ==
  /\ groups \in Seq(Seq(Nat)) /\ held \in Seq(Nat)
  /\ IsNumberPowerOfTwo(config.initialBlockSize) => groups \in Seq(Seq(DOMAIN dram.cells))
  /\ blockSize \in Nat /\ target \in Nat /\ offset \in Nat
  /\ pc \in {"main", "step", "detect", "guess", "expand", "done", "crashed"}
  /\ return \in {"main", "step", "detect", "done"}
  /\ pc = "expand" => group \in DOMAIN groups /\ index \in 1 .. size + 1
                       /\ size <= Len(groups[group])
  /\ phase \in {"fill", "regroup", "add", "done"}
  /\ thp \in 0 .. NTHPs /\ block \in Nat /\ toRegroup \in Nat /\ nErrors \in Nat

(* As the default sizes are, and those which the warning in                *)
(* setBlockSizeInSteps asks for.                                           *)
PowersOfTwo ==
  /\ IsNumberPowerOfTwo(config.initialBlockSize)
  /\ config.blockSize = 0 \/ IsNumberPowerOfTwo(config.blockSize)

(* Nothing is measured wrong, and no two addresses share a row. *)
Exact ==
  /\ MaxWrong = 0
  /\ Cardinality(Range(dram.cells)) = Cardinality(DOMAIN dram.cells)

BlocksOf(t, s) ==
  {mappings[t] + i * s : i \in config.startOffset .. (config.endOffset * PageSize) \div s - 1}

(* The addresses inside of the initial blocks *)
InitialMemory ==
  {a + i : a \in UNION {BlocksOf(t, config.initialBlockSize) : t \in 1 .. NInitialTHPs},
           i \in 0 .. config.initialBlockSize - 1}

(* The blocks of the additional THPs as src/config.cpp:282-286 describes   *)
(* them: those from page -S up to page -E.                                 *)
PageBlocks ==
  {o \in config.startOffset * PageSize .. config.endOffset * PageSize - blockSize : o % blockSize = 0}

AdditionalBlocks == {mappings[t] + o : t \in NInitialTHPs + 1 .. NTHPs, o \in PageBlocks}

BanksOf(addresses) == {Bank(a) : a \in addresses}

(* The initial memory consists of whole blocks of size s, and its bank      *)
(* changes from each of them to the next and not inside of one.            *)
HasBlocksOf(s) ==
  \A a \in InitialMemory :
    /\ {a - (a % s) + i : i \in 0 .. s - 1} \subseteq InitialMemory
    /\ a + 1 \in InitialMemory => (Bank(a) = Bank(a + 1) <=> (a + 1) % s # 0)

RegularSizes == {2^i : i \in 0 .. 3}

Heads(s, bank) == {a \in InitialMemory : a % s = 0 /\ Bank(a) = bank}

Settled == phase \in {"add", "done"} /\ pc \in {"step", "detect", "done"}

(* Whatever the steps, and while further THPs are added: each group holds  *)
(* heads of blocks of the size reached, and no address is in two places;   *)
(* nothing is left behind by simplifyBlocks or expanded twice by           *)
(* expandBlocks.                                                           *)
HeadsOnly ==
  Settled /\ PowersOfTwo =>
    \A k \in DOMAIN groups :
      /\ \A a \in Range(groups[k]) :
           IsNumberPowerOfTwo(blockSize) \/ a \in InitialMemory => a % blockSize = 0
      /\ Cardinality(Range(groups[k])) = Len(groups[k])
      /\ \A l \in DOMAIN groups \ {k} : Range(groups[k]) \cap Range(groups[l]) = {}

(* While block sizes only fall, expandBlocks misses nothing, although the  *)
(* groups grow while it walks through them: each holds all block heads of  *)
(* its bank.                                                               *)
ExpansionComplete ==
  (/\ Settled /\ Exact /\ PowersOfTwo
   /\ pc = "detect" \/ config.blockSize \in 1 .. config.initialBlockSize
   /\ BanksOf(InitialMemory) = {Bank(groups[k][1]) : k \in DOMAIN groups}) =>
    \A k \in DOMAIN groups :
      Range(groups[k]) \cap InitialMemory =
        {a \in InitialMemory : a % blockSize = 0 /\ Bank(a) = Bank(groups[k][1])}

(* The blocks of the additional THPs all reach the group of their bank, in *)
(* the size that was settled in between, and the errors main reports are   *)
(* those whose bank has no group.  Which blocks these are is what the      *)
(* documentation says of -S and -E: with a start offset that is so for     *)
(* blocks of one page (see StartOffsetSkipsPages).  Initial sizes that are *)
(* no powers of two may be expanded beyond the initial blocks.             *)
AdditionsComplete ==
  (/\ phase = "done" /\ Exact /\ AdditionalBlocks # {}
   /\ config.startOffset = 0 \/ blockSize = PageSize
   /\ IsNumberPowerOfTwo(config.initialBlockSize)) =>
    /\ \A k \in DOMAIN groups :
         Range(groups[k]) \ InitialMemory =
           {a \in AdditionalBlocks : Bank(a) = Bank(groups[k][1])}
    /\ nErrors = Cardinality({a \in AdditionalBlocks :
                                \A k \in DOMAIN groups : Bank(a) # Bank(groups[k][1])})

(* How often a regular memory makes simplifyBlocks run, and the size it    *)
(* ends with                                                               *)
Doublings ==
  IF config.blockSize = 0 THEN 1
  ELSE Cardinality({i \in 0 .. config.blockSize : 2^i * config.initialBlockSize <= config.blockSize}) - 1

(* simplifyBlocks takes a block from each group.  When each bank has blocks*)
(* of the size that is settled to spare, no group runs empty, and the      *)
(* comparison of additional addresses never reads a time that is not there.*)
GroupsStayFilled ==
  \A s \in RegularSizes :
    (/\ Exact /\ PowersOfTwo /\ HasBlocksOf(s) /\ s >= config.initialBlockSize
     /\ config.blockSize <= s
     /\ \A bank \in BanksOf(InitialMemory) : Cardinality(Heads(s, bank)) > Doublings) =>
    pc # "crashed" /\ (Settled => ~ HasEmptyGroup)

(* Sizes below the minimum are not detected, as long as that is a power of *)
(* two and no larger than the initial size: halving would pass by others.  *)
MinimumRespected ==
  /\ PowersOfTwo /\ config.blockSize = 0
  /\ IsNumberPowerOfTwo(config.minimumBlockSize)
  /\ config.minimumBlockSize <= config.initialBlockSize
  => blockSize >= config.minimumBlockSize

(* Doubling the initial size gives that of option -B, or halving it gives  *)
(* that or, rounded down, half of it.                                      *)
MeetsWanted ==
  \E i \in 0 .. config.initialBlockSize + config.blockSize :
    \/ config.initialBlockSize * 2^i = config.blockSize
    \/ config.initialBlockSize \div 2^i \in {config.blockSize, config.blockSize + 1}

(* The steps of setBlockSizeInSteps meet the size of option -B when both   *)
(* that and the initial size are powers of two, which needs no guess.      *)
(* From an initial size whose doubles and halves pass by it they go up and *)
(* down for ever, although src/config.cpp:276 promises that the size of -B *)
(* is assumed.                                                             *)
StepsMeetSize ==
  /\ PowersOfTwo /\ config.blockSize # 0 =>
       (phase = "add" /\ pc = "main" ~> pc = "done" /\ blockSize = config.blockSize)
  /\ config.blockSize # 0 /\ IsNumberPowerOfTwo(config.blockSize) /\ ~ MeetsWanted =>
       [](pc # "done")

(* Blocks of size s lie before detectBlockSize, not below the minimum and  *)
(* the initial size, and some bank has more than one of them.              *)
DetectableBlocks(s) ==
  /\ Exact /\ PowersOfTwo /\ config.blockSize = 0
  /\ s >= config.initialBlockSize /\ s >= config.minimumBlockSize
  /\ HasBlocksOf(s)
  /\ IsNumberPowerOfTwo(Cardinality(BanksOf(InitialMemory)))
  /\ \E bank \in BanksOf(InitialMemory) : Cardinality(Heads(s, bank)) > 1

(* detectBlockSize finds the size of regular blocks from any initial size  *)
(* up to it.                                                               *)
DetectionFindsBlocks ==
  (\E s \in RegularSizes : DetectableBlocks(s)) => <>(pc = "done" /\ DetectableBlocks(blockSize))

-----------------------------------------------------------------------------

(* src/config.cpp:283 describes option -S as "NUMBER of pages within a THP *)
(* that should be skipped for grouping": no address of theirs is grouped.  *)
StartOffsetSkipsPages ==
  \A k \in DOMAIN groups : \A a \in Range(groups[k]), t \in 1 .. NTHPs :
    a \notin mappings[t] .. mappings[t] + config.startOffset * PageSize - 1

(* README.md:46 calls the block size "how many addresses are always        *)
(* following each other within the same DRAM bank": so must the detected   *)
(* size be.                                                                *)
DetectedBlocksInOneBank ==
  pc = "done" /\ config.blockSize = 0 /\ blockSize # 0 =>
    \A a, b \in InitialMemory : a \div blockSize = b \div blockSize => Bank(a) = Bank(b)

=============================================================================
