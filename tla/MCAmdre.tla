------------------------------ MODULE MCAmdre ------------------------------
(***************************************************************************)
(* Instances of Amdre: three THPs next to each other, the two initial ones *)
(* not in the order of their addresses, and banks that are selected by     *)
(* ranges of addresses or by an XOR of two address bits.                   *)
(***************************************************************************)
EXTENDS Amdre

CONSTANTS
  Base,                             \* bound: where the memory begins
  InitialSizes, OddSizes,           \* option -b, powers of two and others
  WantedSizes, MinimumSizes,        \* options -B and -s
  StartOffsets, EndOffsets,         \* options -S and -E
  InterleavedSizes, XorBits         \* bounds: banks

ThpSize == PagesPerTHP * PageSize

AllMemory == Base .. Base + NTHPs * ThpSize - 1

Bit(a, i) == (a \div 2^i) % 2

(* the banks of addresses, by functions of the address *)
BankFunctions ==
  {[a \in AllMemory |-> (a \div s) % n] : s \in InterleavedSizes, n \in {2, 4}}
    \cup {[a \in AllMemory |-> (Bit(a, i) + Bit(a, i + 1)) % 2] : i \in XorBits}

(* A row for each address: when rows repeat, the comparisons with random   *)
(* members have too many outcomes for this composition (see BankGrouping). *)
AllCells == {[a \in AllMemory |-> <<bank[a], a>>] : bank \in BankFunctions}

AllMemories == [cells : AllCells, wrong : {0}]

(* the second THP first, and the rest in order *)
SecondFirst ==
  {[t \in 1 .. NTHPs |-> Base + ThpSize * (IF t <= 2 THEN 2 - t ELSE t - 1)]}

AllOptions ==
  [initialBlockSize : InitialSizes \cup OddSizes, blockSize : WantedSizes,
   minimumBlockSize : MinimumSizes, startOffset : StartOffsets, endOffset : EndOffsets]

=============================================================================
