---------------------------- MODULE BankGrouping ----------------------------
(***************************************************************************)
(* Grouping addresses by bank: main adds the blocks of the initial THPs to *)
(* the bank group, regroups all of them until the number of groups is a    *)
(* power of two, and then adds the blocks of further THPs to the groups it *)
(* has (amdre.cpp with bankGroup.cpp and addressGroup.cpp).  The phase in  *)
(* which the block size changes lies between and is left out: it does      *)
(* nothing when option -B names the initial block size.                    *)
(***************************************************************************)
EXTENDS AddressGroups

CONSTANTS
  NInitialTHPs,     \* option -i
  NAdditionalTHPs,  \* option -a
  StartBlock,       \* option -S, the first block of a THP that is grouped
  EndBlock,         \* option -E in blocks, the first that no longer is
  Layouts           \* where the memory controller may put the addresses, and
                    \* how much of a comparison may go wrong

NTHPs == NInitialTHPs + NAdditionalTHPs

Addresses == (0 .. NTHPs - 1) \X (StartBlock .. EndBlock - 1)

ASSUME GroupingAssumption ==
  /\ NInitialTHPs \in Nat /\ NAdditionalTHPs \in Nat
  /\ StartBlock \in Nat /\ EndBlock \in Nat
  /\ \A layout \in Layouts :
       /\ layout.cells \in [Addresses -> Nat \X Nat]
       /\ layout.wrong \in Nat

VARIABLES
  phase,      \* "fill", "regroup", "add" or "done": where main is
  thp, block, \* the THP and the block that is offered next
  held,       \* addresses of the erased group that are not yet back
  toRegroup,  \* addressGroupSize - idx: groups still to be taken apart
  nErrors

vars == <<dram, groups, phase, thp, block, held, toRegroup, nErrors>>

-----------------------------------------------------------------------------

Init ==
  /\ dram \in Layouts
  /\ groups = << >>
  /\ phase = "fill"
  /\ thp = 0 /\ block = StartBlock
  /\ held = << >> /\ toRegroup = 0
  /\ nErrors = 0

(* One turn of the loop of addTHPToBankGroup, for an initial THP *)
AddBlock ==
  /\ phase = "fill" /\ thp < NInitialTHPs /\ block < EndBlock
  /\ AddAddress(<<thp, block>>)
  /\ block' = block + 1
  /\ UNCHANGED <<dram, phase, thp, held, toRegroup, nErrors>>

(* The same for an additional THP: no new groups, and errors are counted *)
AddBlockToExisting ==
  /\ phase = "add" /\ thp < NTHPs /\ block < EndBlock
  /\ \E added \in BOOLEAN :
       /\ AddToExisting(<<thp, block>>, added)
       /\ nErrors' = IF added THEN nErrors ELSE nErrors + 1
  /\ block' = block + 1
  /\ UNCHANGED <<dram, phase, thp, held, toRegroup>>

NextTHP ==
  /\ \/ phase = "fill" /\ thp < NInitialTHPs
     \/ phase = "add" /\ thp < NTHPs
  /\ block >= EndBlock
  /\ thp' = thp + 1
  /\ block' = StartBlock
  /\ UNCHANGED <<dram, groups, phase, held, toRegroup, nErrors>>

(* regroupAllAddresses reads the number of groups once, when it starts. *)
StartRegrouping ==
  /\ phase = "fill" /\ thp >= NInitialTHPs
  /\ phase' = "regroup"
  /\ toRegroup' = Len(groups)
  /\ UNCHANGED <<dram, groups, thp, block, held, nErrors>>

(* A variant of MoreToRegroup that empties the vector. *)
MoreGroups == groups # << >>

MoreToRegroup == toRegroup > 0

EraseFirstGroup ==
  /\ phase = "regroup" /\ held = << >> /\ MoreToRegroup
  /\ held' = Head(groups)
  /\ groups' = Tail(groups)
  /\ toRegroup' = toRegroup - 1
  /\ UNCHANGED <<dram, phase, thp, block, nErrors>>

ReAddAddress ==
  /\ phase = "regroup" /\ held # << >>
  /\ AddAddress(Head(held))
  /\ held' = Tail(held)
  /\ UNCHANGED <<dram, phase, thp, block, toRegroup, nErrors>>

(* banksLookPlausible, and the next round of main's loop when they do not *)
TestPlausible ==
  /\ phase = "regroup" /\ held = << >> /\ toRegroup = 0
  /\ IF IsNumberPowerOfTwo(Len(groups))
     THEN phase' = "add" /\ UNCHANGED toRegroup
     ELSE toRegroup' = Len(groups) /\ UNCHANGED phase
  /\ UNCHANGED <<dram, groups, thp, block, held, nErrors>>

Finish ==
  /\ phase = "add" /\ thp >= NTHPs
  /\ phase' = "done"
  /\ UNCHANGED <<dram, groups, thp, block, held, toRegroup, nErrors>>

Next ==
  \/ AddBlock \/ AddBlockToExisting \/ NextTHP \/ StartRegrouping
  \/ EraseFirstGroup \/ ReAddAddress \/ TestPlausible \/ Finish

(* One thread, which never stops by itself. *)
Spec == Init /\ [][Next]_vars /\ WF_vars(Next)

-----------------------------------------------------------------------------

TypeOK ==
  /\ dram \in Layouts
  /\ groups \in Seq(Seq(Addresses))
  /\ phase \in {"fill", "regroup", "add", "done"}
  /\ thp \in 0 .. NTHPs
  /\ block \in Nat /\ block >= StartBlock
  /\ held \in Seq(Addresses)
  /\ toRegroup \in Nat
  /\ nErrors \in Nat

Offered == {a \in Addresses : a[1] < thp \/ (a[1] = thp /\ a[2] < block)}

Grouped == UNION {{groups[k][i] : i \in DOMAIN groups[k]} : k \in DOMAIN groups}

Held == {held[i] : i \in DOMAIN held}

BanksOf(addresses) == {Bank(a) : a \in addresses}

(* No address is lost while groups are taken apart and put together again, *)
(* and the errors main reports for the additional THPs are exactly the     *)
(* addresses that are in no group.                                         *)
EveryAddressAccounted ==
  /\ Grouped \cup Held \subseteq Offered
  /\ Cardinality(Offered \ (Grouped \cup Held)) = nErrors

(* No address is in two places at once, in two groups or twice in one.     *)
NoAddressTwice ==
  /\ \A k, l \in DOMAIN groups : \A i \in DOMAIN groups[k], j \in DOMAIN groups[l] :
       groups[k][i] = groups[l][j] => k = l /\ i = j
  /\ \A i, j \in DOMAIN held : held[i] = held[j] => i = j
  /\ Grouped \cap Held = {}

(* Every group that is measured has an address to measure and every group  *)
(* that is taken apart exists: neither compareAddressTiming nor            *)
(* regroupAllAddresses reads an element that is not there.                 *)
NoEmptyGroup ==
  /\ \A k \in DOMAIN groups : groups[k] # << >>
  /\ toRegroup <= Len(groups)

(* Without wrong measurements the addresses of a group are all in one      *)
(* bank, at any moment, whichever members the comparisons sample and       *)
(* however rows repeat.                                                    *)
Homogeneous ==
  MaxWrong = 0 =>
    \A k \in DOMAIN groups : \A i, j \in DOMAIN groups[k] :
      Bank(groups[k][i]) = Bank(groups[k][j])

InitialBanks == BanksOf({a \in Addresses : a[1] < NInitialTHPs})

(* So the number of banks that main settles on is never too small.         *)
NoBankMissed ==
  MaxWrong = 0 /\ phase \in {"add", "done"} =>
    Len(groups) >= Cardinality(InitialBanks)

DistinctRows == \A a, b \in Addresses : a # b /\ Bank(a) = Bank(b) => Row(a) # Row(b)

(* When each address of a bank has a row of its own, a bank never has two  *)
(* groups, not even halfway through a regrouping: an address that comes    *)
(* back finds the group of its bank, the new one included.                 *)
OneGroupPerBank ==
  MaxWrong = 0 /\ DistinctRows =>
    \A k, l \in DOMAIN groups : Bank(groups[k][1]) = Bank(groups[l][1]) => k = l

(* The median shields a group from wrong measurements: as long as they are *)
(* no more than half of a sample, no address joins a group that has no     *)
(* address of its own bank.                                                *)
MedianHolds ==
  [][\A k \in DOMAIN groups :
       (/\ NCompare >= 2 * MaxWrong /\ Len(groups[k]) >= 2 * MaxWrong
        /\ Len(groups') >= Len(groups) /\ Len(groups'[k]) = Len(groups[k]) + 1
        /\ SubSeq(groups'[k], 1, Len(groups[k])) = groups[k])
       => Bank(groups'[k][Len(groups'[k])]) \in
            {Bank(groups[k][i]) : i \in DOMAIN groups[k]}]_vars

(* When rows are distinct, nothing is measured wrong and the number of     *)
(* banks is a power of two, the loop of main that regroups comes to an end *)
(* and every additional address of such a bank finds its group.            *)
GroupingEnds ==
  MaxWrong = 0 /\ DistinctRows /\ IsNumberPowerOfTwo(Cardinality(InitialBanks))
    => <>(phase = "done" /\ (InitialBanks = BanksOf(Addresses) => nErrors = 0))

=============================================================================
