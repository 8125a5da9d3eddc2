--------------------------- MODULE AddressGroups ---------------------------
(***************************************************************************)
(* The bank group as a data structure: a vector of groups of addresses,    *)
(* and the comparison that finds the group of an address by measuring row  *)
(* conflicts (bankGroup.cpp, addressGroup.cpp).  The memory is external:   *)
(* it gives each address a bank and a row, which only timing reveals.      *)
(***************************************************************************)
EXTENDS Integers, Sequences, FiniteSets

CONSTANT NCompare   \* option -c, addresses compared per group

ASSUME ComparisonAssumption == NCompare \in Nat \ {0}

VARIABLES
  dram,    \* the bank and row of each address, never known to amdre, and how
           \* many measurements of one comparison may be wrong
  groups   \* addressGroups: a sequence of sequences of addresses

IsNumberPowerOfTwo(number) == \E i \in 0 .. number : number = 2^i

Bank(a)  == dram.cells[a][1]
Row(a)   == dram.cells[a][2]
MaxWrong == dram.wrong

Conflict(a, b) == Bank(a) = Bank(b) /\ Row(a) # Row(b)

(* getRandomIndices: any NCompare members, or all when there are fewer. *)
Samples(group) ==
  {s \in SUBSET DOMAIN group :
     Cardinality(s) = IF NCompare < Len(group) THEN NCompare ELSE Len(group)}

Conflicts(a, group, sample) == Cardinality({i \in sample : Conflict(a, group[i])})

(* A variant of MayConflict that takes the element before the median. *)
MayConflictBelowMedian(a, group) ==
  \E s \in Samples(group) : Conflicts(a, group, s) + MaxWrong >= Cardinality(s) \div 2

(* compareAddressTiming returns the element size/2 of the times in falling *)
(* order: it reaches the threshold when more than size/2 of them do.       *)
MayConflict(a, group) ==
  \E s \in Samples(group) : Conflicts(a, group, s) + MaxWrong > Cardinality(s) \div 2

MayMiss(a, group) ==
  \E s \in Samples(group) : Conflicts(a, group, s) - MaxWrong <= Cardinality(s) \div 2

(* A variant of BankIndices that gives up at the first group that misses.  *)
BankIndicesOfFirst(a) ==
  {k \in DOMAIN groups : MayConflict(a, groups[k])}
    \cup {k \in {0} : groups = << >> \/ \E j \in DOMAIN groups : MayMiss(a, groups[j])}

(* getBankIndexForAddress: any group whose time can be the largest; 0      *)
(* stands for -1.  A retry measures again and adds no other outcome.       *)
BankIndices(a) ==
  {k \in DOMAIN groups : MayConflict(a, groups[k])}
    \cup {k \in {0} : \A j \in DOMAIN groups : MayMiss(a, groups[j])}

(* A variant of Joined by which caller and callee both add the address. *)
JoinedTwice(a, k) == [groups EXCEPT ![k] = @ \o <<a, a>>]

Joined(a, k) == [groups EXCEPT ![k] = Append(@, a)]

(* A variant of AddAddress whose new group is empty. *)
AddEmptyGroup(a) ==
  \E k \in BankIndices(a) :
    groups' = IF k = 0 THEN Append(groups, << >>) ELSE Joined(a, k)

(* addAddressToBankGroup(a, true) *)
AddAddress(a) ==
  \E k \in BankIndices(a) :
    groups' = IF k = 0 THEN Append(groups, <<a>>) ELSE Joined(a, k)

(* A variant of AddToExisting that does not notice that an address was     *)
(* left out.                                                               *)
AddUnnoticed(a, added) ==
  \E k \in BankIndices(a) :
    groups' = (IF k = 0 THEN groups ELSE Joined(a, k)) /\ added = TRUE

(* addAddressToBankGroup(a, false), and whether the address was added *)
AddToExisting(a, added) ==
  \E k \in BankIndices(a) :
    /\ groups' = IF k = 0 THEN groups ELSE Joined(a, k)
    /\ added = (k # 0)

=============================================================================
