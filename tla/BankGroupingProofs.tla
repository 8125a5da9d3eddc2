------------------------- MODULE BankGroupingProofs -------------------------
(***************************************************************************)
(* Proofs about BankGrouping for any memory layout, any number of THPs and *)
(* blocks, any number of compared addresses and any noise.                 *)
(***************************************************************************)
EXTENDS BankGrouping, FiniteSetTheorems, TLAPS

(* The types, the shape of the groups and, without noise, their banks. *)
IInv == TypeOK /\ NoEmptyGroup /\ Homogeneous

-----------------------------------------------------------------------------
(* Comparing an address with a group. *)

(* A majority of conflicts that wrong measurements alone cannot make up    *)
(* needs a real conflict, hence an address of the same bank.               *)
LEMMA JoinsOwnBank ==
  ASSUME NEW a, NEW group \in Seq(Addresses), MayConflict(a, group), MaxWrong \in Nat,
         NCompare >= 2 * MaxWrong, Len(group) >= 2 * MaxWrong
  PROVE  \E i \in DOMAIN group : Bank(group[i]) = Bank(a)
<1>1. PICK s \in Samples(group) : Conflicts(a, group, s) + MaxWrong > Cardinality(s) \div 2
  BY DEF MayConflict
<1> DEFINE real == {i \in s : Conflict(a, group[i])}
<1>2. s \subseteq 1 .. Len(group) /\ Len(group) \in Nat
  BY DEF Samples
<1>3. IsFiniteSet(s) /\ Cardinality(s) \in Nat
  <2>1. IsFiniteSet(1 .. Len(group))
    BY <1>2, FS_Interval
  <2>2. IsFiniteSet(s)
    BY <1>2, <2>1, FS_Subset
  <2>3. QED
    BY <2>2, FS_CardinalityType
<1>4. Cardinality(s) >= 2 * MaxWrong
  BY <1>2 DEF Samples
<1>5. Cardinality(s) \div 2 >= MaxWrong
  BY <1>3, <1>4, ComparisonAssumption
<1>6. Cardinality(real) > 0
  <2>1. IsFiniteSet(real)
    BY <1>3, FS_Subset
  <2>2. Cardinality(real) \in Nat
    BY <2>1, FS_CardinalityType
  <2>3. QED
    BY <1>1, <1>3, <1>5, <2>2, ComparisonAssumption DEF Conflicts
<1>7. PICK i \in s : Conflict(a, group[i])
  <2>1. Cardinality({}) = 0
    BY FS_EmptySet
  <2>2. real # {}
    <3>1. ASSUME real = {}
          PROVE  FALSE
      <4> HIDE DEF real
      <4>1. Cardinality(real) = 0
        BY <2>1, <3>1
      <4>2. QED
        BY <1>6, <4>1
    <3>2. QED
      BY <3>1
  <2>3. QED
    BY <2>2
<1>8. i \in DOMAIN group
  BY <1>2
<1>9. QED
  BY <1>7, <1>8 DEF Conflict

(* addAddressToBankGroup: a new group for the address alone, or a group    *)
(* that the address conflicts with.                                        *)
Placed(a) ==
  \/ groups' = Append(groups, <<a>>)
  \/ \E k \in DOMAIN groups : groups' = Joined(a, k) /\ MayConflict(a, groups[k])

LEMMA AddPlaces ==
  ASSUME NEW a, AddAddress(a)
  PROVE  Placed(a)
BY DEF AddAddress, BankIndices, Placed

LEMMA AddToExistingPlaces ==
  ASSUME NEW a, NEW added, AddToExisting(a, added),
         nErrors' = IF added THEN nErrors ELSE nErrors + 1
  PROVE  \/ UNCHANGED groups /\ nErrors' = nErrors + 1
         \/ UNCHANGED nErrors /\ \E k \in DOMAIN groups :
              groups' = Joined(a, k) /\ MayConflict(a, groups[k])
BY DEF AddToExisting, BankIndices

(* The sequence of groups after one of them has got an address. *)
LEMMA JoinedGroups ==
  ASSUME groups \in Seq(Seq(Addresses)), NEW a \in Addresses, NEW k \in DOMAIN groups
  PROVE  /\ Joined(a, k) \in Seq(Seq(Addresses))
         /\ Len(Joined(a, k)) = Len(groups)
         /\ DOMAIN Joined(a, k) = DOMAIN groups
         /\ \A l \in DOMAIN groups \ {k} : Joined(a, k)[l] = groups[l]
         /\ Joined(a, k)[k] = Append(groups[k], a)
         /\ Len(Joined(a, k)[k]) = Len(groups[k]) + 1
         /\ \A i \in DOMAIN groups[k] : Joined(a, k)[k][i] = groups[k][i]
         /\ Joined(a, k)[k][Len(groups[k]) + 1] = a
BY DEF Joined

-----------------------------------------------------------------------------
(* Every step keeps the types. *)

LEMMA InitInv == Init => IInv
BY GroupingAssumption DEF Init, IInv, TypeOK, NoEmptyGroup, Homogeneous, NTHPs

LEMMA OfferedBlock ==
  ASSUME TypeOK, thp < NTHPs, block < EndBlock
  PROVE  <<thp, block>> \in Addresses
BY GroupingAssumption DEF TypeOK, Addresses, NTHPs

LEMMA PlacedType ==
  ASSUME TypeOK, NEW a \in Addresses, Placed(a)
  PROVE  /\ groups' \in Seq(Seq(Addresses))
         /\ Len(groups') >= Len(groups)
<1>1. groups \in Seq(Seq(Addresses))
  BY DEF TypeOK
<1>2. CASE groups' = Append(groups, <<a>>)
  <2>1. <<a>> \in Seq(Addresses)
    OBVIOUS
  <2>2. QED
    BY <1>1, <1>2, <2>1
<1>3. CASE \E k \in DOMAIN groups : groups' = Joined(a, k)
  BY <1>1, <1>3, JoinedGroups
<1>4. QED
  BY <1>2, <1>3 DEF Placed

LEMMA NextType == TypeOK /\ NoEmptyGroup /\ [Next]_vars => TypeOK'
<1> SUFFICES ASSUME TypeOK, NoEmptyGroup, [Next]_vars
             PROVE  TypeOK'
  OBVIOUS
<1> USE GroupingAssumption DEF TypeOK
<1>1. CASE AddBlock
  <2>1. <<thp, block>> \in Addresses
    BY <1>1, OfferedBlock DEF AddBlock, NTHPs
  <2>2. groups' \in Seq(Seq(Addresses))
    BY <1>1, <2>1, AddPlaces, PlacedType DEF AddBlock
  <2>3. QED
    BY <1>1, <2>2 DEF AddBlock
<1>2. CASE AddBlockToExisting
  <2>1. <<thp, block>> \in Addresses
    BY <1>2, OfferedBlock DEF AddBlockToExisting
  <2>2. \/ UNCHANGED groups /\ nErrors' = nErrors + 1
        \/ UNCHANGED nErrors /\ \E k \in DOMAIN groups : groups' = Joined(<<thp, block>>, k)
    BY <1>2, AddToExistingPlaces DEF AddBlockToExisting
  <2>3. groups' \in Seq(Seq(Addresses)) /\ nErrors' \in Nat
    <3>1. groups \in Seq(Seq(Addresses)) /\ nErrors \in Nat
      OBVIOUS
    <3>2. ASSUME NEW k \in DOMAIN groups
          PROVE  Joined(<<thp, block>>, k) \in Seq(Seq(Addresses))
      BY <2>1, <3>1, JoinedGroups
    <3>3. CASE UNCHANGED groups /\ nErrors' = nErrors + 1
      BY <3>1, <3>3
    <3>4. CASE UNCHANGED nErrors /\ \E k \in DOMAIN groups : groups' = Joined(<<thp, block>>, k)
      BY <3>1, <3>2, <3>4
    <3>5. QED
      BY <2>2, <3>3, <3>4
  <2>4. QED
    BY <1>2, <2>3 DEF AddBlockToExisting
<1>3. CASE NextTHP
  BY <1>3 DEF NextTHP, NTHPs
<1>4. CASE StartRegrouping
  BY <1>4 DEF StartRegrouping
<1>5. CASE EraseFirstGroup
  <2>1. groups # << >>
    BY <1>5 DEF EraseFirstGroup, MoreToRegroup, NoEmptyGroup
  <2>2. held' \in Seq(Addresses) /\ groups' \in Seq(Seq(Addresses))
    BY <1>5, <2>1 DEF EraseFirstGroup, MoreToRegroup
  <2>3. QED
    BY <1>5, <2>2 DEF EraseFirstGroup, MoreToRegroup
<1>6. CASE ReAddAddress
  <2>1. Head(held) \in Addresses /\ held' \in Seq(Addresses)
    BY <1>6 DEF ReAddAddress
  <2>2. groups' \in Seq(Seq(Addresses))
    BY <1>6, <2>1, AddPlaces, PlacedType DEF ReAddAddress
  <2>3. QED
    BY <1>6, <2>1, <2>2 DEF ReAddAddress
<1>7. CASE TestPlausible
  BY <1>7 DEF TestPlausible
<1>8. CASE Finish \/ UNCHANGED vars
  BY <1>8 DEF Finish, vars
<1>9. QED
  BY <1>1, <1>2, <1>3, <1>4, <1>5, <1>6, <1>7, <1>8 DEF Next

-----------------------------------------------------------------------------
(* Every step keeps the groups non-empty and, without noise, homogeneous.  *)

(* What can happen to the groups in one step. *)
GroupsStep ==
  \/ UNCHANGED groups
  \/ groups # << >> /\ groups' = Tail(groups)
  \/ \E a \in Addresses : Placed(a)

LEMMA NextGroups == TypeOK /\ NoEmptyGroup /\ [Next]_vars => GroupsStep
<1> SUFFICES ASSUME TypeOK, NoEmptyGroup, [Next]_vars
             PROVE  GroupsStep
  OBVIOUS
<1>1. CASE AddBlock
  <2>1. <<thp, block>> \in Addresses
    BY <1>1, OfferedBlock, GroupingAssumption DEF AddBlock, NTHPs, TypeOK
  <2>2. Placed(<<thp, block>>)
    BY <1>1, AddPlaces DEF AddBlock
  <2>3. QED
    BY <2>1, <2>2 DEF GroupsStep
<1>2. CASE AddBlockToExisting
  <2>1. <<thp, block>> \in Addresses
    BY <1>2, OfferedBlock DEF AddBlockToExisting
  <2>2. UNCHANGED groups \/ Placed(<<thp, block>>)
    BY <1>2, AddToExistingPlaces DEF AddBlockToExisting, Placed
  <2>3. QED
    BY <2>1, <2>2 DEF GroupsStep
<1>3. CASE EraseFirstGroup
  <2>1. groups # << >>
    BY <1>3 DEF EraseFirstGroup, MoreToRegroup, NoEmptyGroup, TypeOK
  <2>2. QED
    BY <1>3, <2>1 DEF EraseFirstGroup, MoreToRegroup, GroupsStep
<1>4. CASE ReAddAddress
  <2>1. Head(held) \in Addresses
    BY <1>4 DEF ReAddAddress, TypeOK
  <2>2. Placed(Head(held))
    BY <1>4, AddPlaces DEF ReAddAddress
  <2>3. QED
    BY <2>1, <2>2 DEF GroupsStep
<1>5. CASE NextTHP \/ StartRegrouping \/ TestPlausible \/ Finish \/ UNCHANGED vars
  BY <1>5 DEF NextTHP, StartRegrouping, TestPlausible, Finish, vars, GroupsStep
<1>6. QED
  BY <1>1, <1>2, <1>3, <1>4, <1>5 DEF Next

(* toRegroup never exceeds the groups there are: it is set to their number *)
(* and falls with each group that is erased, while additions only append.  *)
LEMMA NextToRegroup ==
  TypeOK /\ NoEmptyGroup /\ [Next]_vars => toRegroup' <= Len(groups')
<1> SUFFICES ASSUME TypeOK, NoEmptyGroup, [Next]_vars
             PROVE  toRegroup' <= Len(groups')
  OBVIOUS
<1>0. toRegroup <= Len(groups) /\ toRegroup \in Nat /\ groups \in Seq(Seq(Addresses))
  BY DEF NoEmptyGroup, TypeOK
<1>1. CASE EraseFirstGroup
  <2>1. toRegroup > 0 /\ toRegroup' = toRegroup - 1 /\ groups' = Tail(groups)
    BY <1>1 DEF EraseFirstGroup, MoreToRegroup
  <2>2. groups # << >>
    BY <1>0, <2>1
  <2>3. Len(groups') = Len(groups) - 1
    BY <1>0, <2>1, <2>2
  <2>4. QED
    BY <1>0, <2>1, <2>3
<1>2. CASE ReAddAddress
  <2>1. Head(held) \in Addresses /\ Placed(Head(held))
    BY <1>2, AddPlaces DEF ReAddAddress, TypeOK
  <2>2. Len(groups') >= Len(groups) /\ groups' \in Seq(Seq(Addresses))
    BY <2>1, PlacedType
  <2>3. QED
    BY <1>0, <1>2, <2>2 DEF ReAddAddress
<1>3. CASE AddBlock
  <2>1. <<thp, block>> \in Addresses /\ Placed(<<thp, block>>)
    BY <1>3, OfferedBlock, AddPlaces, GroupingAssumption DEF AddBlock, NTHPs, TypeOK
  <2>2. Len(groups') >= Len(groups) /\ groups' \in Seq(Seq(Addresses))
    BY <2>1, PlacedType
  <2>3. QED
    BY <1>0, <1>3, <2>2 DEF AddBlock
<1>4. CASE AddBlockToExisting
  <2>1. <<thp, block>> \in Addresses
    BY <1>4, OfferedBlock DEF AddBlockToExisting
  <2>2. UNCHANGED groups \/ \E k \in DOMAIN groups : groups' = Joined(<<thp, block>>, k)
    BY <1>4, AddToExistingPlaces DEF AddBlockToExisting
  <2>3. Len(groups') = Len(groups)
    BY <1>0, <2>1, <2>2, JoinedGroups
  <2>4. QED
    BY <1>0, <1>4, <2>3 DEF AddBlockToExisting
<1>5. CASE StartRegrouping \/ TestPlausible
  BY <1>0, <1>5 DEF StartRegrouping, TestPlausible
<1>6. CASE NextTHP \/ Finish \/ UNCHANGED vars
  BY <1>0, <1>6 DEF NextTHP, Finish, vars
<1>7. QED
  BY <1>1, <1>2, <1>3, <1>4, <1>5, <1>6 DEF Next

LEMMA NextNonEmpty == TypeOK /\ NoEmptyGroup /\ [Next]_vars => NoEmptyGroup'
<1> SUFFICES ASSUME TypeOK, NoEmptyGroup, [Next]_vars
             PROVE  \A k \in DOMAIN groups' : groups'[k] # << >>
  BY NextToRegroup DEF NoEmptyGroup
<1>0. groups \in Seq(Seq(Addresses)) /\ \A k \in DOMAIN groups : groups[k] # << >>
  BY DEF TypeOK, NoEmptyGroup
<1>1. CASE UNCHANGED groups
  BY <1>0, <1>1
<1>2. CASE groups # << >> /\ groups' = Tail(groups)
  BY <1>0, <1>2
<1>3. ASSUME NEW a \in Addresses, groups' = Append(groups, <<a>>)
      PROVE  \A k \in DOMAIN groups' : groups'[k] # << >>
  BY <1>0, <1>3
<1>4. ASSUME NEW a \in Addresses, NEW l \in DOMAIN groups, groups' = Joined(a, l)
      PROVE  \A k \in DOMAIN groups' : groups'[k] # << >>
  <2>1. /\ DOMAIN groups' = DOMAIN groups
        /\ \A k \in DOMAIN groups \ {l} : groups'[k] = groups[k]
        /\ groups'[l] = Append(groups[l], a)
    BY <1>0, <1>4, JoinedGroups
  <2>2. groups[l] \in Seq(Addresses)
    BY <1>0
  <2>3. groups'[l] # << >>
    BY <2>1, <2>2
  <2>4. QED
    BY <1>0, <2>1, <2>3
<1>5. QED
  BY <1>1, <1>2, <1>3, <1>4, NextGroups DEF GroupsStep, Placed

LEMMA WrongTyped == ASSUME TypeOK PROVE MaxWrong \in Nat
  BY GroupingAssumption DEF TypeOK, MaxWrong

LEMMA LayoutFixed == [Next]_vars => dram' = dram
<1> SUFFICES ASSUME [Next]_vars
             PROVE  dram' = dram
  OBVIOUS
<1>1. CASE AddBlock \/ AddBlockToExisting
  BY <1>1 DEF AddBlock, AddBlockToExisting
<1>2. CASE EraseFirstGroup \/ ReAddAddress
  BY <1>2 DEF EraseFirstGroup, ReAddAddress
<1>3. CASE NextTHP \/ StartRegrouping \/ TestPlausible \/ Finish \/ UNCHANGED vars
  BY <1>3 DEF NextTHP, StartRegrouping, TestPlausible, Finish, vars
<1>4. QED
  BY <1>1, <1>2, <1>3 DEF Next

LEMMA NextHomogeneous == IInv /\ [Next]_vars => Homogeneous'
<1> SUFFICES ASSUME IInv, [Next]_vars, MaxWrong = 0
             PROVE  \A k \in DOMAIN groups' : \A i, j \in DOMAIN groups'[k] :
                      Bank(groups'[k][i]) = Bank(groups'[k][j])
  BY LayoutFixed DEF Homogeneous, Bank, MaxWrong
<1>0. /\ groups \in Seq(Seq(Addresses))
      /\ \A k \in DOMAIN groups : \A i, j \in DOMAIN groups[k] :
           Bank(groups[k][i]) = Bank(groups[k][j])
  BY DEF IInv, TypeOK, Homogeneous
<1>1. CASE UNCHANGED groups
  BY <1>0, <1>1
<1>2. CASE groups # << >> /\ groups' = Tail(groups)
  <2>1. \A k \in DOMAIN groups' : k + 1 \in DOMAIN groups /\ groups'[k] = groups[k + 1]
    BY <1>0, <1>2
  <2>2. QED
    BY <1>0, <2>1
<1>3. ASSUME NEW a \in Addresses, groups' = Append(groups, <<a>>)
      PROVE  \A k \in DOMAIN groups' : \A i, j \in DOMAIN groups'[k] :
               Bank(groups'[k][i]) = Bank(groups'[k][j])
  <2>1. /\ DOMAIN groups' = DOMAIN groups \cup {Len(groups) + 1}
        /\ \A k \in DOMAIN groups : groups'[k] = groups[k]
        /\ groups'[Len(groups) + 1] = <<a>>
    BY <1>0, <1>3
  <2>2. \A i, j \in DOMAIN <<a>> : <<a>>[i] = <<a>>[j]
    OBVIOUS
  <2>3. QED
    BY <1>0, <2>1, <2>2
<1>4. ASSUME NEW a \in Addresses, NEW l \in DOMAIN groups,
             groups' = Joined(a, l), MayConflict(a, groups[l])
      PROVE  \A k \in DOMAIN groups' : \A i, j \in DOMAIN groups'[k] :
               Bank(groups'[k][i]) = Bank(groups'[k][j])
  <2> DEFINE n == Len(groups[l]) + 1
  <2>1. groups[l] \in Seq(Addresses)
    BY <1>0
  <2>2. PICK m \in DOMAIN groups[l] : Bank(groups[l][m]) = Bank(a)
    BY <1>4, <2>1, JoinsOwnBank, ComparisonAssumption, WrongTyped DEF IInv
  <2>3. /\ DOMAIN groups' = DOMAIN groups
        /\ \A k \in DOMAIN groups \ {l} : groups'[k] = groups[k]
        /\ groups'[l] = Append(groups[l], a)
    BY <1>0, <1>4, JoinedGroups
  <2>4. /\ DOMAIN groups'[l] = DOMAIN groups[l] \cup {n}
        /\ \A i \in DOMAIN groups[l] : groups'[l][i] = groups[l][i]
        /\ groups'[l][n] = a
    BY <2>1, <2>3
  <2>5. \A i \in DOMAIN groups'[l] : Bank(groups'[l][i]) = Bank(a)
    BY <1>0, <2>2, <2>4
  <2>6. \A k \in DOMAIN groups \ {l} : \A i, j \in DOMAIN groups'[k] :
          Bank(groups'[k][i]) = Bank(groups'[k][j])
    BY <1>0, <2>3
  <2>7. \A i, j \in DOMAIN groups'[l] : Bank(groups'[l][i]) = Bank(groups'[l][j])
    BY <2>5
  <2>8. QED
    BY <2>3, <2>6, <2>7
<1>5. QED
  BY <1>1, <1>2, <1>3, <1>4, NextGroups DEF GroupsStep, Placed, IInv

LEMMA NextInv == IInv /\ [Next]_vars => IInv'
BY NextType, NextNonEmpty, NextHomogeneous DEF IInv

LEMMA Invariance == Spec => []IInv
BY InitInv, NextInv, PTL DEF Spec

-----------------------------------------------------------------------------
(* The theorems. *)

(* Grouping keeps its types. *)
THEOREM GroupingTyped == Spec => []TypeOK
BY Invariance, PTL DEF IInv

(* No empty group is ever compared with, and no group is erased that is    *)
(* not there, whatever is measured.                                        *)
THEOREM GroupingNeverEmpty == Spec => []NoEmptyGroup
BY Invariance, PTL DEF IInv

(* Without wrong measurements every group stays within one bank, for every *)
(* layout of the memory and every choice of the compared addresses.        *)
THEOREM GroupingHomogeneous == Spec => []Homogeneous
BY Invariance, PTL DEF IInv

-----------------------------------------------------------------------------
(* Accounting for the addresses. *)

LEMMA GroupedElements ==
  \A x : x \in Grouped <=> \E k \in DOMAIN groups : \E i \in DOMAIN groups[k] : groups[k][i] = x
BY DEF Grouped

LEMMA GroupedPlaced ==
  ASSUME TypeOK, NEW a \in Addresses, Placed(a)
  PROVE  Grouped' = Grouped \cup {a}
<1>0. groups \in Seq(Seq(Addresses))
  BY DEF TypeOK
<1>1. \A x : x \in Grouped' <=>
        \E k \in DOMAIN groups' : \E i \in DOMAIN groups'[k] : groups'[k][i] = x
  BY DEF Grouped
<1>2. CASE groups' = Append(groups, <<a>>)
  <2>1. /\ DOMAIN groups' = DOMAIN groups \cup {Len(groups) + 1}
        /\ \A k \in DOMAIN groups : groups'[k] = groups[k]
        /\ groups'[Len(groups) + 1] = <<a>>
    BY <1>0, <1>2
  <2>2. DOMAIN <<a>> = {1} /\ <<a>>[1] = a
    OBVIOUS
  <2>3. \A x : x \in Grouped' <=> x \in Grouped \/ x = a
    BY <1>1, <2>1, <2>2, GroupedElements
  <2>4. QED
    BY <2>3
<1>3. ASSUME NEW l \in DOMAIN groups, groups' = Joined(a, l)
      PROVE  Grouped' = Grouped \cup {a}
  <2>1. groups[l] \in Seq(Addresses)
    BY <1>0
  <2>2. /\ DOMAIN groups' = DOMAIN groups
        /\ \A k \in DOMAIN groups \ {l} : groups'[k] = groups[k]
        /\ groups'[l] = Append(groups[l], a)
    BY <1>0, <1>3, JoinedGroups
  <2>3. /\ DOMAIN groups'[l] = DOMAIN groups[l] \cup {Len(groups[l]) + 1}
        /\ \A i \in DOMAIN groups[l] : groups'[l][i] = groups[l][i]
        /\ groups'[l][Len(groups[l]) + 1] = a
    BY <2>1, <2>2
  <2>4. \A x : x \in Grouped' <=> x \in Grouped \/ x = a
    BY <1>1, <2>2, <2>3, GroupedElements
  <2>5. QED
    BY <2>4
<1>4. QED
  BY <1>2, <1>3 DEF Placed

LEMMA GroupedErased ==
  ASSUME TypeOK, groups # << >>, groups' = Tail(groups), held' = Head(groups)
  PROVE  Grouped' \cup Held' = Grouped
<1>0. groups \in Seq(Seq(Addresses))
  BY DEF TypeOK
<1>1. \A x : x \in Grouped' <=>
        \E k \in DOMAIN groups' : \E i \in DOMAIN groups'[k] : groups'[k][i] = x
  BY DEF Grouped
<1>2. \A x : x \in Held' <=> \E i \in DOMAIN groups[1] : groups[1][i] = x
  BY <1>0 DEF Held
<1>3. /\ \A k \in DOMAIN groups' : k + 1 \in DOMAIN groups /\ groups'[k] = groups[k + 1]
      /\ \A k \in DOMAIN groups \ {1} : k - 1 \in DOMAIN groups' /\ groups'[k - 1] = groups[k]
      /\ 1 \in DOMAIN groups
  BY <1>0
<1>4. \A x : x \in Grouped' \cup Held' <=> x \in Grouped
  BY <1>1, <1>2, <1>3, GroupedElements
<1>5. QED
  BY <1>4

LEMMA HeldReAdded ==
  ASSUME TypeOK, held # << >>, held' = Tail(held)
  PROVE  Held = {Head(held)} \cup Held'
<1>0. held \in Seq(Addresses)
  BY DEF TypeOK
<1>1. /\ \A i \in DOMAIN held' : i + 1 \in DOMAIN held /\ held'[i] = held[i + 1]
      /\ \A i \in DOMAIN held \ {1} : i - 1 \in DOMAIN held' /\ held'[i - 1] = held[i]
      /\ 1 \in DOMAIN held /\ held[1] = Head(held)
  BY <1>0
<1>2. \A x : x \in Held <=> x = Head(held) \/ x \in Held'
  BY <1>1 DEF Held
<1>3. QED
  BY <1>2

(* The address of the current turn of the loop is a new one. *)
LEMMA OfferedGrows ==
  ASSUME TypeOK, <<thp, block>> \in Addresses, thp' = thp, block' = block + 1
  PROVE  Offered' = Offered \cup {<<thp, block>>} /\ <<thp, block>> \notin Offered
<1>1. thp \in Nat /\ block \in Nat
  BY GroupingAssumption DEF TypeOK, NTHPs
<1>2. \A x \in Addresses : x[1] \in Nat /\ x[2] \in Nat /\ x = <<x[1], x[2]>>
  BY GroupingAssumption DEF Addresses
<1>3. ASSUME NEW x \in Addresses
      PROVE  x \in Offered' <=> x \in Offered \cup {<<thp, block>>}
  BY <1>1, <1>2 DEF Offered
<1>4. QED
  BY <1>1, <1>3 DEF Offered

LEMMA OfferedNextTHP ==
  ASSUME TypeOK, block >= EndBlock, thp' = thp + 1, block' = StartBlock
  PROVE  Offered' = Offered
<1>1. thp \in Nat /\ block \in Nat
  BY GroupingAssumption DEF TypeOK, NTHPs
<1>2. \A x \in Addresses : x[1] \in Nat /\ x[2] \in Nat /\ x[2] >= StartBlock /\ x[2] < EndBlock
  BY GroupingAssumption DEF Addresses
<1>3. QED
  BY <1>1, <1>2, GroupingAssumption DEF Offered

LEMMA OfferedFinite == IsFiniteSet(Offered)
<1>1. IsFiniteSet(0 .. NTHPs - 1) /\ IsFiniteSet(StartBlock .. EndBlock - 1)
  BY FS_Interval, GroupingAssumption DEF NTHPs
<1>2. IsFiniteSet(Addresses)
  BY <1>1, FS_Product DEF Addresses
<1>3. QED
  BY <1>2, FS_Subset DEF Offered

(* Accounting depends on the sets of addresses only. *)
LEMMA AccountsKept ==
  ASSUME EveryAddressAccounted, Offered' = Offered,
         (Grouped \cup Held)' = Grouped \cup Held, nErrors' = nErrors
  PROVE  EveryAddressAccounted'
BY DEF EveryAddressAccounted

LEMMA NextAccounted == TypeOK /\ NoEmptyGroup /\ EveryAddressAccounted /\ [Next]_vars
                         => EveryAddressAccounted'
<1> SUFFICES ASSUME TypeOK, NoEmptyGroup, EveryAddressAccounted, [Next]_vars
             PROVE  EveryAddressAccounted'
  OBVIOUS
<1>0. /\ Grouped \cup Held \subseteq Offered
      /\ Cardinality(Offered \ (Grouped \cup Held)) = nErrors
  BY DEF EveryAddressAccounted
<1> DEFINE a == <<thp, block>>
<1>1. ASSUME a \in Addresses, thp' = thp, block' = block + 1, held' = held, nErrors' = nErrors,
             Placed(a)
      PROVE  EveryAddressAccounted'
  <2>1. Offered' = Offered \cup {a} /\ a \notin Offered
    BY <1>1, OfferedGrows
  <2>2. Grouped' = Grouped \cup {a} /\ Held' = Held
    BY <1>1, GroupedPlaced DEF Held
  <2>3. Offered' \ (Grouped' \cup Held') = Offered \ (Grouped \cup Held)
    BY <1>0, <2>1, <2>2
  <2>4. Grouped' \cup Held' \subseteq Offered'
    BY <1>0, <2>1, <2>2
  <2>5. QED
    BY <1>0, <1>1, <2>3, <2>4 DEF EveryAddressAccounted
<1>2. CASE AddBlock
  <2>1. a \in Addresses
    BY <1>2, OfferedBlock, GroupingAssumption DEF AddBlock, NTHPs, TypeOK
  <2>2. Placed(a)
    BY <1>2, AddPlaces DEF AddBlock
  <2>3. QED
    BY <1>1, <1>2, <2>1, <2>2 DEF AddBlock
<1>3. CASE AddBlockToExisting
  <2>1. /\ a \in Addresses
        /\ thp' = thp /\ block' = block + 1 /\ held' = held
    BY <1>3, OfferedBlock DEF AddBlockToExisting
  <2>2. CASE nErrors' = nErrors /\ \E k \in DOMAIN groups :
               groups' = Joined(a, k) /\ MayConflict(a, groups[k])
    BY <1>1, <2>1, <2>2 DEF Placed
  <2>3. CASE groups' = groups /\ nErrors' = nErrors + 1
    <3>1. Offered' = Offered \cup {a} /\ a \notin Offered
      BY <2>1, OfferedGrows
    <3>2. Grouped' = Grouped /\ Held' = Held
      BY <2>1, <2>3 DEF Grouped, Held
    <3> DEFINE missing == Offered \ (Grouped \cup Held)
    <3>3. missing' = missing \cup {a} /\ a \notin missing
      BY <1>0, <3>1, <3>2
    <3>4. IsFiniteSet(missing)
      BY OfferedFinite, FS_Subset
    <3>5. Cardinality(missing \cup {a}) = Cardinality(missing) + 1
      BY <3>3, <3>4, FS_AddElement
    <3>6. Cardinality(missing') = nErrors'
      BY <1>0, <2>3, <3>3, <3>5
    <3>7. QED
      BY <1>0, <3>1, <3>2, <3>6 DEF EveryAddressAccounted
  <2>4. QED
    BY <1>3, <2>2, <2>3, AddToExistingPlaces DEF AddBlockToExisting
<1>4. CASE NextTHP
  <2>1. Offered' = Offered
    BY <1>4, OfferedNextTHP DEF NextTHP
  <2>2. groups' = groups /\ held' = held /\ nErrors' = nErrors
    BY <1>4 DEF NextTHP
  <2>3. QED
    BY <2>1, <2>2, AccountsKept DEF Grouped, Held
<1>5. CASE EraseFirstGroup
  <2>1. /\ held = << >> /\ groups' = Tail(groups) /\ held' = Head(groups)
        /\ thp' = thp /\ block' = block /\ nErrors' = nErrors
    BY <1>5 DEF EraseFirstGroup, MoreToRegroup
  <2>2. groups # << >>
    BY <1>5 DEF EraseFirstGroup, MoreToRegroup, NoEmptyGroup, TypeOK
  <2>3. Grouped' \cup Held' = Grouped
    BY <2>1, <2>2, GroupedErased
  <2>4. Held = {}
    BY <2>1 DEF Held
  <2>5. QED
    BY <2>1, <2>3, <2>4, AccountsKept DEF Offered
<1>6. CASE ReAddAddress
  <2>1. /\ held # << >> /\ held' = Tail(held) /\ AddAddress(Head(held))
        /\ thp' = thp /\ block' = block /\ nErrors' = nErrors
    BY <1>6 DEF ReAddAddress
  <2>2. Head(held) \in Addresses
    BY <2>1 DEF TypeOK
  <2>3. Grouped' = Grouped \cup {Head(held)}
    BY <2>1, <2>2, AddPlaces, GroupedPlaced
  <2>4. Held = {Head(held)} \cup Held'
    BY <2>1, HeldReAdded
  <2>5. QED
    BY <2>1, <2>3, <2>4, AccountsKept DEF Offered
<1>7. CASE StartRegrouping \/ TestPlausible \/ Finish \/ UNCHANGED vars
  <2>1. UNCHANGED <<groups, held, thp, block, nErrors>>
    BY <1>7 DEF StartRegrouping, TestPlausible, Finish, vars
  <2>2. QED
    BY <2>1, AccountsKept DEF Grouped, Held, Offered
<1>8. QED
  BY <1>2, <1>3, <1>4, <1>5, <1>6, <1>7 DEF Next

(* At any moment the errors counted for the additional THPs are the        *)
(* addresses that are in no group, and every other address offered so far  *)
(* is in a group or on its way back into one.                              *)
THEOREM GroupingAccountsForAll == Spec => []EveryAddressAccounted
<1>1. Init => EveryAddressAccounted
  <2> SUFFICES ASSUME Init
               PROVE  EveryAddressAccounted
    OBVIOUS
  <2>1. Offered = {}
    BY GroupingAssumption DEF Init, Offered, Addresses, NTHPs
  <2>2. Grouped = {} /\ Held = {}
    BY DEF Init, Grouped, Held
  <2>3. QED
    BY <2>1, <2>2, FS_EmptySet DEF Init, EveryAddressAccounted
<1>2. QED
  BY <1>1, NextAccounted, Invariance, PTL DEF Spec, IInv

-----------------------------------------------------------------------------
(* What a step may never do. *)

(* As long as wrong measurements are at most half of a sample, no address  *)
(* joins a group that has no address of its bank.                          *)
THEOREM GroupingMedianHolds == Spec => MedianHolds
<1> DEFINE Step ==
      \A k \in DOMAIN groups :
        (/\ NCompare >= 2 * MaxWrong /\ Len(groups[k]) >= 2 * MaxWrong
         /\ Len(groups') >= Len(groups) /\ Len(groups'[k]) = Len(groups[k]) + 1
         /\ SubSeq(groups'[k], 1, Len(groups[k])) = groups[k])
        => Bank(groups'[k][Len(groups'[k])]) \in
             {Bank(groups[k][i]) : i \in DOMAIN groups[k]}
<1>1. ASSUME IInv, Next
      PROVE  Step
  <2> SUFFICES ASSUME NEW k \in DOMAIN groups,
                      NCompare >= 2 * MaxWrong, Len(groups[k]) >= 2 * MaxWrong,
                      Len(groups') >= Len(groups), Len(groups'[k]) = Len(groups[k]) + 1
               PROVE  Bank(groups'[k][Len(groups'[k])]) \in
                        {Bank(groups[k][i]) : i \in DOMAIN groups[k]}
    OBVIOUS
  <2>0. groups \in Seq(Seq(Addresses)) /\ groups[k] \in Seq(Addresses)
    BY <1>1 DEF IInv, TypeOK
  <2>1. CASE UNCHANGED groups
    BY <2>0, <2>1
  <2>2. CASE groups # << >> /\ groups' = Tail(groups)
    BY <2>0, <2>2
  <2>3. ASSUME NEW a \in Addresses, Placed(a)
        PROVE  Bank(groups'[k][Len(groups'[k])]) \in
                 {Bank(groups[k][i]) : i \in DOMAIN groups[k]}
    <3>1. CASE groups' = Append(groups, <<a>>)
      BY <2>0, <3>1
    <3>2. ASSUME NEW l \in DOMAIN groups, groups' = Joined(a, l), MayConflict(a, groups[l])
          PROVE  Bank(groups'[k][Len(groups'[k])]) \in
                   {Bank(groups[k][i]) : i \in DOMAIN groups[k]}
      <4>1. k = l
        <5>1. k # l => groups'[k] = groups[k]
          BY <2>0, <3>2, JoinedGroups
        <5>2. QED
          BY <2>0, <5>1
      <4>2. groups'[k][Len(groups[k]) + 1] = a
        BY <2>0, <3>2, <4>1, JoinedGroups
      <4>3. \E i \in DOMAIN groups[k] : Bank(groups[k][i]) = Bank(a)
        BY <1>1, <2>0, <3>2, <4>1, JoinsOwnBank, WrongTyped DEF IInv
      <4>4. QED
        BY <4>2, <4>3
    <3>3. QED
      BY <2>3, <3>1, <3>2 DEF Placed
  <2>4. QED
    BY <1>1, <2>1, <2>2, <2>3, NextGroups DEF IInv, GroupsStep
<1>2. IInv /\ [Next]_vars => [Step]_vars
  BY <1>1
<1>3. QED
  BY <1>2, Invariance, PTL DEF Spec, MedianHolds

-----------------------------------------------------------------------------
(* The number of groups: no address is in two places, no bank of the       *)
(* initial THPs is without a group, and when rows are distinct no bank has *)
(* two.                                                                    *)

(* NoAddressTwice without the addresses that are held *)
GroupsDistinct ==
  \A k, l \in DOMAIN groups : \A i \in DOMAIN groups[k], j \in DOMAIN groups[l] :
    groups[k][i] = groups[l][j] => k = l /\ i = j

-----------------------------------------------------------------------------
(* No address is in two places. *)

LEMMA PlacedOnce ==
  ASSUME TypeOK, NEW a \in Addresses, Placed(a), a \notin Grouped, GroupsDistinct
  PROVE  GroupsDistinct'
<1>0. groups \in Seq(Seq(Addresses))
  BY DEF TypeOK
<1>1. \A k \in DOMAIN groups : \A i \in DOMAIN groups[k] : groups[k][i] # a
  BY GroupedElements
<1>2. CASE groups' = Append(groups, <<a>>)
  <2>1. /\ DOMAIN groups' = DOMAIN groups \cup {Len(groups) + 1}
        /\ \A k \in DOMAIN groups : groups'[k] = groups[k]
        /\ groups'[Len(groups) + 1] = <<a>>
    BY <1>0, <1>2
  <2>2. DOMAIN <<a>> = {1} /\ <<a>>[1] = a
    OBVIOUS
  <2>3. QED
    BY <1>1, <2>1, <2>2 DEF GroupsDistinct
<1>3. ASSUME NEW n \in DOMAIN groups, groups' = Joined(a, n)
      PROVE  GroupsDistinct'
  <2>1. groups[n] \in Seq(Addresses)
    BY <1>0
  <2>2. /\ DOMAIN groups' = DOMAIN groups
        /\ \A k \in DOMAIN groups \ {n} : groups'[k] = groups[k]
        /\ groups'[n] = Append(groups[n], a)
    BY <1>0, <1>3, JoinedGroups
  <2>3. /\ DOMAIN groups'[n] = DOMAIN groups[n] \cup {Len(groups[n]) + 1}
        /\ \A i \in DOMAIN groups[n] : groups'[n][i] = groups[n][i]
        /\ groups'[n][Len(groups[n]) + 1] = a
    BY <2>1, <2>2
  <2>4. QED
    BY <1>1, <2>2, <2>3 DEF GroupsDistinct
<1>4. QED
  BY <1>2, <1>3 DEF Placed

LEMMA ErasedOnce ==
  ASSUME TypeOK, groups # << >>, groups' = Tail(groups), held' = Head(groups), GroupsDistinct
  PROVE  NoAddressTwice'
<1>0. groups \in Seq(Seq(Addresses))
  BY DEF TypeOK
<1>1. /\ \A k \in DOMAIN groups' : k + 1 \in DOMAIN groups /\ k + 1 # 1 /\ groups'[k] = groups[k + 1]
      /\ 1 \in DOMAIN groups /\ held' = groups[1]
  BY <1>0
<1>2. DOMAIN groups' \subseteq Nat
  BY <1>0
<1>3. GroupsDistinct'
  <2> SUFFICES ASSUME NEW k \in DOMAIN groups', NEW l \in DOMAIN groups',
                      NEW i \in DOMAIN groups'[k], NEW j \in DOMAIN groups'[l],
                      groups'[k][i] = groups'[l][j]
               PROVE  k = l /\ i = j
    BY DEF GroupsDistinct
  <2>1. k + 1 = l + 1 /\ i = j
    BY <1>1 DEF GroupsDistinct
  <2>2. QED
    BY <1>2, <2>1
<1>4. \A i, j \in DOMAIN held' : held'[i] = held'[j] => i = j
  BY <1>1 DEF GroupsDistinct
<1>5. Grouped' \cap Held' = {}
  <2> SUFFICES ASSUME NEW x \in Grouped', x \in Held'
               PROVE  FALSE
    OBVIOUS
  <2>1. PICK k \in DOMAIN groups' : \E i \in DOMAIN groups'[k] : groups'[k][i] = x
    BY DEF Grouped
  <2>2. PICK j \in DOMAIN groups[1] : groups[1][j] = x
    BY <1>1 DEF Held
  <2>3. QED
    BY <1>1, <2>1, <2>2 DEF GroupsDistinct
<1>6. QED
  BY <1>3, <1>4, <1>5 DEF GroupsDistinct, NoAddressTwice

LEMMA HeadHeldOnce ==
  ASSUME TypeOK, held # << >>, held' = Tail(held),
         \A i, j \in DOMAIN held : held[i] = held[j] => i = j
  PROVE  /\ Head(held) \in Held /\ Head(held) \notin Held'
         /\ \A i, j \in DOMAIN held' : held'[i] = held'[j] => i = j
<1>0. held \in Seq(Addresses)
  BY DEF TypeOK
<1>1. /\ \A i \in DOMAIN held' : /\ i \in Nat /\ i + 1 \in DOMAIN held /\ i + 1 # 1
                                 /\ held'[i] = held[i + 1]
      /\ 1 \in DOMAIN held /\ held[1] = Head(held)
  BY <1>0
<1>2. Head(held) \in Held
  BY <1>1 DEF Held
<1>3. Head(held) \notin Held'
  BY <1>1 DEF Held
<1>4. ASSUME NEW i \in DOMAIN held', NEW j \in DOMAIN held', held'[i] = held'[j]
      PROVE  i = j
  <2>1. i + 1 = j + 1
    BY <1>1, <1>4
  <2>2. QED
    BY <1>1, <2>1
<1>5. QED
  BY <1>2, <1>3, <1>4

LEMMA NextOnce ==
  TypeOK /\ NoEmptyGroup /\ EveryAddressAccounted /\ NoAddressTwice /\ [Next]_vars
    => NoAddressTwice'
<1> SUFFICES ASSUME TypeOK, NoEmptyGroup, EveryAddressAccounted, NoAddressTwice, [Next]_vars
             PROVE  NoAddressTwice'
  OBVIOUS
<1>0. /\ Grouped \cup Held \subseteq Offered
      /\ GroupsDistinct
      /\ \A i, j \in DOMAIN held : held[i] = held[j] => i = j
      /\ Grouped \cap Held = {}
  BY DEF EveryAddressAccounted, NoAddressTwice, GroupsDistinct
<1> DEFINE a == <<thp, block>>
<1>1. ASSUME a \in Addresses, thp' = thp, block' = block + 1, held' = held, Placed(a)
      PROVE  NoAddressTwice'
  <2>1. a \notin Offered
    BY <1>1, OfferedGrows
  <2>2. Grouped' = Grouped \cup {a} /\ Held' = Held
    BY <1>1, GroupedPlaced DEF Held
  <2>3. GroupsDistinct'
    BY <1>0, <1>1, <2>1, PlacedOnce
  <2>4. Grouped' \cap Held' = {}
    BY <1>0, <2>1, <2>2
  <2>5. QED
    BY <1>0, <1>1, <2>3, <2>4 DEF NoAddressTwice, GroupsDistinct
<1>2. CASE AddBlock
  <2>1. a \in Addresses
    BY <1>2, OfferedBlock, GroupingAssumption DEF AddBlock, NTHPs, TypeOK
  <2>2. Placed(a)
    BY <1>2, AddPlaces DEF AddBlock
  <2>3. QED
    BY <1>1, <1>2, <2>1, <2>2 DEF AddBlock
<1>3. CASE UNCHANGED <<groups, held>>
  BY <1>3 DEF NoAddressTwice, Grouped, Held
<1>4. CASE AddBlockToExisting
  <2>1. /\ a \in Addresses
        /\ thp' = thp /\ block' = block + 1 /\ held' = held
    BY <1>4, OfferedBlock DEF AddBlockToExisting
  <2>2. Placed(a) \/ UNCHANGED groups
    BY <1>4, AddToExistingPlaces DEF AddBlockToExisting, Placed
  <2>3. QED
    BY <1>1, <1>3, <2>1, <2>2
<1>5. CASE EraseFirstGroup
  <2>1. groups # << >>
    BY <1>5 DEF EraseFirstGroup, MoreToRegroup, NoEmptyGroup, TypeOK
  <2>2. QED
    BY <1>0, <1>5, <2>1, ErasedOnce DEF EraseFirstGroup
<1>6. CASE ReAddAddress
  <2>1. held # << >> /\ held' = Tail(held) /\ AddAddress(Head(held))
    BY <1>6 DEF ReAddAddress
  <2>2. /\ Head(held) \in Held /\ Head(held) \notin Held'
        /\ \A i, j \in DOMAIN held' : held'[i] = held'[j] => i = j
    BY <1>0, <2>1, HeadHeldOnce
  <2>3. Head(held) \in Addresses /\ Placed(Head(held))
    BY <2>1, AddPlaces DEF TypeOK
  <2>4. Grouped' = Grouped \cup {Head(held)} /\ Held = {Head(held)} \cup Held'
    BY <2>1, <2>3, GroupedPlaced, HeldReAdded
  <2>5. GroupsDistinct'
    BY <1>0, <2>2, <2>3, PlacedOnce
  <2>6. Grouped' \cap Held' = {}
    BY <1>0, <2>2, <2>4
  <2>7. QED
    BY <2>2, <2>5, <2>6 DEF NoAddressTwice, GroupsDistinct
<1>7. CASE NextTHP \/ StartRegrouping \/ TestPlausible \/ Finish \/ UNCHANGED vars
  BY <1>3, <1>7 DEF NextTHP, StartRegrouping, TestPlausible, Finish, vars
<1>8. QED
  BY <1>2, <1>4, <1>5, <1>6, <1>7 DEF Next

(* No address is in two groups, twice in one, or in a group while it waits *)
(* to be added again, at any moment of any regrouping.                     *)
THEOREM GroupingPlacesOnce == Spec => []NoAddressTwice
<1>1. Init => NoAddressTwice
  BY DEF Init, NoAddressTwice, Grouped, Held
<1>2. QED
  BY <1>1, NextOnce, Invariance, GroupingAccountsForAll, PTL DEF Spec, IInv

-----------------------------------------------------------------------------
(* No bank has two groups when its addresses are in different rows. *)

(* Without wrong measurements an address that conflicts with every member  *)
(* of a group is found to conflict with it, whichever members are sampled. *)
LEMMA SureConflict ==
  ASSUME NEW a, NEW group \in Seq(Addresses), group # << >>, MaxWrong = 0,
         \A i \in DOMAIN group : Conflict(a, group[i])
  PROVE  ~ MayMiss(a, group)
<1> SUFFICES ASSUME NEW s \in Samples(group),
                    Conflicts(a, group, s) - MaxWrong <= Cardinality(s) \div 2
             PROVE  FALSE
  BY DEF MayMiss
<1>1. s \subseteq 1 .. Len(group) /\ Len(group) \in Nat /\ Len(group) > 0
  BY DEF Samples
<1>2. Cardinality(s) > 0
  BY <1>1, ComparisonAssumption DEF Samples
<1>3. IsFiniteSet(s) /\ Cardinality(s) \in Nat
  <2>1. IsFiniteSet(1 .. Len(group))
    BY <1>1, FS_Interval
  <2>2. QED
    BY <1>1, <2>1, FS_Subset, FS_CardinalityType
<1>4. {i \in s : Conflict(a, group[i])} = s
  BY <1>1
<1>5. Conflicts(a, group, s) = Cardinality(s)
  BY <1>4 DEF Conflicts
<1>6. QED
  BY <1>2, <1>3, <1>5

(* A new group is for an address whose bank has none. *)
LEMMA NewGroupForNewBank ==
  ASSUME IInv, MaxWrong = 0, DistinctRows, NEW a \in Addresses, a \notin Grouped,
         NEW k \in DOMAIN groups, MayMiss(a, groups[k])
  PROVE  Bank(groups[k][1]) # Bank(a)
<1> SUFFICES ASSUME Bank(groups[k][1]) = Bank(a)
             PROVE  FALSE
  OBVIOUS
<1>1. groups[k] \in Seq(Addresses) /\ groups[k] # << >>
  BY DEF IInv, TypeOK, NoEmptyGroup
<1>2. 1 \in DOMAIN groups[k]
  BY <1>1
<1>3. \A i \in DOMAIN groups[k] :
        groups[k][i] \in Addresses /\ groups[k][i] # a /\ Bank(groups[k][i]) = Bank(a)
  BY <1>1, <1>2, GroupedElements DEF IInv, Homogeneous
<1>4. \A i \in DOMAIN groups[k] : Conflict(a, groups[k][i])
  BY <1>3 DEF DistinctRows, Conflict
<1>5. QED
  BY <1>1, <1>4, SureConflict

(* OneGroupPerBank in a memory of distinct rows *)
BanksDiffer ==
  \A k, l \in DOMAIN groups : Bank(groups[k][1]) = Bank(groups[l][1]) => k = l

LEMMA JoinedDiffer ==
  ASSUME IInv, BanksDiffer, dram' = dram, NEW a \in Addresses, NEW n \in DOMAIN groups,
         groups' = Joined(a, n)
  PROVE  BanksDiffer'
<1>1. groups \in Seq(Seq(Addresses)) /\ \A k \in DOMAIN groups : 1 \in DOMAIN groups[k]
  BY DEF IInv, TypeOK, NoEmptyGroup
<1>2. /\ DOMAIN groups' = DOMAIN groups
      /\ \A k \in DOMAIN groups \ {n} : groups'[k] = groups[k]
      /\ \A i \in DOMAIN groups[n] : groups'[n][i] = groups[n][i]
  BY <1>1, JoinedGroups
<1>3. \A k \in DOMAIN groups : groups'[k][1] = groups[k][1]
  BY <1>1, <1>2
<1>4. QED
  BY <1>2, <1>3 DEF BanksDiffer, Bank

LEMMA AddedDiffer ==
  ASSUME IInv, BanksDiffer, dram' = dram, MaxWrong = 0, DistinctRows,
         NEW a \in Addresses, a \notin Grouped, AddAddress(a)
  PROVE  BanksDiffer'
<1>1. groups \in Seq(Seq(Addresses))
  BY DEF IInv, TypeOK
<1>2. CASE \E k \in DOMAIN groups : groups' = Joined(a, k)
  BY <1>2, JoinedDiffer
<1>3. CASE groups' = Append(groups, <<a>>) /\ \A k \in DOMAIN groups : MayMiss(a, groups[k])
  <2>1. /\ DOMAIN groups' = DOMAIN groups \cup {Len(groups) + 1}
        /\ \A k \in DOMAIN groups : groups'[k] = groups[k]
        /\ groups'[Len(groups) + 1] = <<a>>
    BY <1>1, <1>3
  <2>2. <<a>>[1] = a
    OBVIOUS
  <2>3. \A k \in DOMAIN groups : Bank(groups[k][1]) # Bank(a)
    BY <1>3, NewGroupForNewBank
  <2>4. QED
    BY <2>1, <2>2, <2>3 DEF BanksDiffer, Bank
<1>4. QED
  BY <1>2, <1>3 DEF AddAddress, BankIndices

LEMMA NextOneGroup ==
  IInv /\ EveryAddressAccounted /\ NoAddressTwice /\ OneGroupPerBank /\ [Next]_vars
    => OneGroupPerBank'
<1> SUFFICES ASSUME IInv, EveryAddressAccounted, NoAddressTwice, OneGroupPerBank, [Next]_vars,
                    MaxWrong = 0, DistinctRows
             PROVE  BanksDiffer'
  BY LayoutFixed DEF OneGroupPerBank, BanksDiffer, MaxWrong, DistinctRows, Bank, Row
<1>0. /\ BanksDiffer /\ dram' = dram
      /\ groups \in Seq(Seq(Addresses)) /\ Grouped \subseteq Offered
  BY LayoutFixed DEF OneGroupPerBank, BanksDiffer, IInv, TypeOK, EveryAddressAccounted
<1> DEFINE a == <<thp, block>>
<1>1. CASE AddBlock
  <2>1. a \in Addresses /\ thp' = thp /\ block' = block + 1
    BY <1>1, OfferedBlock, GroupingAssumption DEF AddBlock, NTHPs, IInv, TypeOK
  <2>2. a \notin Grouped
    BY <1>0, <2>1, OfferedGrows DEF IInv
  <2>3. QED
    BY <1>0, <1>1, <2>1, <2>2, AddedDiffer DEF AddBlock
<1>2. CASE UNCHANGED groups
  BY <1>0, <1>2 DEF BanksDiffer, Bank
<1>3. CASE AddBlockToExisting
  <2>1. a \in Addresses
    BY <1>3, OfferedBlock DEF AddBlockToExisting, IInv
  <2>2. UNCHANGED groups \/ \E k \in DOMAIN groups : groups' = Joined(a, k)
    BY <1>3, AddToExistingPlaces DEF AddBlockToExisting
  <2>3. QED
    BY <1>0, <1>2, <2>1, <2>2, JoinedDiffer
<1>4. CASE EraseFirstGroup
  <2>1. groups # << >> /\ groups' = Tail(groups)
    BY <1>4 DEF EraseFirstGroup, MoreToRegroup, NoEmptyGroup, TypeOK, IInv
  <2>2. \A k \in DOMAIN groups' : k \in Nat /\ k + 1 \in DOMAIN groups /\ groups'[k] = groups[k + 1]
    BY <1>0, <2>1
  <2>3. ASSUME NEW k \in DOMAIN groups', NEW l \in DOMAIN groups',
               Bank(groups'[k][1]) = Bank(groups'[l][1])
        PROVE  k = l
    <3>1. k + 1 = l + 1
      BY <1>0, <2>2, <2>3 DEF BanksDiffer
    <3>2. QED
      BY <2>2, <3>1
  <2>4. QED
    BY <1>0, <2>3 DEF BanksDiffer, Bank
<1>5. CASE ReAddAddress
  <2>1. held # << >> /\ AddAddress(Head(held)) /\ Head(held) \in Addresses
    BY <1>5 DEF ReAddAddress, IInv, TypeOK
  <2>2. Head(held) \in Held
    BY <2>1 DEF Held, IInv, TypeOK
  <2>3. Head(held) \notin Grouped
    BY <2>2 DEF NoAddressTwice
  <2>4. QED
    BY <1>0, <2>1, <2>3, AddedDiffer
<1>6. CASE NextTHP \/ StartRegrouping \/ TestPlausible \/ Finish \/ UNCHANGED vars
  BY <1>2, <1>6 DEF NextTHP, StartRegrouping, TestPlausible, Finish, vars
<1>7. QED
  BY <1>1, <1>3, <1>4, <1>5, <1>6 DEF Next

(* When each address of a bank has a row of its own and nothing is         *)
(* measured wrong, no bank ever has two groups.                            *)
THEOREM GroupingOneGroup == Spec => []OneGroupPerBank
<1>1. Init => OneGroupPerBank
  BY DEF Init, OneGroupPerBank
<1>2. QED
  BY <1>1, NextOneGroup, Invariance, GroupingAccountsForAll, GroupingPlacesOnce, PTL DEF Spec

-----------------------------------------------------------------------------
(* No bank of the initial THPs is without a group. *)

InitialOffered == {x \in Offered : x[1] < NInitialTHPs}

(* No initial address is ever left out, and none is on its way back when   *)
(* main has decided on the number of groups.                               *)
InitialKept ==
  /\ InitialOffered \subseteq Grouped \cup Held
  /\ phase \in {"regroup", "add", "done"} => thp >= NInitialTHPs
  /\ phase \in {"add", "done"} => held = << >>

LEMMA NextKept == TypeOK /\ NoEmptyGroup /\ InitialKept /\ [Next]_vars => InitialKept'
<1> SUFFICES ASSUME TypeOK, NoEmptyGroup, InitialKept, [Next]_vars
             PROVE  InitialKept'
  OBVIOUS
<1>0. thp \in Nat /\ NInitialTHPs \in Nat
  BY GroupingAssumption DEF TypeOK, NTHPs
<1> DEFINE a == <<thp, block>>
<1>1. CASE AddBlock
  <2>1. a \in Addresses /\ thp' = thp /\ block' = block + 1
    BY <1>1, OfferedBlock, GroupingAssumption DEF AddBlock, NTHPs, TypeOK
  <2>2. Offered' = Offered \cup {a}
    BY <2>1, OfferedGrows
  <2>3. Grouped' = Grouped \cup {a} /\ Held' = Held
    BY <1>1, <2>1, AddPlaces, GroupedPlaced DEF AddBlock, Held
  <2>4. InitialOffered' \subseteq Grouped' \cup Held'
    BY <2>2, <2>3 DEF InitialKept, InitialOffered
  <2>5. QED
    BY <1>1, <2>4 DEF AddBlock, InitialKept
<1>2. CASE AddBlockToExisting
  <2>1. a \in Addresses /\ thp' = thp /\ block' = block + 1 /\ held' = held /\ phase' = phase
    BY <1>2, OfferedBlock DEF AddBlockToExisting
  <2>2. Offered' = Offered \cup {a}
    BY <2>1, OfferedGrows
  <2>3. Grouped \subseteq Grouped' /\ Held' = Held
    <3>1. UNCHANGED groups \/ Placed(a)
      BY <1>2, AddToExistingPlaces DEF AddBlockToExisting, Placed
    <3>2. QED
      BY <2>1, <3>1, GroupedPlaced DEF Grouped, Held
  <2>4. thp >= NInitialTHPs
    BY <1>2 DEF AddBlockToExisting, InitialKept
  <2>5. ~ a[1] < NInitialTHPs
    BY <1>0, <2>4
  <2>6. InitialOffered' = InitialOffered
    BY <2>2, <2>5 DEF InitialOffered
  <2>7. QED
    BY <2>1, <2>3, <2>6 DEF InitialKept
<1>3. CASE NextTHP
  <2>1. Offered' = Offered
    BY <1>3, OfferedNextTHP DEF NextTHP
  <2>2. Grouped' = Grouped /\ Held' = Held /\ held' = held /\ phase' = phase /\ thp' = thp + 1
    BY <1>3 DEF NextTHP, Grouped, Held
  <2>3. QED
    BY <1>0, <2>1, <2>2 DEF InitialKept, InitialOffered
<1>4. CASE EraseFirstGroup
  <2>1. groups # << >>
    BY <1>4 DEF EraseFirstGroup, MoreToRegroup, NoEmptyGroup, TypeOK
  <2>2. Grouped' \cup Held' = Grouped /\ Held = {}
    BY <1>4, <2>1, GroupedErased DEF EraseFirstGroup, Held
  <2>3. Offered' = Offered /\ phase' = phase /\ phase = "regroup" /\ thp' = thp
    BY <1>4 DEF EraseFirstGroup, Offered
  <2>4. QED
    BY <2>2, <2>3 DEF InitialKept, InitialOffered
<1>5. CASE ReAddAddress
  <2>1. held # << >> /\ held' = Tail(held) /\ AddAddress(Head(held)) /\ Head(held) \in Addresses
    BY <1>5 DEF ReAddAddress, TypeOK
  <2>2. Grouped' = Grouped \cup {Head(held)} /\ Held = {Head(held)} \cup Held'
    BY <2>1, AddPlaces, GroupedPlaced, HeldReAdded
  <2>3. Offered' = Offered /\ phase' = phase /\ phase = "regroup" /\ thp' = thp
    BY <1>5 DEF ReAddAddress, Offered
  <2>4. QED
    BY <2>2, <2>3 DEF InitialKept, InitialOffered
<1>6. CASE StartRegrouping \/ TestPlausible \/ Finish \/ UNCHANGED vars
  <2>1. UNCHANGED <<groups, held, thp, block>>
    BY <1>6 DEF StartRegrouping, TestPlausible, Finish, vars
  <2>2. phase' \in {"regroup", "add", "done"} => thp >= NInitialTHPs
    BY <1>6 DEF StartRegrouping, TestPlausible, Finish, vars, InitialKept
  <2>3. phase' \in {"add", "done"} => held = << >>
    BY <1>6 DEF StartRegrouping, TestPlausible, Finish, vars, InitialKept
  <2>4. InitialOffered' = InitialOffered /\ Grouped' = Grouped /\ Held' = Held
    BY <2>1 DEF InitialOffered, Offered, Grouped, Held
  <2>5. QED
    BY <2>1, <2>2, <2>3, <2>4 DEF InitialKept
<1>7. QED
  BY <1>1, <1>2, <1>3, <1>4, <1>5, <1>6 DEF Next

LEMMA KeptAlways == Spec => []InitialKept
<1>1. Init => InitialKept
  BY GroupingAssumption DEF Init, InitialKept, InitialOffered, Offered, Addresses, NTHPs
<1>2. QED
  BY <1>1, NextKept, Invariance, PTL DEF Spec, IInv

LEMMA BanksCounted == IInv /\ InitialKept => NoBankMissed
<1> SUFFICES ASSUME IInv, InitialKept, MaxWrong = 0, phase \in {"add", "done"}
             PROVE  Len(groups) >= Cardinality(InitialBanks)
  BY DEF NoBankMissed
<1>1. groups \in Seq(Seq(Addresses)) /\ Len(groups) \in Nat
      /\ \A k \in DOMAIN groups : 1 \in DOMAIN groups[k]
  BY DEF IInv, TypeOK, NoEmptyGroup
<1>2. \A x \in Addresses : x[1] < NInitialTHPs => x \in Grouped
  <2>1. Held = {} /\ thp >= NInitialTHPs
    BY DEF InitialKept, Held
  <2>2. thp \in Nat /\ \A x \in Addresses : x[1] \in Int
    BY GroupingAssumption DEF IInv, TypeOK, NTHPs, Addresses
  <2>3. QED
    BY <2>1, <2>2, GroupingAssumption DEF InitialKept, InitialOffered, Offered
<1> DEFINE bank == [k \in 1 .. Len(groups) |-> Bank(groups[k][1])]
           all == {bank[k] : k \in 1 .. Len(groups)}
<1>3. InitialBanks \subseteq all
  <2> SUFFICES ASSUME NEW x \in Addresses, x[1] < NInitialTHPs
               PROVE  Bank(x) \in all
    BY DEF InitialBanks, BanksOf
  <2>1. PICK k \in DOMAIN groups : \E i \in DOMAIN groups[k] : groups[k][i] = x
    BY <1>2, GroupedElements
  <2>2. Bank(groups[k][1]) = Bank(x)
    BY <1>1, <2>1 DEF IInv, Homogeneous
  <2>3. k \in 1 .. Len(groups)
    BY <1>1
  <2>4. QED
    BY <2>2, <2>3
<1>4. bank \in Surjection(1 .. Len(groups), all)
  BY DEF Surjection
<1> HIDE DEF bank, all
<1>5. IsFiniteSet(1 .. Len(groups)) /\ Cardinality(1 .. Len(groups)) = Len(groups)
  <2>1. /\ IsFiniteSet(1 .. Len(groups))
        /\ Cardinality(1 .. Len(groups))
             = IF 1 > Len(groups) THEN 0 ELSE Len(groups) - 1 + 1
    BY <1>1, FS_Interval, 1 \in Int, Len(groups) \in Int
  <2>2. QED
    BY <1>1, <2>1
<1>6. IsFiniteSet(all) /\ Cardinality(all) <= Len(groups)
  BY <1>4, <1>5, FS_Surjection
<1>7. IsFiniteSet(InitialBanks) /\ Cardinality(InitialBanks) <= Cardinality(all)
  BY <1>3, <1>6, FS_Subset
<1>8. Cardinality(all) \in Nat /\ Cardinality(InitialBanks) \in Nat
  BY <1>6, <1>7, FS_CardinalityType
<1>9. QED
  BY <1>1, <1>6, <1>7, <1>8

(* Without wrong measurements the number of groups that main settles on is *)
(* at least that of the banks that the initial THPs touch.                 *)
THEOREM GroupingMissesNoBank == Spec => []NoBankMissed
BY BanksCounted, KeptAlways, Invariance, PTL

=============================================================================
