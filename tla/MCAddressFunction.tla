-------------------------- MODULE MCAddressFunction --------------------------
(***************************************************************************)
(* Instances of AddressFunction: memories whose banks are computed by      *)
(* given masks, measured in whole or in part.                              *)
(***************************************************************************)
EXTENDS AddressFunction, FiniteSetsExt

CONSTANTS
  FewBits,       \* bound: the bits used by partial measurements
  NAddresses,    \* bound: how many addresses are then measured
  MaxFunctions,  \* bound: masks that compute the bank
  MaxMaskBits,   \* bound: option -x
  Percentages    \* bound: option -p

(* The elements of a set in some order; the order is of no importance.     *)
Listed(set) == FoldSet(LAMBDA element, list : Append(list, element), << >>, set)

BankOf(a, functions) == {f \in functions : BankBit(a, f) = 1}

(* the addresses grouped by the bank that the functions compute *)
GroupedBy(functions, addresses) ==
  LET banks == {BankOf(a, functions) : a \in addresses}
      Members(bank) == {a \in addresses : BankOf(a, functions) = bank}
  IN  Listed({Listed(Members(bank)) : bank \in banks})

Functions(bits) ==
  {fs \in SUBSET ((SUBSET bits) \ {{}}) : Cardinality(fs) <= MaxFunctions}

Measurements(bits, addressSets) ==
  {GroupedBy(fs, as) : fs \in Functions(bits), as \in addressSets}

Partial ==
  Measurements(FewBits, {as \in SUBSET SUBSET FewBits : Cardinality(as) \in NAddresses})

Complete == Measurements(Bits, {Masks})

(* the addresses on which some mask computes 0 *)
Correlated ==
  Measurements(Bits, {{a \in Masks : BankBit(a, m) = 0} : m \in Masks \ {{}}})

(* measurements whose last group has been emptied, and with no group left *)
LastEmptied ==
  {[m EXCEPT ![Len(m)] = << >>] : m \in Measurements(FewBits, {SUBSET FewBits})}

AllEmptied == {[k \in 1 .. n |-> << >>] : n \in 0 .. 4}

(* An address of the first group is measured into the last one. *)
Misplaced ==
  {[m EXCEPT ![1] = Tail(m[1]), ![Len(m)] = Append(m[Len(m)], m[1][1])] :
     m \in {n \in Measurements(FewBits, {SUBSET FewBits}) : Len(n) > 1}}

(* Correlated bits are of interest when the masks found are not the masks  *)
(* of the memory but shorter ones.                                         *)
AllTrials ==
  ((Partial \cup LastEmptied \cup AllEmptied) \X {MaxMaskBits} \X {1})
    \cup ((Complete \cup Misplaced) \X {MaxMaskBits} \X Percentages)
    \cup (Correlated \X {1} \X {1})

=============================================================================
