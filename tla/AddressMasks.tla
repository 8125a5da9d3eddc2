---------------------------- MODULE AddressMasks ----------------------------
(***************************************************************************)
(* Addresses and masks as sets of bit positions.  address & mask is the    *)
(* intersection, mask ^ mask the symmetric difference, and the bank bit a  *)
(* mask computes for an address is the parity of the bits they share.      *)
(***************************************************************************)
EXTENDS Integers, FiniteSets, Sequences

CONSTANT Bits            \* the address bits above the block size

Masks == SUBSET Bits

(* xorBits(address & mask) *)
BankBit(address, mask) == Cardinality(address \cap mask) % 2

Xor(m, n) == (m \ n) \cup (n \ m)

(* The majority vote of a group on a mask, as areMasksOrthogonal takes it. *)
GroupVote(group, mask) ==
  LET Voting(bit) ==
        Cardinality({i \in DOMAIN group : BankBit(group[i], mask) = bit})
  IN  IF Voting(1) > Voting(0) THEN 1 ELSE 0

(* nErrors at the end of a group: who differs from the group's first. *)
Errors(g, m) ==
  Cardinality({i \in DOMAIN g : BankBit(g[i], m) # BankBit(g[1], m)})

MaxErrors(g, percentage) == (Len(g) * percentage) \div 100

(* nErrors is tested after each increment, so it passes through every      *)
(* value up to its last on the way.                                        *)
TooManyErrors(g, m, percentage) ==
  \E nErrors \in 1 .. Errors(g, m) :
    /\ nErrors > MaxErrors(g, percentage)
    /\ nErrors < Len(g) - MaxErrors(g, percentage)

(* Variants of CountsAsOne: a tolerance that is one too low, and one that  *)
(* takes the first address for right.                                      *)
CountsAsOneStrictly(g, m, percentage) ==
  \/ BankBit(g[1], m) = 1 /\ Errors(g, m) < MaxErrors(g, percentage)
  \/ BankBit(g[1], m) = 0 /\ Errors(g, m) >= MaxErrors(g, percentage)

CountsAsOneByFirst(g, m, percentage) == BankBit(g[1], m) = 1

CountsAsOne(g, m, percentage) ==
  \/ BankBit(g[1], m) = 1 /\ Errors(g, m) <= MaxErrors(g, percentage)
  \/ BankBit(g[1], m) = 0 /\ Errors(g, m) > MaxErrors(g, percentage)

(* getModifiedMasks, without and with recursion: masks with bits cleared.  *)
OneBitCleared(m) == {m \ {b} : b \in m}

AllModified ==
  LET modified[m \in Masks] ==
        (UNION {modified[n] : n \in OneBitCleared(m)}) \cup (OneBitCleared(m) \ {{}})
  IN  modified

(* maskIsEquivalent or maskIsInverseEquivalent, over all addresses. *)
Equivalent(groups, m, n) ==
  LET Agrees(a) == BankBit(a, m) = BankBit(a, n)
      all == UNION {{groups[k][i] : i \in DOMAIN groups[k]} : k \in DOMAIN groups}
  IN  (\A a \in all : Agrees(a)) \/ (\A a \in all : ~Agrees(a))

(* A variant of CheckModifiedMasks that clears one bit only. *)
CheckOneBitModified(groups, m) ==
  \A n \in OneBitCleared(m) \ {{}} : ~Equivalent(groups, m, n)

CheckModifiedMasks(groups, m) ==
  /\ \A n \in OneBitCleared(m) \ {{}} : ~Equivalent(groups, m, n)
  /\ \A n \in AllModified[m] : ~Equivalent(groups, m, n)

(* checkMask as a whole: no group is turned down on the way, as many count *)
(* as one as count as zero, and every bit of the mask is used.             *)
Accepts(groups, m, percentage) ==
  LET measured == {k \in DOMAIN groups : groups[k] # << >>}
      ones == {k \in measured : CountsAsOne(groups[k], m, percentage)}
  IN  /\ \A k \in measured : ~TooManyErrors(groups[k], m, percentage)
      /\ Cardinality(ones) = Cardinality(measured \ ones)
      /\ CheckModifiedMasks(groups, m)

=============================================================================
