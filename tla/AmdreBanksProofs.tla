-------------------------- MODULE AmdreBanksProofs --------------------------
(***************************************************************************)
(* Proofs about what the groups contain when nothing is measured wrong and *)
(* no two addresses share a row: which blocks are there, and where.        *)
(***************************************************************************)
EXTENDS AmdreProofs

-----------------------------------------------------------------------------
(* What is in the groups, from phase to phase *)

(* The initial block size is one that divides the THPs. *)
Regular == IsNumberPowerOfTwo(config.initialBlockSize) /\ pc # "crashed"

WasOffered(a, ts) ==
  \E t \in ts, i \in config.startOffset .. EndBlock - 1 :
    /\ t <= thp \/ (t = thp + 1 /\ i < block)
    /\ a = mappings[t] + i * blockSize

Offered(ts) == {a \in DOMAIN dram.cells : WasOffered(a, ts)}

(* Where the addresses come from *)
Origins ==
  /\ pc # "done" => Elements(groups) \cup Range(held) \subseteq InitialMemory
  /\ pc = "done" => Elements(groups) \subseteq InitialMemory \cup Offered(AdditionalTHPs)

(* Each group has a bank of its own. *)
BanksApart(g) ==
  \A k, l \in DOMAIN g : \A i \in DOMAIN g[k], j \in DOMAIN g[l] :
    Bank(g[k][i]) = Bank(g[l][j]) <=> k = l

(* nErrors counts the additional blocks whose bank has no group. *)
Counting ==
  /\ pc # "done" => nErrors = 0
  /\ phase = "done" => thp >= NTHPs
  /\ pc = "done" =>
       /\ Offered(AdditionalTHPs) # {} => Filled
       /\ \A a \in Offered(AdditionalTHPs) :
            a \in Elements(groups) \/ Bank(a) \notin BanksOf(Elements(groups))
       /\ nErrors = Cardinality(Offered(AdditionalTHPs) \ Elements(groups))

BlockHeads == {a \in InitialMemory : a % blockSize = 0}

(* The sizes only fall, from the initial one to that of option -B. *)
Falling == IsNumberPowerOfTwo(config.blockSize) /\ config.blockSize <= config.initialBlockSize

(* Every bank of the initial memory has a group. *)
Covered == BanksOf(InitialMemory) \subseteq BanksOf(Elements(groups))

(* expandBlocks has been at the address i of group k. *)
IsPassed(k, i) == k < group \/ (k = group /\ (i < index \/ (i = index /\ offset = blockSize)))

Expanded ==
  /\ \A k \in DOMAIN groups : \A i \in DOMAIN groups[k] :
       IsPassed(k, i) /\ groups[k][i] % blockSize = 0 => groups[k][i] + target \in Elements(groups)
  /\ \A i \in DOMAIN groups[group] : i > size => groups[group][i] % blockSize # 0
  /\ index > size => offset = target

(* Which sizes come next *)
Falls ==
  /\ pc = "main" => blockSize = config.initialBlockSize
  /\ pc \in {"detect", "guess"} => ~ IsNumberPowerOfTwo(config.blockSize)
  /\ pc = "expand" => (return = "step" <=> IsNumberPowerOfTwo(config.blockSize))
  /\ pc = "expand" /\ return = "step" => Falling
  /\ pc = "step" /\ Falling => config.blockSize <= blockSize

(* All blocks of the initial memory are in the groups. *)
HeadsComplete ==
  /\ phase = "fill" => Offered(InitialTHPs) \subseteq Elements(groups)
  /\ phase = "regroup" => BlockHeads \subseteq Elements(groups) \cup Range(held)
  /\ phase = "add" /\ pc \in {"main", "detect", "guess", "expand"} => Filled
  /\ pc \in {"step", "done"} /\ Falling => Filled
  /\ phase = "add" /\ pc = "main" => BlockHeads \subseteq Elements(groups)
  /\ Covered =>
       /\ pc \in {"detect", "guess", "expand"} \/ (pc \in {"step", "done"} /\ Falling) =>
            BlockHeads \subseteq Elements(groups)
       /\ pc = "expand" /\ target # 0 => Expanded

Placed == Origins /\ BanksApart(groups) /\ Counting /\ Falls /\ HeadsComplete

BanksInv == Regular /\ Exact => Placed

-----------------------------------------------------------------------------
(* Comparisons with the groups of an exact memory *)

LEMMA ExactCells ==
  ASSUME Types, Exact
  PROVE  /\ MaxWrong = 0 /\ IsFiniteSet(DOMAIN dram.cells)
         /\ \A a, b \in DOMAIN dram.cells : Bank(a) = Bank(b) /\ Row(a) = Row(b) => a = b
<1> DEFINE cells == dram.cells
           S == DOMAIN cells
<1>1. /\ MaxWrong = 0 /\ IsFiniteSet(S) /\ cells \in [S -> Nat \X Nat]
      /\ Cardinality(Range(cells)) = Cardinality(S)
  BY AmdreAssumption DEF Types, Exact
<1>2. cells \in Surjection(S, Range(cells))
  BY <1>1 DEF Surjection, Range
<1>3. cells \in Injection(S, Range(cells))
  BY <1>1, <1>2, FS_SurjSameCardinalityImpliesInj
<1>4. \A a, b \in S : cells[a] = cells[b] => a = b
  BY <1>3 DEF Injection, IsInjective
<1>5. \A a, b \in S : cells[a][1] = cells[b][1] /\ cells[a][2] = cells[b][2] => cells[a] = cells[b]
  <2> SUFFICES ASSUME NEW a \in S, NEW b \in S,
                      cells[a][1] = cells[b][1], cells[a][2] = cells[b][2]
               PROVE  cells[a] = cells[b]
    OBVIOUS
  <2>1. cells[a] \in Nat \X Nat /\ cells[b] \in Nat \X Nat
    BY <1>1
  <2>2. QED
    BY <2>1
<1>6. \A a, b \in S : Bank(a) = cells[a][1] /\ Row(a) = cells[a][2]
  BY DEF Bank, Row
<1> HIDE DEF cells, S
<1>7. \A a, b \in S : Bank(a) = Bank(b) /\ Row(a) = Row(b) => a = b
  BY <1>4, <1>5, <1>6
<1>8. QED
  BY <1>1, <1>7 DEF cells, S

OfBank(g, bank) == \A i \in DOMAIN g : Bank(g[i]) = bank

LEMMA SamplesAre ==
  ASSUME NEW g \in Seq(Nat), NEW s \in Samples(g)
  PROVE  /\ s \subseteq DOMAIN g /\ IsFiniteSet(s) /\ Cardinality(s) \in Nat
         /\ g # << >> => Cardinality(s) >= 1
<1>1. DOMAIN g = 1 .. Len(g) /\ Len(g) \in Nat /\ NCompare \in Nat \ {0}
  BY ComparisonAssumption
<1>2. IsFiniteSet(DOMAIN g) /\ s \subseteq DOMAIN g
  BY <1>1, IntervalSize DEF Samples
<1>3. IsFiniteSet(s) /\ Cardinality(s) \in Nat
  BY <1>2, FS_Subset, FS_CardinalityType
<1>4. Cardinality(s) = IF NCompare < Len(g) THEN NCompare ELSE Len(g)
  BY DEF Samples
<1>5. g # << >> => Len(g) >= 1
  BY <1>1
<1>6. QED
  BY <1>1, <1>2, <1>3, <1>4, <1>5

(* Comparing with a group of one bank tells whether it is that of the      *)
(* address, unless the address is in the group.                            *)
LEMMA ComparesRight ==
  ASSUME Types, Exact, NEW g \in Seq(Nat), \A i \in DOMAIN g : g[i] \in DOMAIN dram.cells,
         NEW a \in DOMAIN dram.cells, NEW bank, OfBank(g, bank), g # << >>
  PROVE  /\ MayConflict(a, g) => Bank(a) = bank
         /\ MayMiss(a, g) /\ (\A i \in DOMAIN g : g[i] # a) => Bank(a) # bank
<1>1. MaxWrong = 0
  BY ExactCells
<1>2. ASSUME NEW s \in Samples(g)
      PROVE  /\ Bank(a) # bank => Conflicts(a, g, s) = 0
             /\ Bank(a) = bank /\ (\A i \in DOMAIN g : g[i] # a) =>
                  Conflicts(a, g, s) = Cardinality(s)
             /\ Cardinality(s) \in Nat /\ Cardinality(s) >= 1
  <2> DEFINE hits == {i \in s : Conflict(a, g[i])}
  <2>1. /\ s \subseteq DOMAIN g /\ Cardinality(s) \in Nat /\ Cardinality(s) >= 1
    BY SamplesAre
  <2>2. Conflicts(a, g, s) = Cardinality(hits)
    BY DEF Conflicts
  <2>3. ASSUME Bank(a) # bank
        PROVE  hits = {}
    BY <2>1, <2>3 DEF Conflict, OfBank
  <2>4. ASSUME Bank(a) = bank, \A i \in DOMAIN g : g[i] # a
        PROVE  hits = s
    <3>1. ASSUME NEW i \in s
          PROVE  Conflict(a, g[i])
      <4>1. i \in DOMAIN g /\ g[i] \in DOMAIN dram.cells /\ g[i] # a /\ Bank(g[i]) = Bank(a)
        BY <2>1, <2>4 DEF OfBank
      <4>2. Row(a) # Row(g[i])
        BY <4>1, ExactCells
      <4>3. QED
        BY <4>1, <4>2 DEF Conflict
    <3>2. QED
      BY <3>1
  <2> HIDE DEF hits
  <2>5. QED
    BY <2>1, <2>2, <2>3, <2>4, FS_EmptySet
<1>3. ASSUME MayConflict(a, g)
      PROVE  Bank(a) = bank
  <2>1. PICK s \in Samples(g) : Conflicts(a, g, s) + MaxWrong > Cardinality(s) \div 2
    BY <1>3 DEF MayConflict
  <2> DEFINE n == Cardinality(s)
  <2>2. n \in Nat /\ (Bank(a) # bank => 0 + 0 > n \div 2)
    BY <1>1, <1>2, <2>1
  <2> HIDE DEF n
  <2>3. QED
    BY <2>2
<1>4. ASSUME MayMiss(a, g), \A i \in DOMAIN g : g[i] # a, Bank(a) = bank
      PROVE  FALSE
  <2>1. PICK s \in Samples(g) : Conflicts(a, g, s) - MaxWrong <= Cardinality(s) \div 2
    BY <1>4 DEF MayMiss
  <2> DEFINE n == Cardinality(s)
  <2>2. n \in Nat /\ n >= 1 /\ n - 0 <= n \div 2
    BY <1>1, <1>2, <1>4, <2>1
  <2> HIDE DEF n
  <2>3. QED
    BY <2>2
<1>5. QED
  BY <1>3, <1>4

(* So an address that is in no group finds the one of its bank, or none.   *)
LEMMA FindsBank ==
  ASSUME Types, Exact, BanksApart(groups), Filled, Elements(groups) \subseteq DOMAIN dram.cells,
         NEW a \in DOMAIN dram.cells, NEW k \in BankIndices(a)
  PROVE  \/ k \in DOMAIN groups /\ OfBank(groups[k], Bank(a)) /\ k # 0
         \/ k = 0 /\ (a \notin Elements(groups) => Bank(a) \notin BanksOf(Elements(groups)))
<1>1. groups \in Seq(Seq(Nat))
  BY DEF Types
<1>2. ASSUME NEW l \in DOMAIN groups
      PROVE  /\ groups[l] \in Seq(Nat) /\ groups[l] # << >>
             /\ \A i \in DOMAIN groups[l] : groups[l][i] \in Elements(groups)
             /\ \A i \in DOMAIN groups[l] : groups[l][i] \in DOMAIN dram.cells
             /\ OfBank(groups[l], Bank(groups[l][1])) /\ 1 \in DOMAIN groups[l]
  <2>1. groups[l] \in Seq(Nat) /\ groups[l] # << >>
    BY <1>1, <1>2 DEF Filled
  <2>2. 1 \in DOMAIN groups[l]
    BY <2>1
  <2>3. \A i \in DOMAIN groups[l] : groups[l][i] \in Elements(groups)
    BY ElementsAre
  <2>4. OfBank(groups[l], Bank(groups[l][1]))
    BY <2>2 DEF BanksApart, OfBank
  <2>5. QED
    BY <2>1, <2>2, <2>3, <2>4
<1>3. CASE k \in DOMAIN groups /\ MayConflict(a, groups[k])
  <2>1. Bank(a) = Bank(groups[k][1])
    BY <1>2, <1>3, ComparesRight
  <2>2. k # 0
    BY <1>1, <1>3
  <2>3. QED
    BY <1>2, <1>3, <2>1, <2>2
<1>4. CASE k = 0 /\ \A l \in DOMAIN groups : MayMiss(a, groups[l])
  <2>1. SUFFICES ASSUME a \notin Elements(groups), NEW b \in Elements(groups)
                 PROVE  Bank(a) # Bank(b)
    BY <1>4 DEF BanksOf
  <2>2. PICK l \in DOMAIN groups : \E i \in DOMAIN groups[l] : groups[l][i] = b
    BY <2>1, ElementsAre
  <2>3. \A i \in DOMAIN groups[l] : groups[l][i] # a
    BY <1>2, <2>1
  <2>4. Bank(a) # Bank(groups[l][1])
    BY <1>2, <1>4, <2>3, ComparesRight
  <2>5. QED
    BY <1>2, <2>2, <2>4 DEF OfBank
<1>5. QED
  BY <1>3, <1>4 DEF BankIndices

(* An address that joins the group of its bank, or starts the first of it  *)
LEMMA TakenApart ==
  ASSUME NEW g, NEW h, NEW a, NEW k, NEW n, TakesAt(g, h, a, k, n), BanksApart(g),
         k \in DOMAIN g => OfBank(g[k], Bank(a)) /\ DOMAIN g[k] # {},
         k \notin DOMAIN g => Bank(a) \notin BanksOf(Elements(g))
  PROVE  BanksApart(h)
<1>1. /\ \A l \in DOMAIN h : l # k => l \in DOMAIN g /\ h[l] = g[l]
      /\ \A i \in DOMAIN h[k] : i # n => k \in DOMAIN g /\ i \in DOMAIN g[k] /\ h[k][i] = g[k][i]
      /\ h[k][n] = a
  BY DEF TakesAt
<1>2. \A l \in DOMAIN g : \A i \in DOMAIN g[l] : l # k => Bank(g[l][i]) # Bank(a)
  <2> SUFFICES ASSUME NEW l \in DOMAIN g, NEW i \in DOMAIN g[l], l # k
               PROVE  Bank(g[l][i]) # Bank(a)
    OBVIOUS
  <2>1. CASE k \in DOMAIN g
    <3>1. PICK j \in DOMAIN g[k] : Bank(g[k][j]) = Bank(a)
      BY <2>1 DEF OfBank
    <3>2. QED
      BY <2>1, <3>1 DEF BanksApart
  <2>2. CASE k \notin DOMAIN g
    <3>1. g[l][i] \in Elements(g)
      BY ElementsAre
    <3>2. QED
      BY <2>2, <3>1 DEF BanksOf
  <2>3. QED
    BY <2>1, <2>2
<1>3. \A i \in DOMAIN h[k] : Bank(h[k][i]) = Bank(a)
  BY <1>1 DEF OfBank
<1>4. SUFFICES ASSUME NEW l \in DOMAIN h, NEW m \in DOMAIN h, NEW i \in DOMAIN h[l], NEW j \in DOMAIN h[m]
               PROVE  Bank(h[l][i]) = Bank(h[m][j]) <=> l = m
  BY DEF BanksApart
<1>5. CASE l = k \/ m = k
  BY <1>1, <1>2, <1>3, <1>5
<1>6. CASE l # k /\ m # k
  BY <1>1, <1>6 DEF BanksApart
<1>7. QED
  BY <1>5, <1>6

LEMMA TakesElements ==
  ASSUME NEW g \in Seq(Seq(Nat)), NEW h, NEW a \in Nat, Takes(g, h, a)
  PROVE  Elements(h) = Elements(g) \cup {a}
BY TakesPlaces

(* A state in which the groups tell the banks apart *)
Telling ==
  /\ Types /\ Exact /\ BanksApart(groups) /\ Filled
  /\ Elements(groups) \subseteq DOMAIN dram.cells

LEMMA JoinedApart ==
  ASSUME Telling, NEW a \in DOMAIN dram.cells, a \in Nat, NEW k \in DOMAIN groups,
         OfBank(groups[k], Bank(a)), groups' = Joined(a, k)
  PROVE  /\ BanksApart(groups') /\ Elements(groups') = Elements(groups) \cup {a}
         /\ BanksOf(Elements(groups')) = BanksOf(Elements(groups)) /\ Takes(groups, groups', a)
<1>1. groups \in Seq(Seq(Nat)) /\ BanksApart(groups) /\ groups[k] # << >>
  BY DEF Telling, Types, Filled
<1>2. Takes(groups, groups', a) /\ TakesAt(groups, groups', a, k, Len(groups[k]) + 1)
  BY <1>1, JoinsAt DEF Joined, Takes
<1>3. groups[k] \in Seq(Nat)
  BY <1>1
<1>4. 1 \in DOMAIN groups[k]
  BY <1>1, <1>3
<1>5. Elements(groups') = Elements(groups) \cup {a}
  <2>1. groups \in Seq(Seq(Nat)) /\ Takes(groups, groups', a) /\ a \in Nat
    BY <1>1, <1>2
  <2>2. QED
    BY <2>1, TakesElements
<1>6. BanksApart(groups')
  <2>1. DOMAIN groups[k] # {}
    BY <1>4
  <2>2. TakesAt(groups, groups', a, k, Len(groups[k]) + 1) /\ BanksApart(groups)
    BY <1>1, <1>2
  <2>3. QED
    BY <2>1, <2>2, TakenApart
<1>7. groups[k][1] \in Elements(groups) /\ Bank(groups[k][1]) = Bank(a)
  BY <1>4, ElementsAre DEF OfBank
<1>8. BanksOf(Elements(groups')) = BanksOf(Elements(groups))
  BY <1>5, <1>7 DEF BanksOf
<1>9. QED
  BY <1>2, <1>5, <1>6, <1>8

LEMMA AddsToBank ==
  ASSUME Telling, NEW a \in DOMAIN dram.cells, a \in Nat, a \notin Elements(groups),
         AddAddress(a) \/ Grouping!AddAddress(a)
  PROVE  BanksApart(groups') /\ Elements(groups') = Elements(groups) \cup {a}
<1>1. AddAddress(a)
  <2>0. \A S : Grouping!Cardinality(S) = Cardinality(S)
    BY DEF Cardinality, Grouping!Cardinality
  <2>1. \A g, t : Grouping!Conflicts(a, g, t) = Conflicts(a, g, t)
    <3>1. \A b : Grouping!Conflict(a, b) <=> Conflict(a, b)
      BY DEF Conflict, Bank, Row, Grouping!Conflict, Grouping!Bank, Grouping!Row
    <3>2. \A g, t : {i \in t : Grouping!Conflict(a, g[i])} = {i \in t : Conflict(a, g[i])}
      BY <3>1
    <3>3. QED
      BY <2>0, <3>2 DEF Conflicts, Grouping!Conflicts
  <2>2. \A g : Grouping!Samples(g) = Samples(g)
    BY <2>0 DEF Samples, Grouping!Samples
  <2>3. Grouping!MaxWrong = MaxWrong
    BY DEF MaxWrong, Grouping!MaxWrong
  <2>4. \A g : /\ Grouping!MayConflict(a, g) <=> MayConflict(a, g)
               /\ Grouping!MayMiss(a, g) <=> MayMiss(a, g)
    BY <2>0, <2>1, <2>2, <2>3 DEF MayConflict, MayMiss, Grouping!MayConflict, Grouping!MayMiss
  <2>5. Grouping!BankIndices(a) = BankIndices(a)
    BY <2>4 DEF BankIndices, Grouping!BankIndices
  <2>6. QED
    BY <2>5 DEF AddAddress, Grouping!AddAddress, Joined, Grouping!Joined
<1>2. PICK k \in BankIndices(a) : groups' = IF k = 0 THEN Append(groups, <<a>>) ELSE Joined(a, k)
  BY <1>1 DEF AddAddress
<1>3. \/ k \in DOMAIN groups /\ OfBank(groups[k], Bank(a)) /\ k # 0
      \/ k = 0 /\ Bank(a) \notin BanksOf(Elements(groups))
  BY FindsBank DEF Telling
<1>4. CASE k # 0
  BY <1>2, <1>3, <1>4, JoinedApart
<1>5. CASE k = 0
  <2>1. groups \in Seq(Seq(Nat)) /\ BanksApart(groups)
    BY DEF Telling, Types
  <2>2. Takes(groups, groups', a) /\ TakesAt(groups, groups', a, Len(groups) + 1, 1)
    BY <1>2, <1>5, <2>1, AppendsAt DEF Takes
  <2>3. Elements(groups') = Elements(groups) \cup {a}
    BY <2>1, <2>2, TakesElements
  <2>4. Len(groups) + 1 \notin DOMAIN groups
    BY <2>1
  <2>5. BanksApart(groups')
    BY <1>3, <1>5, <2>1, <2>2, <2>4, TakenApart
  <2>6. QED
    BY <2>3, <2>5
<1>6. QED
  BY <1>4, <1>5

LEMMA ExtendsBank ==
  ASSUME Telling, NEW a \in DOMAIN dram.cells, a \in Nat, NEW added, AddToExisting(a, added)
  PROVE  /\ added \in BOOLEAN /\ BanksApart(groups')
         /\ BanksOf(Elements(groups')) = BanksOf(Elements(groups))
         /\ added => Takes(groups, groups', a) /\ Elements(groups') = Elements(groups) \cup {a}
         /\ ~ added => groups' = groups
         /\ ~ added /\ a \notin Elements(groups) => Bank(a) \notin BanksOf(Elements(groups))
<1>1. PICK k \in BankIndices(a) : /\ groups' = IF k = 0 THEN groups ELSE Joined(a, k)
                                  /\ added = (k # 0)
  BY DEF AddToExisting
<1>2. \/ k \in DOMAIN groups /\ OfBank(groups[k], Bank(a)) /\ k # 0
      \/ k = 0 /\ (a \notin Elements(groups) => Bank(a) \notin BanksOf(Elements(groups)))
  BY FindsBank DEF Telling
<1>3. CASE k # 0
  BY <1>1, <1>2, <1>3, JoinedApart
<1>4. CASE k = 0
  BY <1>1, <1>2, <1>4 DEF Telling
<1>5. QED
  BY <1>3, <1>4

-----------------------------------------------------------------------------
(* What sorting and erasing keep *)

LEMMA SortKeeps ==
  ASSUME NEW g, NEW I, IsFiniteSet(I), \A i \in I : g[i] \in Int
  PROVE  Range(SortedPart(g, I)) = {g[i] : i \in I}
<1> DEFINE upTo(v) == {i \in I : g[i] <= v}
           below(v) == {i \in I : g[i] < v}
           n == Cardinality(I)
           p == SortedPart(g, I)
<1>1. n \in Nat /\ DOMAIN p = 1 .. n
  BY FS_CardinalityType DEF SortedPart
<1>2. ASSUME NEW k \in 1 .. n
      PROVE  p[k] \in {g[i] : i \in I}
  <2>1. HasRank(p[k], k, g, I)
    BY <1>2, SortedAt
  <2> HIDE DEF p
  <2>2. QED
    BY <2>1 DEF HasRank
<1>3. ASSUME NEW i \in I
      PROVE  \E k \in 1 .. n : p[k] = g[i]
  <2> DEFINE k == Cardinality(upTo(g[i]))
  <2>1. g[i] \in Int /\ i \in upTo(g[i]) /\ i \notin below(g[i])
    OBVIOUS
  <2>2. below(g[i]) \subseteq upTo(g[i]) /\ upTo(g[i]) \subseteq I /\ below(g[i]) # upTo(g[i])
    BY <2>1
  <2>3. IsFiniteSet(upTo(g[i])) /\ IsFiniteSet(below(g[i])) /\ k \in Nat /\ k <= n
    <3> HIDE DEF upTo, below
    <3>1. QED
      BY <2>2, FS_Subset, FS_CardinalityType
  <2>4. Cardinality(below(g[i])) < k
    <3>1. /\ Cardinality(below(g[i])) <= k
          /\ Cardinality(below(g[i])) = k => below(g[i]) = upTo(g[i])
      <4> HIDE DEF upTo, below
      <4>1. QED
        BY <2>2, <2>3, FS_Subset
    <3>2. Cardinality(below(g[i])) \in Nat
      BY <2>3, FS_CardinalityType
    <3> HIDE DEF upTo, below
    <3>3. QED
      BY <2>2, <2>3, <3>1, <3>2
  <2>5. k >= 1
    <3>1. Cardinality(below(g[i])) \in Nat
      BY <2>3, FS_CardinalityType
    <3> HIDE DEF upTo, below
    <3>2. QED
      BY <2>3, <2>4, <3>1
  <2>6. k \in 1 .. n /\ k >= k
    <3> HIDE DEF upTo, below
    <3>1. QED
      BY <1>1, <2>3, <2>5
  <2>7. p[k] = g[i]
    <3>1. /\ Cardinality({j \in I : g[j] < g[i]}) < Cardinality(upTo(g[i]))
          /\ Cardinality({j \in I : g[j] <= g[i]}) >= Cardinality(upTo(g[i]))
          /\ Cardinality(upTo(g[i])) \in 1 .. Cardinality(I)
      BY <2>4, <2>6
    <3>2. PICK m : m = Cardinality(upTo(g[i]))
      OBVIOUS
    <3>3. PICK v : v = g[i]
      OBVIOUS
    <3>4. /\ v \in {g[j] : j \in I} /\ m \in 1 .. Cardinality(I)
          /\ Cardinality({j \in I : g[j] < v}) < m
          /\ Cardinality({j \in I : g[j] <= v}) >= m
      BY <3>1, <3>2, <3>3
    <3>5. SortedPart(g, I)[m] = v
      <4> HIDE DEF p, upTo, below, n, k
      <4>1. QED
        BY <3>4, SortedAtIsUnique
    <3>6. QED
      BY <3>2, <3>3, <3>5
  <2>8. QED
    BY <2>6, <2>7
<1> HIDE DEF p, n
<1>4. QED
  BY <1>1, <1>2, <1>3 DEF Range, p

LEMMA SortedAllKeeps ==
  ASSUME NEW g \in Seq(Seq(Nat)), NEW h, NEW I,
         \A k \in DOMAIN g : I[k] \subseteq DOMAIN g[k],
         h = SortedAll(g, I)
  PROVE  /\ h \in Seq(Seq(Nat)) /\ DOMAIN h = DOMAIN g
         /\ \A k \in DOMAIN g : Range(h[k]) = {g[k][i] : i \in I[k]}
         /\ BanksApart(g) => BanksApart(h)
<1>1. h \in Seq(Seq(Nat)) /\ DOMAIN h = DOMAIN g
  <2>1. h \in Seq(Seq(Nat))
    BY SortsPlaces
  <2>2. QED
    BY <2>1 DEF SortedAll
<1>2. ASSUME NEW k \in DOMAIN g
      PROVE  Range(h[k]) = {g[k][i] : i \in I[k]}
  <2>1. g[k] \in Seq(Nat) /\ I[k] \subseteq DOMAIN g[k] /\ h[k] = SortedPart(g[k], I[k])
    BY <1>2 DEF SortedAll
  <2>2. DOMAIN g[k] = 1 .. Len(g[k]) /\ Len(g[k]) \in Nat
    BY <2>1
  <2>3. IsFiniteSet(I[k])
    BY <2>1, <2>2, IntervalSize, FS_Subset
  <2>4. \A i \in I[k] : g[k][i] \in Int
    BY <2>1
  <2>5. QED
    BY <2>1, <2>3, <2>4, SortKeeps
<1>3. ASSUME BanksApart(g)
      PROVE  BanksApart(h)
  <2>1. \A k \in DOMAIN g : \A i \in DOMAIN h[k] : \E j \in I[k] : h[k][i] = g[k][j]
    <3> SUFFICES ASSUME NEW k \in DOMAIN g, NEW i \in DOMAIN h[k]
                 PROVE  \E j \in I[k] : h[k][i] = g[k][j]
      OBVIOUS
    <3>1. h[k][i] \in Range(h[k])
      BY DEF Range
    <3>2. h[k][i] \in {g[k][j] : j \in I[k]}
      BY <1>2, <3>1
    <3>3. QED
      BY <3>2
  <2>2. SUFFICES ASSUME NEW k \in DOMAIN g, NEW l \in DOMAIN g,
                        NEW i \in DOMAIN h[k], NEW j \in DOMAIN h[l]
                 PROVE  Bank(h[k][i]) = Bank(h[l][j]) <=> k = l
    BY <1>1 DEF BanksApart
  <2>3. PICK m \in DOMAIN g[k] : h[k][i] = g[k][m]
    BY <2>1
  <2>4. PICK n \in DOMAIN g[l] : h[l][j] = g[l][n]
    BY <2>1
  <2>5. QED
    BY <1>3, <2>3, <2>4 DEF BanksApart
<1>4. QED
  BY <1>1, <1>2, <1>3

LEMMA SortedKeepsAll ==
  ASSUME NEW g \in Seq(Seq(Nat)), NEW h, h = [k \in DOMAIN g |-> Sorted(g[k])]
  PROVE  /\ h \in Seq(Seq(Nat)) /\ DOMAIN h = DOMAIN g
         /\ \A k \in DOMAIN g : Range(h[k]) = Range(g[k])
         /\ Elements(h) = Elements(g) /\ (BanksApart(g) => BanksApart(h))
<1> DEFINE all == [k \in DOMAIN g |-> DOMAIN g[k]]
<1>1. (\A k \in DOMAIN g : all[k] \subseteq DOMAIN g[k]) /\ h = SortedAll(g, all)
  BY DEF Sorted, SortedAll
<1>2. \A k \in DOMAIN g : {g[k][i] : i \in all[k]} = Range(g[k])
  BY DEF Range
<1> HIDE DEF all
<1>3. /\ h \in Seq(Seq(Nat)) /\ DOMAIN h = DOMAIN g
      /\ \A k \in DOMAIN g : Range(h[k]) = {g[k][i] : i \in all[k]}
      /\ BanksApart(g) => BanksApart(h)
  BY <1>1, SortedAllKeeps
<1>4. \A k \in DOMAIN g : Range(h[k]) = Range(g[k])
  BY <1>2, <1>3
<1>5. Elements(h) = Elements(g)
  BY <1>3, <1>4 DEF Elements
<1>6. QED
  BY <1>3, <1>4, <1>5

LEMMA ErasedElements ==
  ASSUME NEW g \in Seq(Seq(Nat)), g # << >>
  PROVE  /\ Elements(g) = Elements(Tail(g)) \cup Range(Head(g))
         /\ BanksApart(g) => BanksApart(Tail(g))
         /\ Filled /\ g = groups => Head(g) # << >>
<1>1. /\ DOMAIN Tail(g) = 1 .. Len(g) - 1 /\ DOMAIN g = 1 .. Len(g) /\ Len(g) \in Nat \ {0}
      /\ \A k \in DOMAIN Tail(g) : Tail(g)[k] = g[k + 1]
      /\ Head(g) = g[1] /\ 1 \in DOMAIN g
  OBVIOUS
<1>2. \A k \in DOMAIN Tail(g) : k + 1 \in DOMAIN g
  BY <1>1
<1>3. \A k \in DOMAIN g : k = 1 \/ (k - 1 \in DOMAIN Tail(g) /\ Tail(g)[k - 1] = g[k])
  BY <1>1
<1>4. Elements(g) = Elements(Tail(g)) \cup Range(Head(g))
  <2> DEFINE h == Tail(g)
             first == Head(g)
  <2>1. \A x : x \in Elements(g) <=> \E k \in DOMAIN g : x \in Range(g[k])
    BY DEF Elements
  <2>2. \A x : x \in Elements(h) <=> \E k \in DOMAIN h : x \in Range(h[k])
    BY DEF Elements
  <2>3. \A k \in DOMAIN h : h[k] = g[k + 1] /\ k + 1 \in DOMAIN g
    BY <1>1, <1>2
  <2>4. \A k \in DOMAIN g : g[k] = first \/ (k - 1 \in DOMAIN h /\ h[k - 1] = g[k])
    BY <1>1, <1>3
  <2>5. 1 \in DOMAIN g /\ first = g[1]
    BY <1>1
  <2> HIDE DEF h, first
  <2>6. Elements(g) \subseteq Elements(h) \cup Range(first)
    BY <2>1, <2>2, <2>4
  <2>7. Elements(h) \cup Range(first) \subseteq Elements(g)
    BY <2>1, <2>2, <2>3, <2>5
  <2>8. QED
    BY <2>6, <2>7 DEF h, first
<1>5. ASSUME BanksApart(g), NEW k \in DOMAIN Tail(g), NEW l \in DOMAIN Tail(g),
             NEW i \in DOMAIN Tail(g)[k], NEW j \in DOMAIN Tail(g)[l]
      PROVE  Bank(Tail(g)[k][i]) = Bank(Tail(g)[l][j]) <=> k = l
  <2>1. Tail(g)[k] = g[k + 1] /\ Tail(g)[l] = g[l + 1] /\ k + 1 \in DOMAIN g /\ l + 1 \in DOMAIN g
    BY <1>1, <1>2
  <2>2. Bank(g[k + 1][i]) = Bank(g[l + 1][j]) <=> k + 1 = l + 1
    BY <1>5, <2>1 DEF BanksApart
  <2>3. k + 1 = l + 1 <=> k = l
    <3>1. k \in Int /\ l \in Int
      BY <1>1
    <3>2. QED
      BY <3>1
  <2>4. QED
    BY <2>1, <2>2, <2>3
<1>6. QED
  BY <1>1, <1>4, <1>5 DEF BanksApart, Filled

LEMMA HeadIs ==
  ASSUME NEW s \in Seq(Nat), s # << >>
  PROVE  Head(s) \in Range(s) /\ Range(s) = {Head(s)} \cup Range(Tail(s))
<1>1. /\ DOMAIN Tail(s) = 1 .. Len(s) - 1 /\ DOMAIN s = 1 .. Len(s) /\ Len(s) \in Nat \ {0}
      /\ \A k \in DOMAIN Tail(s) : Tail(s)[k] = s[k + 1]
      /\ Head(s) = s[1] /\ 1 \in DOMAIN s
  OBVIOUS
<1>2. \A k \in DOMAIN Tail(s) : k + 1 \in DOMAIN s
  BY <1>1
<1>3. \A k \in DOMAIN s : k = 1 \/ (k - 1 \in DOMAIN Tail(s) /\ Tail(s)[k - 1] = s[k])
  BY <1>1
<1>4. Head(s) \in Range(s)
  BY <1>1 DEF Range
<1>5. \A x \in Range(Tail(s)) : x \in Range(s)
  BY <1>1, <1>2 DEF Range
<1>6. \A x \in Range(s) : x = Head(s) \/ x \in Range(Tail(s))
  <2> SUFFICES ASSUME NEW k \in DOMAIN s, k # 1
               PROVE  s[k] \in Range(Tail(s))
    BY <1>1 DEF Range
  <2>1. k - 1 \in DOMAIN Tail(s) /\ Tail(s)[k - 1] = s[k]
    BY <1>3
  <2>2. QED
    BY <2>1 DEF Range
<1>7. QED
  BY <1>4, <1>5, <1>6

-----------------------------------------------------------------------------
(* The initial memory consists of blocks of the initial size, and of their *)
(* halves.                                                                 *)

InitialHeads == UNION {BlocksOf(t, config.initialBlockSize) : t \in InitialTHPs}

LEMMA HeadsAre ==
  ASSUME Types, Regular, InitialMemory # {}
  PROVE  /\ config.initialBlockSize <= THPSize /\ IsPower(config.initialBlockSize)
         /\ InitialMemory \subseteq Nat /\ InitialMemory \subseteq DOMAIN dram.cells
         /\ \A a \in InitialMemory : \E h \in InitialHeads, i \in 0 .. config.initialBlockSize - 1 : a = h + i
         /\ \A h \in InitialHeads : \E q \in Nat : h = q * config.initialBlockSize
         /\ \A h \in InitialHeads, i \in 0 .. config.initialBlockSize - 1 : h + i \in InitialMemory
<1> DEFINE s == config.initialBlockSize
           end == config.endOffset * PageSize
<1>1. /\ s \in Nat \ {0} /\ IsPower(s) /\ THPSize \in Nat
      /\ config.endOffset \in Nat /\ config.endOffset <= PagesPerTHP
      /\ PageSize \in Nat \ {0} /\ PagesPerTHP \in Nat /\ config.startOffset \in Nat
  BY OptionsAre, THPsAre, AmdreAssumption, PowerIs DEF Regular
<1>2. InitialTHPs = 1 .. NInitialTHPs
  BY DEF InitialTHPs
<1>3. \A a \in InitialMemory : \E h \in InitialHeads, i \in 0 .. s - 1 : a = h + i
  BY <1>2 DEF InitialMemory, InitialHeads
<1>4. \A h \in InitialHeads, i \in 0 .. s - 1 : h + i \in InitialMemory
  BY <1>2 DEF InitialMemory, InitialHeads
<1>5. PICK a \in InitialMemory : TRUE
  OBVIOUS
<1>6. PICK t \in InitialTHPs : \E h : h \in BlocksOf(t, s)
  BY <1>3, <1>5 DEF InitialHeads
<1>7. PICK j : j \in config.startOffset .. end \div s - 1
  BY <1>6 DEF BlocksOf
<1>8. s <= THPSize
  <2>1. end \in Nat /\ end <= THPSize
    BY <1>1 DEF THPSize
  <2> HIDE DEF end, s
  <2>2. end \div s \in Nat /\ (end \div s) * s <= end
    BY <1>1, <2>1
  <2>3. end \div s >= 1
    BY <1>1, <1>7, <2>2
  <2>4. (end \div s) * s >= s
    BY <1>1, <2>2, <2>3
  <2>5. QED
    BY <1>1, <2>1, <2>2, <2>4
<1>9. ASSUME NEW h \in InitialHeads
      PROVE  \E q \in Nat : h = q * s
  <2>1. PICK u \in InitialTHPs : h \in BlocksOf(u, s)
    BY DEF InitialHeads
  <2>2. PICK i \in config.startOffset .. end \div s - 1 : h = mappings[u] + i * s
    BY <2>1 DEF BlocksOf
  <2>3. u \in 1 .. NTHPs
    BY OptionsAre DEF InitialTHPs
  <2> HIDE DEF end, s
  <2>4. PICK q \in Nat : mappings[u] = q * s
    BY <1>1, <1>8, <2>3, THPsDivide
  <2>5. i \in Nat
    BY <1>1, <2>2
  <2>6. h = (q + i) * s /\ q + i \in Nat
    BY <1>1, <2>2, <2>4, <2>5
  <2>7. QED
    BY <2>6
<1>10. ASSUME NEW b \in InitialMemory
       PROVE  b \in Nat /\ b \in DOMAIN dram.cells
  <2>1. PICK u \in InitialTHPs, o \in 0 .. THPSize - 1 : b = mappings[u] + o
    BY InitialMemoryInTHP DEF InTHP
  <2>2. u \in 1 .. NTHPs
    BY OptionsAre DEF InitialTHPs
  <2>3. mappings[u] \in Nat
    BY <2>2, THPsAre
  <2>4. b \in DOMAIN dram.cells
    BY <2>1, <2>2, THPsAre
  <2>5. QED
    BY <1>1, <2>1, <2>3, <2>4
<1>11. QED
  BY <1>1, <1>3, <1>4, <1>8, <1>9, <1>10

(* A multiple of the initial size is a head. *)
LEMMA MultiplesAreHeads ==
  ASSUME Types, Regular, NEW a \in InitialMemory, a % config.initialBlockSize = 0
  PROVE  a \in InitialHeads
<1>1. PICK s \in Nat \ {0} : s = config.initialBlockSize
  BY OptionsAre
<1>2. PICK h \in InitialHeads, i \in 0 .. s - 1 : a = h + i
  BY <1>1, HeadsAre
<1>3. PICK q \in Nat : h = q * s
  BY <1>1, HeadsAre
<1>4. a \in Nat /\ a % s = 0
  BY <1>1, HeadsAre
<1>5. PICK r \in Nat : a = r * s
  BY <1>4, RemainderIs
<1>6. (r - q) * s = i
  BY <1>1, <1>2, <1>3, <1>5
<1>7. r - q >= 1 => (r - q) * s >= s
  BY <1>1
<1>8. r - q <= -1 => (r - q) * s <= -s
  BY <1>1
<1>9. r - q = 0
  BY <1>1, <1>6, <1>7, <1>8
<1>10. i = 0
  BY <1>6, <1>9
<1>11. QED
  BY <1>2, <1>3, <1>10

(* Blocks of the initial size contain all halves of smaller blocks. *)
LEMMA HalvesInMemory ==
  ASSUME Types, Regular, NEW t \in Nat \ {0}, IsPower(2 * t), 2 * t <= config.initialBlockSize,
         NEW a \in InitialMemory
  PROVE  /\ a % (2 * t) = 0 => a + t \in InitialMemory
         /\ a % t = 0 /\ a % (2 * t) # 0 =>
              a - t \in InitialMemory /\ (a - t) % (2 * t) = 0
<1>1. PICK s \in Nat \ {0} : s = config.initialBlockSize /\ IsPower(s)
  BY OptionsAre, HeadsAre
<1>2. PICK h \in InitialHeads, i \in 0 .. s - 1 : a = h + i
  BY <1>1, HeadsAre
<1>3. PICK q \in Nat : h = q * s
  BY <1>1, HeadsAre
<1>4. PICK d \in Nat \ {0} : d = 2 * t
  OBVIOUS
<1>5. PICK e \in Nat \ {0} : s = e * d
  BY <1>1, <1>4, PowersCompare
<1>6. a \in Nat /\ h \in Nat /\ h = (q * e) * d /\ q * e \in Nat
  BY <1>1, <1>2, <1>3, <1>4, <1>5
<1>7. ASSUME a % d = 0
      PROVE  a + t \in InitialMemory
  <2>1. i + d <= s
    <3>1. (h + i) % d = 0
      BY <1>2, <1>7
    <3>2. QED
      BY <1>1, <1>4, <1>5, <1>6, <3>1, BlockEndsInTHP
  <2>2. i + t \in 0 .. s - 1
    BY <1>1, <1>2, <1>4, <2>1
  <2>3. a + t = h + (i + t)
    BY <1>2, <1>6
  <2>4. QED
    BY <1>1, <2>2, <2>3, HeadsAre
<1>8. ASSUME a % t = 0, a % d # 0
      PROVE  a - t \in InitialMemory /\ (a - t) % d = 0
  <2>1. PICK r \in Nat : a = r * t
    BY <1>6, <1>8, RemainderIs
  <2>2. \A u \in Nat : a # u * d
    <3>1. a \in Nat /\ d \in Nat \ {0}
      BY <1>4, <1>6
    <3>2. QED
      BY <1>8, <3>1, RemainderIs
  <2>3. PICK u \in Nat : r = 2 * u \/ r = 2 * u + 1
    <3>1. r = 2 * (r \div 2) \/ r = 2 * (r \div 2) + 1
      OBVIOUS
    <3>2. QED
      BY <3>1
  <2>4. r # 2 * u
    <3>1. ASSUME r = 2 * u
          PROVE  a = u * d
      BY <1>4, <2>1, <3>1
    <3>2. QED
      BY <2>2, <3>1
  <2>5. a = u * d + t
    BY <1>4, <2>1, <2>3, <2>4
  <2>6. (u - q * e) * d = i - t
    BY <1>2, <1>4, <1>6, <2>5
  <2>7. i >= t
    <3> DEFINE v == u - q * e
    <3>1. v \in Int
      BY <1>6
    <3> HIDE DEF v
    <3>2. v <= -1 => v * d <= -d
      BY <1>4, <3>1
    <3>3. v >= 0 => v * d >= 0
      BY <1>4, <3>1
    <3>4. v * d = i - t
      BY <2>6 DEF v
    <3>5. QED
      BY <1>4, <3>1, <3>2, <3>3, <3>4
  <2>8. i - t \in 0 .. s - 1 /\ a - t = h + (i - t)
    BY <1>1, <1>2, <1>6, <2>7
  <2>9. a - t \in InitialMemory
    BY <1>1, <2>8, HeadsAre
  <2>10. a - t = u * d /\ a - t \in Nat
    BY <1>4, <2>5
  <2>11. QED
    BY <1>4, <2>9, <2>10, RemainderIs
<1>9. QED
  BY <1>4, <1>7, <1>8

-----------------------------------------------------------------------------
(* The blocks that were offered *)

LEMMA BlocksFit ==
  ASSUME Types, blockSize # 0
  PROVE  EndBlock \in Nat
<1> DEFINE end == config.endOffset * PageSize
<1>1. blockSize \in Nat \ {0} /\ end \in Nat
  <2>1. config.endOffset \in Nat /\ PageSize \in Nat
    BY OptionsAre, AmdreAssumption
  <2>2. QED
    BY <2>1 DEF Types
<1> HIDE DEF end
<1>2. end \div blockSize \in Nat
  BY <1>1
<1>3. QED
  BY <1>2 DEF EndBlock, end

LEMMA OfferedIs ==
  ASSUME Types, blockSize # 0, NEW ts, ts \subseteq 1 .. NTHPs
  PROVE  /\ \A a : WasOffered(a, ts) => IsOffered(a, ts) /\ a \in DOMAIN dram.cells
         /\ \A a : a \in Offered(ts) <=> WasOffered(a, ts)
<1>1. ASSUME NEW a, WasOffered(a, ts)
      PROVE  IsOffered(a, ts) /\ a \in DOMAIN dram.cells
  <2>1. PICK t \in ts, i \in config.startOffset .. EndBlock - 1 :
          (t <= thp \/ (t = thp + 1 /\ i < block)) /\ a = mappings[t] + i * blockSize
    BY <1>1 DEF WasOffered
  <2>2. i \in Nat /\ i < EndBlock /\ config.startOffset \in Nat
    <3>1. config.startOffset \in Nat /\ i \in Int
      BY OptionsAre
    <3>2. EndBlock \in Int
      BY BlocksFit
    <3>3. QED
      BY <3>1, <3>2
  <2>3. i \in config.startOffset .. THPSize - 1 /\ i * blockSize \in 0 .. THPSize - 1 /\ blockSize <= THPSize
    BY <2>2, BlockIs
  <2>4. i * blockSize < THPSize
    BY <2>3, THPsAre
  <2>5. IsOffered(a, ts)
    BY <2>1, <2>3, <2>4 DEF IsOffered
  <2>6. a \in DOMAIN dram.cells
    BY <2>1, <2>3, THPsAre
  <2>7. QED
    BY <2>5, <2>6
<1>2. QED
  BY <1>1 DEF Offered

LEMMA NewBlockOffered ==
  ASSUME Types, blockSize # 0, thp < NTHPs, block < EndBlock, block >= config.startOffset,
         NEW ts, ts \subseteq 1 .. NTHPs, thp + 1 \in ts,
         UNCHANGED <<dram, config, blockSize, mappings, thp>>, block' = block + 1
  PROVE  /\ BlockAddress \in DOMAIN dram.cells /\ BlockAddress \notin Offered(ts)
         /\ Offered(ts)' = Offered(ts) \cup {BlockAddress}
<1>1. thp \in Nat /\ block \in Nat /\ config.startOffset \in Nat /\ EndBlock \in Int
  BY OptionsAre, BlocksFit DEF Types
<1>2. block \in config.startOffset .. EndBlock - 1 /\ EndBlock' = EndBlock
  BY <1>1 DEF EndBlock
<1>3. block * blockSize \in 0 .. THPSize - 1 /\ thp + 1 \in 1 .. NTHPs
  BY BlocksAre
<1>4. BlockAddress \in DOMAIN dram.cells
  BY <1>3, THPsAre DEF BlockAddress
<1>5. BlockAddress \notin Offered(ts)
  BY OfferedIs, OfferedOther DEF Offered
<1>6. ASSUME NEW a
      PROVE  WasOffered(a, ts)' <=> WasOffered(a, ts) \/ a = BlockAddress
  <2>1. WasOffered(a, ts)' <=> \E t \in ts, i \in config.startOffset .. EndBlock - 1 :
          (t <= thp \/ (t = thp + 1 /\ i < block + 1)) /\ a = mappings[t] + i * blockSize
    BY <1>2 DEF WasOffered
  <2>2. \A i \in config.startOffset .. EndBlock - 1 : i < block + 1 <=> i < block \/ i = block
    BY <1>1
  <2>3. \A t \in ts, i \in config.startOffset .. EndBlock - 1 :
          /\ (t <= thp \/ (t = thp + 1 /\ i < block + 1)) =>
               (t <= thp \/ (t = thp + 1 /\ i < block)) \/ (t = thp + 1 /\ i = block)
          /\ (t <= thp \/ (t = thp + 1 /\ i < block)) \/ (t = thp + 1 /\ i = block) =>
               (t <= thp \/ (t = thp + 1 /\ i < block + 1))
    BY <2>2
  <2>4. ASSUME WasOffered(a, ts)'
        PROVE  WasOffered(a, ts) \/ a = BlockAddress
    <3>1. PICK t \in ts, i \in config.startOffset .. EndBlock - 1 :
            (t <= thp \/ (t = thp + 1 /\ i < block + 1)) /\ a = mappings[t] + i * blockSize
      BY <2>1, <2>4
    <3>2. (t <= thp \/ (t = thp + 1 /\ i < block)) \/ (t = thp + 1 /\ i = block)
      BY <2>3, <3>1
    <3>3. QED
      BY <3>1, <3>2 DEF WasOffered, BlockAddress
  <2>5. ASSUME WasOffered(a, ts)
        PROVE  WasOffered(a, ts)'
    <3>1. PICK t \in ts, i \in config.startOffset .. EndBlock - 1 :
            (t <= thp \/ (t = thp + 1 /\ i < block)) /\ a = mappings[t] + i * blockSize
      BY <2>5 DEF WasOffered
    <3>2. QED
      BY <2>1, <2>3, <3>1
  <2>6. ASSUME a = BlockAddress
        PROVE  WasOffered(a, ts)'
    <3>1. block < block + 1
      BY <1>1
    <3>2. QED
      BY <1>2, <2>1, <2>6, <3>1 DEF BlockAddress
  <2>7. QED
    BY <2>4, <2>5, <2>6
<1>7. Offered(ts)' = Offered(ts) \cup {BlockAddress}
  BY <1>4, <1>6 DEF Offered
<1>8. QED
  BY <1>4, <1>5, <1>7

LEMMA NextTHPOffered ==
  ASSUME Types, blockSize # 0, block >= EndBlock, NEW ts, ts \subseteq 1 .. NTHPs,
         UNCHANGED <<dram, config, blockSize, mappings>>, thp' = thp + 1, block' = config.startOffset
  PROVE  Offered(ts)' = Offered(ts)
<1>1. thp \in Nat /\ block \in Nat /\ config.startOffset \in Nat /\ EndBlock \in Int
      /\ ts \subseteq Nat
  BY OptionsAre, BlocksFit DEF Types
<1>2. EndBlock' = EndBlock
  BY DEF EndBlock
<1>3. \A t \in ts, i \in config.startOffset .. EndBlock - 1 :
        (t <= thp + 1 \/ (t = (thp + 1) + 1 /\ i < config.startOffset)) <=>
          (t <= thp \/ (t = thp + 1 /\ i < block))
  BY <1>1
<1>4. ASSUME NEW a
      PROVE  WasOffered(a, ts)' <=> WasOffered(a, ts)
  <2>1. WasOffered(a, ts)' <=> \E t \in ts, i \in config.startOffset .. EndBlock - 1 :
          (t <= thp + 1 \/ (t = (thp + 1) + 1 /\ i < config.startOffset)) /\ a = mappings[t] + i * blockSize
    BY <1>2 DEF WasOffered
  <2>2. QED
    BY <1>3, <2>1 DEF WasOffered
<1>5. QED
  BY <1>4 DEF Offered

LEMMA NothingOffered ==
  Types /\ thp = NInitialTHPs /\ block = config.startOffset => Offered(AdditionalTHPs) = {}
<1> SUFFICES ASSUME Types, thp = NInitialTHPs, block = config.startOffset
             PROVE  Offered(AdditionalTHPs) = {}
  OBVIOUS
<1>1. NInitialTHPs \in Nat /\ config.startOffset \in Nat
  BY OptionsAre
<1>2. \A t \in AdditionalTHPs, i \in config.startOffset .. EndBlock - 1 :
        ~ (t <= thp \/ (t = thp + 1 /\ i < block))
  BY <1>1 DEF AdditionalTHPs
<1>3. QED
  BY <1>2 DEF Offered, WasOffered

OfferedBlocks == UNION {BlocksOf(t, blockSize) : t \in NInitialTHPs + 1 .. NTHPs}

LEMMA AllOffered ==
  ASSUME Types, blockSize # 0
  PROVE  /\ thp >= NTHPs => Offered(AdditionalTHPs) = OfferedBlocks
         /\ thp >= NInitialTHPs /\ blockSize = config.initialBlockSize =>
              InitialHeads \subseteq Offered(InitialTHPs)
<1>1. NInitialTHPs \in Nat /\ NTHPs \in Nat /\ NInitialTHPs <= NTHPs /\ thp \in 0 .. NTHPs
  BY OptionsAre DEF Types
<1>2. \A t : BlocksOf(t, blockSize) = {mappings[t] + i * blockSize : i \in config.startOffset .. EndBlock - 1}
  BY DEF BlocksOf, EndBlock
<1>3. AdditionalTHPs \subseteq 1 .. NTHPs /\ InitialTHPs \subseteq 1 .. NTHPs
      /\ AdditionalTHPs = NInitialTHPs + 1 .. NTHPs
  BY <1>1 DEF AdditionalTHPs, InitialTHPs
<1>4. ASSUME thp >= NTHPs, NEW a
      PROVE  a \in OfferedBlocks <=> WasOffered(a, AdditionalTHPs)
  <2>1. \A t \in AdditionalTHPs : t <= thp
    BY <1>1, <1>3, <1>4
  <2>2. WasOffered(a, AdditionalTHPs) <=>
          \E t \in AdditionalTHPs, i \in config.startOffset .. EndBlock - 1 : a = mappings[t] + i * blockSize
    BY <2>1 DEF WasOffered
  <2>3. a \in OfferedBlocks <=> \E t \in AdditionalTHPs : a \in BlocksOf(t, blockSize)
    BY <1>3 DEF OfferedBlocks
  <2>4. QED
    BY <1>2, <2>2, <2>3
<1>5. ASSUME thp >= NInitialTHPs, blockSize = config.initialBlockSize, NEW a \in InitialHeads
      PROVE  WasOffered(a, InitialTHPs)
  <2>1. \A t \in InitialTHPs : t <= thp
    BY <1>1, <1>5 DEF InitialTHPs
  <2>2. PICK t \in InitialTHPs : a \in BlocksOf(t, blockSize)
    BY <1>5 DEF InitialHeads
  <2>3. QED
    BY <1>2, <2>1, <2>2 DEF WasOffered
<1>6. QED
  BY <1>3, <1>4, <1>5, OfferedIs

(* The multiples of s that lie in S * p .. E - s *)
LEMMA MultiplesBetween ==
  ASSUME NEW s \in Nat \ {0}, NEW p \in Nat \ {0}, NEW S \in Nat, NEW E \in Nat, S = 0 \/ s = p
  PROVE  {i * s : i \in S .. E \div s - 1} = {o \in S * p .. E - s : o % s = 0}
<1> DEFINE q == E \div s
           lower == S * p
<1>1. q \in Nat /\ q * s <= E /\ E < q * s + s
  <2>1. E = q * s + (E % s) /\ E % s \in 0 .. s - 1 /\ q \in Nat
    OBVIOUS
  <2> HIDE DEF q
  <2>2. q * s \in Nat
    BY <2>1
  <2>3. QED
    BY <2>1, <2>2
<1>2. lower \in Nat /\ \A i \in Nat : i * s >= lower <=> i >= S
  <2>1. CASE S = 0
    <3>1. lower = 0
      BY <2>1
    <3>2. \A i \in Nat : i * s >= 0
      OBVIOUS
    <3>3. QED
      BY <2>1, <3>1, <3>2
  <2>2. CASE s = p
    <3>1. lower = S * s /\ lower \in Nat
      BY <2>2
    <3>2. ASSUME NEW i \in Nat, i >= S PROVE i * s >= S * s
      BY <3>2
    <3>3. ASSUME NEW i \in Nat, i < S PROVE i * s < S * s
      <4>1. (i + 1) * s <= S * s
        BY <3>3
      <4>2. (i + 1) * s = i * s + s
        OBVIOUS
      <4>3. i * s \in Nat /\ S * s \in Nat
        OBVIOUS
      <4>4. QED
        BY <4>1, <4>2, <4>3
    <3>4. \A i \in Nat : i * s \in Nat
      OBVIOUS
    <3>5. QED
      BY <3>1, <3>2, <3>3, <3>4
  <2>3. QED
    BY <2>1, <2>2
<1> HIDE DEF q, lower
<1>3. \A i \in Nat : i <= q - 1 <=> i * s <= E - s
  <2>1. ASSUME NEW i \in Nat, i <= q - 1 PROVE i * s <= E - s
    <3>1. (i + 1) * s <= q * s
      BY <1>1, <2>1
    <3>2. (i + 1) * s = i * s + s
      OBVIOUS
    <3>3. i * s \in Nat /\ q * s \in Nat
      BY <1>1
    <3>4. QED
      BY <1>1, <3>1, <3>2, <3>3
  <2>2. ASSUME NEW i \in Nat, i >= q PROVE i * s > E - s
    <3>1. i * s >= q * s
      BY <1>1, <2>2
    <3>2. i * s \in Nat /\ q * s \in Nat
      BY <1>1
    <3>3. QED
      BY <1>1, <3>1, <3>2
  <2>3. QED
    BY <1>1, <2>1, <2>2
<1>4. ASSUME NEW i \in S .. q - 1
      PROVE  i * s \in {o \in lower .. E - s : o % s = 0}
  <2>1. i \in Nat
    BY <1>1
  <2>2. i * s \in Nat
    BY <2>1
  <2>3. i * s >= lower /\ i * s <= E - s
    BY <1>1, <1>2, <1>3, <2>1
  <2>4. (i * s) % s = 0
    BY <2>1, <2>2, RemainderIs
  <2>5. QED
    BY <1>2, <2>2, <2>3, <2>4
<1>5. ASSUME NEW o \in lower .. E - s, o % s = 0
      PROVE  \E i \in S .. q - 1 : o = i * s
  <2>1. o \in Nat
    BY <1>2
  <2>2. PICK i \in Nat : o = i * s
    BY <1>5, <2>1, RemainderIs
  <2>3. i >= S /\ i <= q - 1
    BY <1>2, <1>3, <2>2
  <2>4. QED
    BY <1>1, <2>2, <2>3
<1>6. QED
  BY <1>4, <1>5 DEF q, lower

(* The loop of addTHPToBankGroup offers the blocks that -S and -E are      *)
(* documented to mean.                                                     *)
LEMMA OfferedAreAdditional ==
  ASSUME Types, blockSize # 0, config.startOffset = 0 \/ blockSize = PageSize
  PROVE  OfferedBlocks = AdditionalBlocks
<1> DEFINE end == config.endOffset * PageSize
           indices == config.startOffset .. end \div blockSize - 1
<1>1. blockSize \in Nat \ {0} /\ PageSize \in Nat \ {0} /\ end \in Nat /\ config.startOffset \in Nat
  <2>1. config.endOffset \in Nat /\ PageSize \in Nat \ {0} /\ config.startOffset \in Nat
    BY OptionsAre, AmdreAssumption
  <2>2. QED
    BY <2>1 DEF Types
<1>2. \A t : BlocksOf(t, blockSize) = {mappings[t] + i * blockSize : i \in indices}
  BY DEF BlocksOf
<1> HIDE DEF end
<1>3. {i * blockSize : i \in indices} = PageBlocks
  <2>1. {i * blockSize : i \in indices} =
          {o \in config.startOffset * PageSize .. end - blockSize : o % blockSize = 0}
    BY <1>1, MultiplesBetween
  <2>2. QED
    BY <2>1 DEF PageBlocks, end
<1> HIDE DEF indices
<1>4. \A t : BlocksOf(t, blockSize) = {mappings[t] + o : o \in PageBlocks}
  BY <1>2, <1>3
<1>5. QED
  BY <1>4 DEF OfferedBlocks, AdditionalBlocks

-----------------------------------------------------------------------------
(* Until the block size is chosen *)

Known ==
  /\ Types /\ Sound /\ Regular /\ Exact /\ Placed
  /\ Elements(groups) \cup Range(held) \subseteq DOMAIN dram.cells

LEMMA Stay ==
  ASSUME UNCHANGED <<dram, config, mappings>>
  PROVE  /\ InitialMemory' = InitialMemory /\ (Falling' <=> Falling) /\ InitialHeads' = InitialHeads
         /\ (BanksApart(groups)' <=> BanksApart(groups'))
         /\ (Covered' <=> BanksOf(InitialMemory) \subseteq BanksOf(Elements(groups')))
<1>1. \A a : Bank(a)' = Bank(a)
  BY DEF Bank
<1>2. InitialMemory' = InitialMemory /\ InitialHeads' = InitialHeads
  BY DEF InitialMemory, InitialHeads, BlocksOf, InitialTHPs
<1>3. BanksApart(groups)' <=> BanksApart(groups')
  BY DEF BanksApart, Bank
<1>4. /\ BanksOf(InitialMemory)' = BanksOf(InitialMemory)
      /\ BanksOf(Elements(groups))' = BanksOf(Elements(groups'))
  BY <1>2 DEF BanksOf, Bank
<1>5. QED
  BY <1>2, <1>3, <1>4 DEF Falling, Covered

LEMMA EarlyPlaced ==
  ASSUME UNCHANGED <<dram, config, mappings>>, pc' = "main", phase' \in {"fill", "regroup", "add"},
         nErrors' = 0, blockSize' = config.initialBlockSize, BanksApart(groups'),
         Elements(groups') \cup Range(held') \subseteq InitialMemory,
         phase' = "fill" => Offered(InitialTHPs)' \subseteq Elements(groups'),
         phase' = "regroup" => InitialHeads \subseteq Elements(groups') \cup Range(held'),
         phase' = "add" => InitialHeads \subseteq Elements(groups') /\ Filled',
         BlockHeads' \subseteq InitialHeads
  PROVE  Placed'
<1>1. Origins' /\ Counting' /\ Falls' /\ BanksApart(groups)'
  BY Stay DEF Origins, Counting, Falls
<1>2. HeadsComplete'
  BY DEF HeadsComplete
<1>3. QED
  BY <1>1, <1>2 DEF Placed

LEMMA BlockHeadsAre ==
  ASSUME Types, Regular, UNCHANGED <<dram, config, mappings>>, blockSize' = config.initialBlockSize
  PROVE  BlockHeads' \subseteq InitialHeads
<1>1. \A a \in BlockHeads' : a \in InitialMemory /\ a % config.initialBlockSize = 0
  BY Stay DEF BlockHeads
<1>2. QED
  BY <1>1, MultiplesAreHeads

LEMMA FillPlaced ==
  ASSUME Known, phase = "fill", AddBlock,
         UNCHANGED <<dram, config, blockSize, pc, mappings, phase, held>>
  PROVE  Placed'
<1>1. /\ Types /\ Regular /\ Exact /\ Placed /\ Filling /\ blockSize # 0 /\ pc = "main"
      /\ blockSize = config.initialBlockSize /\ held = << >>
      /\ Elements(groups) \subseteq DOMAIN dram.cells
  BY DEF Known, Sound, Filling, Types
<1>2. /\ thp < NInitialTHPs /\ block < EndBlock /\ block >= config.startOffset
      /\ block' = block + 1 /\ thp' = thp /\ nErrors' = nErrors /\ AddAddress(BlockAddress)
  BY <1>1 DEF AddBlock, Filling
<1>3. /\ thp < NTHPs /\ thp + 1 \in InitialTHPs /\ InitialTHPs \subseteq 1 .. NTHPs
      /\ block \in Nat /\ config.startOffset \in Nat /\ EndBlock \in Nat
  BY <1>1, <1>2, OptionsAre, BlocksFit DEF Types, InitialTHPs
<1>4. PICK a : a = BlockAddress
  OBVIOUS
<1>5. a \in DOMAIN dram.cells /\ Offered(InitialTHPs)' = Offered(InitialTHPs) \cup {a}
  BY <1>1, <1>2, <1>3, <1>4, NewBlockOffered
<1>6. a \in Nat
  BY <1>1, <1>3, <1>4, NextBlockIs
<1>7. a \notin Elements(groups)
  BY <1>1, <1>2, <1>3, <1>4, OfferedOther DEF Filling
<1>8. Telling
  BY <1>1 DEF Telling, Placed, Filling
<1>9. BanksApart(groups') /\ Elements(groups') = Elements(groups) \cup {a}
  BY <1>2, <1>4, <1>5, <1>6, <1>7, <1>8, AddsToBank
<1>10. a \in InitialMemory
  <2>1. block \in config.startOffset .. EndBlock - 1
    BY <1>2, <1>3
  <2>2. a \in BlocksOf(thp + 1, config.initialBlockSize)
    BY <1>1, <1>4, <2>1 DEF BlocksOf, EndBlock, BlockAddress
  <2>3. a \in InitialHeads
    BY <1>3, <2>2 DEF InitialHeads
  <2>4. 0 \in 0 .. config.initialBlockSize - 1
    BY <1>1, OptionsAre
  <2>5. a + 0 = a
    BY <1>6
  <2>6. a + 0 \in InitialMemory
    BY <1>3, <2>2, <2>4 DEF InitialMemory, InitialTHPs
  <2>7. QED
    BY <2>5, <2>6
<1>11. Elements(groups') \cup Range(held') \subseteq InitialMemory
  BY <1>1, <1>9, <1>10, NoElements DEF Placed, Origins
<1>12. Offered(InitialTHPs)' \subseteq Elements(groups')
  BY <1>1, <1>5, <1>9 DEF Placed, HeadsComplete
<1>13. nErrors' = 0
  BY <1>1, <1>2 DEF Placed, Counting
<1>14. BlockHeads' \subseteq InitialHeads
  BY <1>1, BlockHeadsAre
<1>15. QED
  BY <1>1, <1>9, <1>11, <1>12, <1>13, <1>14, EarlyPlaced

LEMMA FillNextPlaced ==
  ASSUME Known, phase = "fill", NextTHP,
         UNCHANGED <<dram, config, blockSize, pc, mappings, phase, held>>
  PROVE  Placed'
<1>1. /\ Types /\ Regular /\ Placed /\ blockSize # 0 /\ pc = "main"
      /\ blockSize = config.initialBlockSize
  BY DEF Known, Sound, Filling, Types
<1>2. /\ block >= EndBlock /\ thp' = thp + 1 /\ block' = config.startOffset
      /\ groups' = groups /\ nErrors' = nErrors /\ InitialTHPs \subseteq 1 .. NTHPs
  BY <1>1, OptionsAre DEF NextTHP, InitialTHPs
<1>3. Offered(InitialTHPs)' = Offered(InitialTHPs)
  BY <1>1, <1>2, NextTHPOffered
<1>4. /\ Elements(groups') \cup Range(held') \subseteq InitialMemory /\ BanksApart(groups')
      /\ Offered(InitialTHPs)' \subseteq Elements(groups') /\ nErrors' = 0
  BY <1>1, <1>2, <1>3 DEF Placed, Origins, HeadsComplete, Counting
<1>5. BlockHeads' \subseteq InitialHeads
  BY <1>1, BlockHeadsAre
<1>6. QED
  BY <1>1, <1>4, <1>5, EarlyPlaced

LEMMA RegroupPlaced ==
  ASSUME Known, Sound', pc = "main", phase \in {"fill", "regroup"},
         \/ Grouping!StartRegrouping \/ Grouping!EraseFirstGroup
         \/ Grouping!ReAddAddress \/ Grouping!TestPlausible,
         UNCHANGED <<dram, config, blockSize, pc, mappings>>
  PROVE  Placed'
<1>1. /\ Types /\ Regular /\ Exact /\ Placed /\ blockSize # 0
      /\ blockSize = config.initialBlockSize /\ groups \in Seq(Seq(Nat)) /\ held \in Seq(Nat)
      /\ Elements(groups) \cup Range(held) \subseteq DOMAIN dram.cells
      /\ Filled /\ (phase = "regroup" => HeldApart) /\ (phase = "fill" => held = << >>)
      /\ nErrors = 0 /\ BanksApart(groups)
      /\ Elements(groups) \cup Range(held) \subseteq InitialMemory
  BY DEF Known, Sound, Filling, Regrouping, Types, Placed, Origins, Counting
<1>2. BlockHeads' \subseteq InitialHeads
  BY <1>1, BlockHeadsAre
<1>3. InitialHeads \subseteq BlockHeads
  <2>1. ASSUME NEW h \in InitialHeads
        PROVE  h \in InitialMemory /\ h % blockSize = 0
    <3>1. PICK s \in Nat \ {0} : s = config.initialBlockSize
      BY <1>1, OptionsAre
    <3>2. 0 \in 0 .. config.initialBlockSize - 1
      BY <3>1
    <3>3. InitialMemory # {}
      <4>1. PICK t \in 1 .. NInitialTHPs : h \in BlocksOf(t, config.initialBlockSize)
        BY DEF InitialHeads, InitialTHPs
      <4>2. h + 0 \in InitialMemory
        BY <3>2, <4>1 DEF InitialMemory
      <4>3. QED
        BY <4>2
    <3>4. PICK q \in Nat : h = q * s
      BY <1>1, <3>1, <3>3, HeadsAre
    <3>5. h \in Nat /\ h + 0 = h
      BY <3>4
    <3>6. h + 0 \in InitialMemory
      BY <1>1, <3>2, <3>3, HeadsAre
    <3>7. h % s = 0
      BY <3>4, <3>5, RemainderIs
    <3>8. QED
      BY <1>1, <3>1, <3>5, <3>6, <3>7
  <2>2. QED
    BY <2>1 DEF BlockHeads
<1>4. phase = "regroup" => InitialHeads \subseteq Elements(groups) \cup Range(held)
  BY <1>1, <1>3 DEF Placed, HeadsComplete
<1>5. CASE Grouping!StartRegrouping
  <2>1. /\ phase = "fill" /\ phase' = "regroup" /\ thp >= NInitialTHPs
        /\ UNCHANGED <<dram, groups, thp, block, held, nErrors>>
    BY <1>5 DEF Grouping!StartRegrouping
  <2>2. InitialHeads \subseteq Elements(groups')
    BY <1>1, <2>1, AllOffered DEF Placed, HeadsComplete
  <2>3. QED
    BY <1>1, <1>2, <2>1, <2>2, EarlyPlaced
<1>6. CASE Grouping!EraseFirstGroup
  <2>1. /\ phase = "regroup" /\ phase' = "regroup" /\ held = << >> /\ toRegroup > 0
        /\ held' = Head(groups) /\ groups' = Tail(groups) /\ nErrors' = nErrors
    BY <1>6 DEF Grouping!EraseFirstGroup, Grouping!MoreToRegroup
  <2>2. groups # << >>
    BY <1>1, <2>1 DEF Types
  <2>3. /\ Elements(groups) = Elements(groups') \cup Range(held') /\ BanksApart(groups')
    BY <1>1, <2>1, <2>2, ErasedElements
  <2>4. Range(held) = {}
    BY <2>1, NoElements
  <2>5. QED
    BY <1>1, <1>2, <1>4, <2>1, <2>3, <2>4, EarlyPlaced
<1>7. CASE Grouping!ReAddAddress
  <2>1. /\ phase = "regroup" /\ phase' = "regroup" /\ held # << >>
        /\ held' = Tail(held) /\ nErrors' = nErrors /\ Grouping!AddAddress(Head(held))
    BY <1>7 DEF Grouping!ReAddAddress
  <2>2. Head(held) \in Range(held) /\ Range(held) = {Head(held)} \cup Range(held')
    BY <1>1, <2>1, HeadIs
  <2>3. /\ Head(held) \in DOMAIN dram.cells /\ Head(held) \in Nat /\ Head(held) \notin Elements(groups)
    BY <1>1, <2>1, <2>2 DEF HeldApart
  <2>4. Telling
    BY <1>1 DEF Telling
  <2>5. BanksApart(groups') /\ Elements(groups') = Elements(groups) \cup {Head(held)}
    BY <2>1, <2>3, <2>4, AddsToBank
  <2>6. QED
    BY <1>1, <1>2, <1>4, <2>1, <2>2, <2>5, EarlyPlaced
<1>8. CASE Grouping!TestPlausible
  <2>1. /\ phase = "regroup" /\ phase' \in {"regroup", "add"} /\ held = << >>
        /\ UNCHANGED <<dram, groups, thp, block, held, nErrors>>
    BY <1>8 DEF Grouping!TestPlausible
  <2>2. Range(held) = {}
    BY <2>1, NoElements
  <2>3. Filled'
    BY <1>1, <2>1 DEF Filled
  <2>4. QED
    BY <1>1, <1>2, <1>4, <2>1, <2>2, <2>3, EarlyPlaced
<1>9. QED
  BY <1>5, <1>6, <1>7, <1>8

-----------------------------------------------------------------------------
(* While the block size settles *)

(* What is known while it does *)
KnownSettling ==
  /\ Known /\ Settling /\ phase = "add" /\ pc # "done" /\ pc # "crashed"
  /\ blockSize \in Nat \ {0} /\ groups # << >>

(* When the blocks are known to be in the groups *)
Watched == pc \in {"detect", "guess", "expand"} \/ (pc \in {"step", "done"} /\ Falling)

LEMMA SettlePlaced ==
  ASSUME KnownSettling, OthersStay, nErrors' = nErrors, Types', pc' # "main",
         Elements(groups') \subseteq InitialMemory, BanksApart(groups'), Falls',
         Watched' => Filled',
         Watched' /\ Covered' => BlockHeads' \subseteq Elements(groups'),
         Watched' /\ Covered' /\ pc' = "expand" /\ target' # 0 => Expanded'
  PROVE  Placed'
<1>1. /\ UNCHANGED <<dram, config, mappings, phase, thp, block, held>> /\ held = << >>
      /\ thp = NInitialTHPs /\ block = config.startOffset /\ phase = "add" /\ nErrors = 0
  BY DEF OthersStay, KnownSettling, Settling, Known, Placed, Counting
<1>2. Range(held') = {}
  BY <1>1, NoElements
<1>3. Offered(AdditionalTHPs)' = {}
  <2>1. (Types /\ thp = NInitialTHPs /\ block = config.startOffset => Offered(AdditionalTHPs) = {})'
    BY NothingOffered, PTL
  <2>2. QED
    BY <1>1, <2>1
<1>4. Origins'
  BY <1>1, <1>2, Stay DEF Origins
<1>5. Counting'
  <2>1. Cardinality({}) = 0
    BY FS_EmptySet
  <2>2. {} \ Elements(groups') = {}
    OBVIOUS
  <2>3. QED
    BY <1>1, <1>3, <2>1, <2>2 DEF Counting
<1>6. HeadsComplete'
  BY <1>1 DEF HeadsComplete, Watched
<1>7. BanksApart(groups)'
  BY <1>1, Stay
<1>8. QED
  BY <1>4, <1>5, <1>6, <1>7 DEF Placed

LEMMA SettlingIs ==
  ASSUME KnownSettling
  PROVE  /\ groups \in Seq(Seq(Nat)) /\ BanksApart(groups) /\ Elements(groups) \subseteq InitialMemory
         /\ Watched \/ pc = "main" => Filled
         /\ Watched /\ Covered => BlockHeads \subseteq Elements(groups)
         /\ pc = "main" => BlockHeads \subseteq Elements(groups)
         /\ config.blockSize \in Nat /\ config.initialBlockSize \in Nat \ {0}
<1>1. config.blockSize \in Nat /\ config.initialBlockSize \in Nat \ {0}
  BY OptionsAre DEF KnownSettling, Known
<1>2. QED
  BY <1>1 DEF KnownSettling, Known, Types, Placed, Origins, HeadsComplete, Watched

(* Where the groups stay as they are *)
LEMMA SamePlaced ==
  ASSUME KnownSettling, OthersStay, nErrors' = nErrors, Types', pc' \notin {"main", "expand"}, Falls',
         UNCHANGED <<groups, blockSize>>, Watched' => Watched \/ pc = "main"
  PROVE  Placed'
<1>1. UNCHANGED <<dram, config, mappings>>
  BY DEF OthersStay
<1>2. (Covered' <=> Covered) /\ BlockHeads' = BlockHeads /\ (Filled' <=> Filled)
  BY <1>1, Stay DEF Covered, BlockHeads, Filled
<1>3. QED
  BY <1>2, SettlingIs, SettlePlaced

LEMMA ChoosePlaced ==
  ASSUME KnownSettling, OthersStay, nErrors' = nErrors, Types', ChooseBlockSize
  PROVE  Placed'
<1>1. /\ pc = "main" /\ UNCHANGED <<groups, blockSize>>
      /\ pc' = CASE config.blockSize = blockSize -> "done"
                 [] IsNumberPowerOfTwo(config.blockSize) /\ config.blockSize # blockSize -> "step"
                 [] OTHER -> "detect"
      /\ UNCHANGED <<config>>
  BY DEF ChooseBlockSize, OthersStay
<1>2. blockSize = config.initialBlockSize
  BY <1>1 DEF KnownSettling, Known, Placed, Falls
<1>3. Falls'
  BY <1>1, <1>2 DEF Falls, Falling
<1>4. pc' \notin {"main", "expand"}
  BY <1>1
<1>5. QED
  BY <1>1, <1>3, <1>4, SamePlaced

LEMMA StopPlaced ==
  ASSUME KnownSettling, OthersStay, nErrors' = nErrors, Types', StopSteps
  PROVE  Placed'
<1>1. /\ pc = "step" /\ pc' = "done" /\ UNCHANGED <<groups, blockSize>> /\ UNCHANGED config
  BY DEF StopSteps, OthersStay
<1>2. Falls' /\ (Watched' => Watched)
  BY <1>1 DEF Falls, Watched, Falling
<1>3. QED
  BY <1>1, <1>2, SamePlaced

LEMMA SortPlaced ==
  ASSUME KnownSettling, OthersStay, nErrors' = nErrors, Types', Settling', SortGroups
  PROVE  Placed'
<1>1. /\ pc = "detect" /\ pc' = "guess" /\ blockSize' = blockSize
      /\ groups' = [k \in DOMAIN groups |-> Sorted(groups[k])]
      /\ UNCHANGED <<dram, config, mappings>>
  BY DEF SortGroups, OthersStay
<1>2. Elements(groups') = Elements(groups) /\ BanksApart(groups')
  BY <1>1, SettlingIs, SortedKeepsAll
<1>3. Falls'
  BY <1>1 DEF Falls, KnownSettling, Known, Placed
<1>4. (Covered' <=> Covered) /\ BlockHeads' = BlockHeads /\ Watched
  BY <1>1, <1>2, Stay DEF Covered, BlockHeads, Watched
<1>5. Filled'
  BY <1>1 DEF Settling
<1>6. pc' # "main" /\ pc' # "expand"
  BY <1>1
<1>7. QED
  BY <1>2, <1>3, <1>4, <1>5, <1>6, SettlingIs, SettlePlaced

(* expandBlocks begins with nothing passed. *)
LEMMA ShrinkPlaced ==
  ASSUME KnownSettling, OthersStay, nErrors' = nErrors, Types', Watched, pc # "expand",
         NEW new \in Nat, NEW r, new < blockSize, SetBlockSize(new, r),
         r = "step" <=> IsNumberPowerOfTwo(config.blockSize), r = "step" => Falling
  PROVE  Placed'
<1>1. /\ pc' = "expand" /\ return' = r /\ target' = new /\ group' = 1 /\ index' = 1
      /\ size' = Len(groups[1]) /\ offset' = new
      /\ UNCHANGED <<groups, blockSize>> /\ UNCHANGED <<dram, config, mappings>>
  BY DEF SetBlockSize, OthersStay, KnownSettling
<1>2. Falls'
  BY <1>1, Stay DEF Falls
<1>3. (Covered' <=> Covered) /\ BlockHeads' = BlockHeads /\ (Filled' <=> Filled)
  BY <1>1, Stay DEF Covered, BlockHeads, Filled
<1>4. Expanded'
  <2>1. groups \in Seq(Seq(Nat)) /\ 1 \in DOMAIN groups
    BY SettlingIs DEF KnownSettling
  <2>2. \A k \in DOMAIN groups : \A i \in DOMAIN groups[k] : k >= 1 /\ i >= 1
    <3> SUFFICES ASSUME NEW k \in DOMAIN groups, NEW i \in DOMAIN groups[k]
                 PROVE  k >= 1 /\ i >= 1
      OBVIOUS
    <3>1. groups[k] \in Seq(Nat)
      BY <2>1
    <3>2. QED
      BY <2>1, <3>1
  <2>3. \A k \in DOMAIN groups : \A i \in DOMAIN groups[k] : ~ IsPassed(k, i)'
    <3> SUFFICES ASSUME NEW k \in DOMAIN groups, NEW i \in DOMAIN groups[k]
                 PROVE  ~ (k < 1 \/ (k = 1 /\ (i < 1 \/ (i = 1 /\ new = blockSize))))
      BY <1>1 DEF IsPassed
    <3>1. groups[k] \in Seq(Nat) /\ k \in Nat /\ blockSize \in Nat
      BY <2>1 DEF KnownSettling
    <3>2. i \in Nat
      BY <3>1
    <3>3. QED
      BY <2>2, <3>1, <3>2
  <2>4. groups[1] \in Seq(Nat)
    BY <2>1
  <2>5. \A i \in DOMAIN groups[1] : ~ (i > Len(groups[1]))
    BY <2>4
  <2>6. QED
    BY <1>1, <2>3, <2>5 DEF Expanded
<1>5. pc' # "main"
  BY <1>1
<1>6. QED
  BY <1>1, <1>2, <1>3, <1>4, <1>5, SettlingIs, SettlePlaced

(* simplifyBlocks only removes addresses. *)
LEMMA GrowPlaced ==
  ASSUME KnownSettling, OthersStay, nErrors' = nErrors, Types', NEW new \in Nat, NEW r,
         new > blockSize, SetBlockSize(new, r), r \in {"step", "done"}, ~ Falling
  PROVE  Placed'
<1> DEFINE kept == [k \in DOMAIN groups |->
                      {i \in DOMAIN groups[k] : IsKept(groups[k][i], groups[k], new)}]
<1>1. /\ groups' = [k \in DOMAIN groups |-> Simplified(groups[k], new)] /\ blockSize' = new /\ pc' = r
      /\ UNCHANGED <<dram, config, mappings>>
  BY DEF SetBlockSize, OthersStay, KnownSettling
<1>2. groups \in Seq(Seq(Nat)) /\ BanksApart(groups) /\ Elements(groups) \subseteq InitialMemory
  BY SettlingIs
<1>3. /\ \A k \in DOMAIN groups : kept[k] \subseteq DOMAIN groups[k]
      /\ groups' = SortedAll(groups, kept)
  BY <1>1 DEF Simplified, SortedAll
<1> HIDE DEF kept
<1>4. BanksApart(groups') /\ Elements(groups') \subseteq Elements(groups)
  BY <1>2, <1>3, SortedAllKeeps, SortsPlaces
<1>5. Falls' /\ ~ Watched'
  BY <1>1, Stay DEF Falls, Watched
<1>6. pc' # "main"
  BY <1>1
<1>7. QED
  BY <1>2, <1>4, <1>5, <1>6, SettlePlaced

LEMMA StepPlaced ==
  ASSUME KnownSettling, OthersStay, nErrors' = nErrors, Types', StepBlockSize
  PROVE  Placed'
<1>1. /\ pc = "step" /\ blockSize # config.blockSize /\ SetBlockSize(NextStep, "step")
      /\ blockSize \in Nat \ {0} /\ config.blockSize \in Nat /\ config.initialBlockSize \in Nat
  BY SettlingIs DEF StepBlockSize, KnownSettling
<1>2. /\ IsNumberPowerOfTwo(config.blockSize) /\ IsNumberPowerOfTwo(blockSize)
      /\ config.blockSize < blockSize => blockSize <= config.initialBlockSize
      /\ Falling => config.blockSize <= blockSize
  BY <1>1 DEF KnownSettling, Settling, Known, Placed, Falls
<1>3. CASE config.blockSize < blockSize
  <2>1. PICK new \in Nat : new = blockSize \div 2 /\ new < blockSize
    BY <1>1
  <2>2. SetBlockSize(new, "step")
    BY <1>1, <1>3, <2>1 DEF NextStep
  <2>3. Falling
    BY <1>1, <1>2, <1>3 DEF Falling
  <2>4. Watched /\ pc # "expand"
    BY <1>1, <2>3 DEF Watched
  <2>5. QED
    BY <1>2, <2>1, <2>2, <2>3, <2>4, ShrinkPlaced
<1>4. CASE config.blockSize > blockSize
  <2>1. PICK new \in Nat : new = 2 * blockSize /\ new > blockSize
    BY <1>1
  <2>2. SetBlockSize(new, "step")
    BY <1>1, <1>4, <2>1 DEF NextStep
  <2>3. ~ Falling
    BY <1>1, <1>2, <1>4
  <2>4. QED
    BY <2>1, <2>2, <2>3, GrowPlaced
<1>5. QED
  BY <1>1, <1>3, <1>4

LEMMA DetectPlaced ==
  ASSUME KnownSettling, OthersStay, nErrors' = nErrors, Types', Detect
  PROVE  Placed'
<1>1. /\ pc = "guess" /\ groups \in Seq(Seq(Nat)) /\ blockSize \in Nat \ {0}
      /\ ~ IsNumberPowerOfTwo(config.blockSize) /\ config.initialBlockSize \in Nat
      /\ \/ SetBlockSize(blockSize \div 2, "detect")
         \/ SetBlockSize(GuessBlockSize, "done")
  BY SettlingIs DEF Detect, KnownSettling, Known, Placed, Falls
<1>2. Watched /\ ~ Falling /\ pc # "expand"
  BY <1>1 DEF Watched, Falling
<1>3. CASE SetBlockSize(blockSize \div 2, "detect")
  <2>1. PICK new \in Nat : new = blockSize \div 2 /\ new < blockSize
    BY <1>1
  <2>2. QED
    BY <1>1, <1>2, <1>3, <2>1, ShrinkPlaced
<1>4. CASE SetBlockSize(GuessBlockSize, "done")
  <2>1. PICK new : new = GuessBlockSize
    OBVIOUS
  <2>2. new = 0 \/ \E n \in Nat \ {0} : new = blockSize * n
    BY <1>1, <2>1, GuessIs
  <2>3. new \in Nat
    BY <1>1, <2>2
  <2>4. CASE new < blockSize
    BY <1>1, <1>2, <1>4, <2>1, <2>3, <2>4, ShrinkPlaced
  <2>5. CASE new > blockSize
    BY <1>1, <1>2, <1>4, <2>1, <2>3, <2>5, GrowPlaced
  <2>6. CASE new = blockSize
    <3>1. pc' = "done" /\ UNCHANGED <<groups, blockSize>>
      BY <1>1, <1>4, <2>1, <2>6 DEF SetBlockSize
    <3>2. Falls' /\ ~ Watched' /\ pc' \notin {"main", "expand"}
      BY <1>2, <3>1, Stay DEF Falls, Watched, OthersStay
    <3>3. QED
      BY <3>1, <3>2, SamePlaced
  <2>7. QED
    BY <1>1, <2>3, <2>4, <2>5, <2>6
<1>5. QED
  BY <1>1, <1>3, <1>4

(* What is in the groups after an address may have joined them *)
Widens(g, h, a) ==
  /\ h \in Seq(Seq(Nat)) /\ Keeps(g, h) /\ (NoneEmpty(g) => NoneEmpty(h))
  /\ Elements(g) \subseteq Elements(h) /\ Elements(h) \subseteq Elements(g) \cup {a}
  /\ \A k \in DOMAIN h : \A i \in DOMAIN h[k] :
       h[k][i] = a \/ (k \in DOMAIN g /\ i \in DOMAIN g[k] /\ h[k][i] = g[k][i])

LEMMA TakesWidens ==
  ASSUME NEW g \in Seq(Seq(Nat)), NEW h, NEW a \in Nat, h = g \/ Takes(g, h, a)
  PROVE  Widens(g, h, a)
<1>1. CASE h = g
  <2>1. Keeps(g, g)
    <3>1. \A k \in DOMAIN g : Len(g[k]) >= Len(g[k])
      <4> TAKE k \in DOMAIN g
      <4>1. g[k] \in Seq(Nat)
        OBVIOUS
      <4>2. Len(g[k]) \in Nat
        BY <4>1
      <4>3. QED
        BY <4>2
    <3>2. QED
      BY <3>1 DEF Keeps
  <2>2. QED
    BY <1>1, <2>1 DEF Widens
<1>2. CASE Takes(g, h, a)
  <2>1. h \in Seq(Seq(Nat)) /\ Elements(h) = Elements(g) \cup {a}
    BY <1>2, TakesPlaces
  <2>2. Keeps(g, h) /\ (NoneEmpty(g) => NoneEmpty(h))
    BY <1>2, TakesKeeps
  <2>3. PICK k, n : TakesAt(g, h, a, k, n)
    BY <1>2, TakesIs
  <2>4. \A l \in DOMAIN h : \A i \in DOMAIN h[l] :
          h[l][i] = a \/ (l \in DOMAIN g /\ i \in DOMAIN g[l] /\ h[l][i] = g[l][i])
    <3> SUFFICES ASSUME NEW l \in DOMAIN h, NEW i \in DOMAIN h[l]
                 PROVE  h[l][i] = a \/ (l \in DOMAIN g /\ i \in DOMAIN g[l] /\ h[l][i] = g[l][i])
      OBVIOUS
    <3>1. CASE l # k
      BY <2>3, <3>1 DEF TakesAt
    <3>2. CASE l = k
      BY <2>3, <3>2 DEF TakesAt
    <3>3. QED
      BY <3>1, <3>2
  <2>5. QED
    BY <2>1, <2>2, <2>4 DEF Widens
<1>3. QED
  BY <1>1, <1>2

LEMMA ExpandPlaced ==
  ASSUME KnownSettling, OthersStay, nErrors' = nErrors, Types', ExpandAddress
  PROVE  Placed'
<1>1. /\ pc = "expand" /\ StartsBlock /\ offset < blockSize /\ offset' = offset + target
      /\ UNCHANGED <<blockSize, pc, return, target, group, index, size>>
      /\ UNCHANGED <<dram, config, mappings>>
  BY DEF ExpandAddress, OthersStay
<1>2. /\ groups \in Seq(Seq(Nat)) /\ group \in DOMAIN groups /\ index \in 1 .. size + 1
      /\ size \in Nat /\ size <= Len(groups[group]) /\ index <= size
      /\ blockSize \in Nat /\ target \in Nat /\ offset \in Nat
  BY <1>1 DEF KnownSettling, Known, Types, StartsBlock
<1>3. groups[group] \in Seq(Nat) /\ index \in DOMAIN groups[group] /\ groups[group][index] \in Nat
  BY <1>2
<1>4. PICK a \in Nat : a = groups[group][index]
  BY <1>3
<1>5. PICK n \in Nat : n = a + offset
  BY <1>2, <1>4
<1>6. a \in Elements(groups) /\ a \in InitialMemory /\ a % blockSize = 0
  BY <1>1, <1>2, <1>3, <1>4, ElementsAre, SettlingIs DEF StartsBlock, Address
<1>7. /\ Types /\ Regular /\ Exact /\ BanksApart(groups) /\ Filled /\ Watched
      /\ Elements(groups) \subseteq DOMAIN dram.cells
  BY <1>1, SettlingIs DEF KnownSettling, Known, Watched
<1>8. n \in InitialMemory /\ (target # 0 => /\ offset = target /\ offset' = blockSize /\ n = a + target
                                            /\ n % blockSize # 0 /\ Expanding)
  <2>1. CASE Expanding
    <3>1. /\ blockSize = 2 * target /\ offset = target /\ target \in Nat \ {0} /\ offset' = blockSize
          /\ IsPower(blockSize) /\ blockSize <= config.initialBlockSize
      BY <1>1, <1>2, <2>1, PowerIs DEF Expanding
    <3>2. n = a + target /\ a % (2 * target) = 0 /\ IsPower(2 * target) /\ 2 * target <= config.initialBlockSize
      BY <1>5, <1>6, <3>1
    <3>3. n \in InitialMemory
      BY <1>6, <1>7, <3>1, <3>2, HalvesInMemory
    <3>4. n % blockSize # 0
      BY <3>1, <3>2, MultiplesOfHalf
    <3>5. QED
      BY <2>1, <3>1, <3>2, <3>3, <3>4
  <2>2. CASE Stuck
    BY <1>4, <1>5, <1>6, <2>2 DEF Stuck
  <2>3. QED
    BY <1>1, <2>1, <2>2 DEF KnownSettling, Settling
<1>9. n \in DOMAIN dram.cells
  BY <1>7, <1>8, HeadsAre
<1>10. PICK added : AddToExisting(n, added)
  BY <1>4, <1>5 DEF ExpandAddress, Address
<1>11. Telling
  BY <1>7 DEF Telling
<1>12. /\ added \in BOOLEAN /\ BanksApart(groups') /\ BanksOf(Elements(groups')) = BanksOf(Elements(groups))
       /\ added => Takes(groups, groups', n) /\ Elements(groups') = Elements(groups) \cup {n}
       /\ ~ added => groups' = groups
       /\ ~ added /\ n \notin Elements(groups) => Bank(n) \notin BanksOf(Elements(groups))
  BY <1>9, <1>10, <1>11, ExtendsBank
<1>13. Widens(groups, groups', n)
  BY <1>2, <1>12, TakesWidens
<1>14. Elements(groups) \subseteq Elements(groups') /\ Elements(groups') \subseteq InitialMemory
  BY <1>8, <1>13, SettlingIs DEF Widens
<1>15. Filled'
  BY <1>7, <1>13 DEF Widens, NoneEmpty, Filled
<1>16. (Covered' <=> Covered) /\ BlockHeads' = BlockHeads
  BY <1>1, <1>12, Stay DEF Covered, BlockHeads
<1>17. Falls'
  BY <1>1, Stay DEF Falls, KnownSettling, Known, Placed
<1>18. BlockHeads' \subseteq Elements(groups') \/ ~ Covered'
  BY <1>7, <1>14, <1>16, SettlingIs
<1>19. ASSUME Covered', target' # 0
       PROVE  Expanded'
  <2>1. Expanded /\ Expanding /\ offset' = blockSize /\ n = a + target /\ n % blockSize # 0
        /\ target # 0
    BY <1>1, <1>8, <1>16, <1>19 DEF KnownSettling, Known, Placed, HeadsComplete
  <2>2. n \in Elements(groups')
    <3>1. Bank(n) \in BanksOf(Elements(groups))
      BY <1>8, <1>16, <1>19 DEF Covered, BanksOf
    <3>2. QED
      BY <1>12, <1>14, <3>1
  <2>3. ASSUME NEW k \in DOMAIN groups', NEW i \in DOMAIN groups'[k], IsPassed(k, i)',
               groups'[k][i] % blockSize = 0
        PROVE  groups'[k][i] + target \in Elements(groups')
    <3>1. k \in DOMAIN groups /\ i \in DOMAIN groups[k] /\ groups'[k][i] = groups[k][i]
      BY <1>13, <2>1, <2>3 DEF Widens
    <3>2. k < group \/ (k = group /\ (i < index \/ i = index))
      BY <1>1, <2>3 DEF IsPassed
    <3>3. CASE k = group /\ i = index
      BY <1>4, <2>1, <2>2, <3>1, <3>3
    <3>4. CASE IsPassed(k, i)
      BY <1>14, <2>1, <2>3, <3>1, <3>4 DEF Expanded
    <3>5. QED
      BY <3>2, <3>3, <3>4 DEF IsPassed
  <2>4. ASSUME NEW i \in DOMAIN groups'[group], i > size
        PROVE  groups'[group][i] % blockSize # 0
    <3>1. group \in DOMAIN groups'
      BY <1>2, <1>13 DEF Widens, Keeps
    <3>2. \/ groups'[group][i] = n
          \/ i \in DOMAIN groups[group] /\ groups'[group][i] = groups[group][i]
      BY <1>13, <3>1 DEF Widens
    <3>3. QED
      BY <2>1, <2>4, <3>2 DEF Expanded
  <2>5. ~ (index > size)
    BY <1>2
  <2>6. QED
    BY <1>1, <2>3, <2>4, <2>5 DEF Expanded
<1>20. pc' # "main"
  BY <1>1
<1>21. QED
  BY <1>12, <1>14, <1>15, <1>17, <1>18, <1>19, <1>20, SettlePlaced

(* Where expandBlocks only moves on *)
LEMMA MovesPlaced ==
  ASSUME KnownSettling, OthersStay, nErrors' = nErrors, Types', pc = "expand",
         UNCHANGED <<groups, blockSize, pc, return, target>>,
         Expanded /\ Expanding => Expanded'
  PROVE  Placed'
<1>1. UNCHANGED <<dram, config, mappings>>
  BY DEF OthersStay
<1>2. Watched /\ (target # 0 => Expanding)
  BY DEF Watched, KnownSettling, Settling, Stuck
<1>3. Falls'
  BY <1>1, Stay DEF Falls, KnownSettling, Known, Placed
<1>4. (Covered' <=> Covered) /\ BlockHeads' = BlockHeads /\ (Filled' <=> Filled)
  BY <1>1, Stay DEF Covered, BlockHeads, Filled
<1>5. Covered /\ target # 0 => Expanded
  BY DEF KnownSettling, Known, Placed, HeadsComplete
<1>6. QED
  BY <1>2, <1>3, <1>4, <1>5, SettlingIs, SettlePlaced

LEMMA NextAddressPlaced ==
  ASSUME KnownSettling, OthersStay, nErrors' = nErrors, Types', NextAddress
  PROVE  Placed'
<1>1. /\ pc = "expand" /\ index <= size /\ (StartsBlock => offset >= blockSize)
      /\ index' = index + 1 /\ offset' = target
      /\ UNCHANGED <<groups, blockSize, pc, return, target, group, size>>
  BY DEF NextAddress, FirstOffset
<1>2. /\ groups \in Seq(Seq(Nat)) /\ group \in DOMAIN groups /\ index \in Nat /\ size \in Nat
      /\ target \in Nat /\ blockSize \in Nat \ {0}
  BY <1>1 DEF KnownSettling, Known, Types
<1>3. ASSUME Expanded, Expanding
      PROVE  Expanded'
  <2>1. blockSize = 2 * target /\ offset \in {target, blockSize}
    BY <1>3 DEF Expanding
  <2>2. target # blockSize /\ target < blockSize
    BY <1>2, <2>1
  <2>3. ASSUME NEW k \in DOMAIN groups, NEW i \in DOMAIN groups[k], IsPassed(k, i)',
               groups[k][i] % blockSize = 0
        PROVE  groups[k][i] + target \in Elements(groups)
    <3>1. groups[k] \in Seq(Nat)
      BY <1>2
    <3>2. i \in Nat
      BY <3>1
    <3>3. k < group \/ (k = group /\ (i < index \/ i = index))
      BY <1>1, <1>2, <2>2, <2>3, <3>2 DEF IsPassed
    <3>4. k = group /\ i = index => offset = blockSize
      BY <1>1, <1>2, <2>1, <2>2, <2>3 DEF StartsBlock, Address
    <3>5. IsPassed(k, i)
      BY <3>3, <3>4 DEF IsPassed
    <3>6. QED
      BY <1>3, <2>3, <3>5 DEF Expanded
  <2>4. QED
    BY <1>1, <1>3, <2>3 DEF Expanded
<1>4. QED
  BY <1>1, <1>3, MovesPlaced

LEMMA NextGroupPlaced ==
  ASSUME KnownSettling, OthersStay, nErrors' = nErrors, Types', NextGroup
  PROVE  Placed'
<1>1. /\ pc = "expand" /\ index > size /\ group < Len(groups)
      /\ group' = group + 1 /\ index' = 1 /\ size' = Len(groups[group + 1])
      /\ UNCHANGED <<groups, blockSize, pc, return, target, offset>>
  BY DEF NextGroup, NextSize
<1>2. /\ groups \in Seq(Seq(Nat)) /\ group \in DOMAIN groups /\ size \in Nat
      /\ target \in Nat /\ blockSize \in Nat \ {0} /\ index \in Nat
  <2>1. Types /\ blockSize \in Nat \ {0} /\ groups \in Seq(Seq(Nat))
    BY SettlingIs DEF KnownSettling, Known
  <2>2. group \in DOMAIN groups /\ size \in Nat /\ target \in Nat /\ index \in 1 .. size + 1
    BY <1>1, <2>1 DEF Types
  <2>3. QED
    BY <2>1, <2>2
<1>3. ASSUME Expanded, Expanding
      PROVE  Expanded'
  <2>1. offset = target /\ blockSize = 2 * target
    BY <1>1, <1>3 DEF Expanded, Expanding
  <2>2. target # blockSize
    BY <1>2, <2>1
  <2>3. group + 1 \in DOMAIN groups /\ group \in Nat
    BY <1>1, <1>2
  <2>4. ASSUME NEW k \in DOMAIN groups, NEW i \in DOMAIN groups[k], IsPassed(k, i)',
               groups[k][i] % blockSize = 0
        PROVE  groups[k][i] + target \in Elements(groups)
    <3>1. groups[k] \in Seq(Nat) /\ k \in Nat
      BY <1>2
    <3>2. i \in Nat /\ i >= 1
      BY <3>1
    <3>3. k < group + 1
      BY <1>1, <2>1, <2>2, <2>4, <3>2 DEF IsPassed
    <3>4. k < group \/ k = group
      BY <2>3, <3>1, <3>3
    <3>5. k < group \/ (k = group /\ i < index)
      <4>1. ASSUME k = group
            PROVE  i < index
        <5>1. ~ (i > size)
          BY <1>3, <2>4, <4>1 DEF Expanded
        <5>2. QED
          BY <1>1, <1>2, <3>2, <5>1
      <4>2. QED
        BY <3>4, <4>1
    <3>6. QED
      BY <1>3, <2>4, <3>5 DEF Expanded, IsPassed
  <2>5. \A i \in DOMAIN groups[group + 1] : ~ (i > Len(groups[group + 1]))
    <3>1. groups[group + 1] \in Seq(Nat)
      BY <1>2, <2>3
    <3>2. QED
      BY <3>1
  <2>6. QED
    BY <1>1, <2>1, <2>4, <2>5 DEF Expanded
<1>4. QED
  BY <1>1, <1>3, MovesPlaced

(* When expandBlocks is through, all heads of the halves are there.        *)
LEMMA EndPlaced ==
  ASSUME KnownSettling, OthersStay, nErrors' = nErrors, Types', EndExpansion
  PROVE  Placed'
<1>1. /\ pc = "expand" /\ index > size /\ group = Len(groups) /\ blockSize' = target /\ pc' = return
      /\ UNCHANGED <<groups, return>> /\ UNCHANGED <<dram, config, mappings>>
  BY DEF EndExpansion, OthersStay
<1>2. /\ groups \in Seq(Seq(Nat)) /\ group \in DOMAIN groups /\ size \in Nat
      /\ target \in Nat /\ blockSize \in Nat \ {0} /\ index \in Nat /\ Types /\ Regular
      /\ config.initialBlockSize \in Nat /\ config.blockSize \in Nat
  <2>1. Types /\ Regular /\ blockSize \in Nat \ {0}
    BY DEF KnownSettling, Known
  <2>2. config.initialBlockSize \in Nat /\ config.blockSize \in Nat /\ groups \in Seq(Seq(Nat))
    BY SettlingIs
  <2>3. group \in DOMAIN groups /\ size \in Nat /\ target \in Nat /\ index \in 1 .. size + 1
    BY <1>1, <2>1 DEF Types
  <2>4. QED
    BY <2>1, <2>2, <2>3
<1>3. Expanding
  BY <1>1, <1>2 DEF KnownSettling, Settling, Stuck
<1>4. /\ target # 0 /\ blockSize = 2 * target /\ return \in {"step", "detect"}
      /\ return = "step" => config.blockSize <= target
      /\ IsPower(2 * target) /\ 2 * target <= config.initialBlockSize
  BY <1>2, <1>3, PowerIs DEF Expanding
<1>5. Falls'
  BY <1>1, <1>4, Stay DEF Falls, KnownSettling, Known, Placed
<1>6. (Covered' <=> Covered) /\ (Filled' <=> Filled) /\ Watched
  BY <1>1, Stay DEF Covered, Filled, Watched
<1>7. ASSUME Covered
      PROVE  BlockHeads' \subseteq Elements(groups)
  <2>1. Expanded /\ BlockHeads \subseteq Elements(groups) /\ Elements(groups) \subseteq InitialMemory
    BY <1>1, <1>4, <1>6, <1>7, SettlingIs DEF KnownSettling, Known, Placed, HeadsComplete
  <2> SUFFICES ASSUME NEW a \in InitialMemory, a % target = 0
               PROVE  a \in Elements(groups)
    BY <1>1, Stay DEF BlockHeads
  <2>2. CASE a % blockSize = 0
    BY <2>1, <2>2 DEF BlockHeads
  <2>3. CASE a % blockSize # 0
    <3>1. a \in Nat /\ target \in Nat \ {0}
      BY <1>2, <1>4, HeadsAre
    <3>2. PICK b : b = a - target
      OBVIOUS
    <3>3. b \in InitialMemory /\ b % blockSize = 0
      BY <1>2, <1>4, <2>3, <3>1, <3>2, HalvesInMemory
    <3>4. b \in Elements(groups)
      BY <2>1, <3>3 DEF BlockHeads
    <3>5. PICK k \in DOMAIN groups : \E i \in DOMAIN groups[k] : groups[k][i] = b
      BY <3>4, ElementsAre
    <3>6. PICK i \in DOMAIN groups[k] : groups[k][i] = b
      BY <3>5
    <3>7. groups[k] \in Seq(Nat) /\ k \in Nat /\ group \in Nat /\ k <= group
      BY <1>1, <1>2
    <3>8. i \in Nat
      BY <3>7
    <3>9. IsPassed(k, i)
      <4>1. k = group => ~ (i > size)
        BY <2>1, <3>3, <3>6 DEF Expanded
      <4>2. k = group => i < index
        BY <1>1, <1>2, <3>8, <4>1
      <4>3. QED
        BY <3>7, <4>2 DEF IsPassed
    <3>10. b + target \in Elements(groups)
      BY <2>1, <3>3, <3>6, <3>9 DEF Expanded
    <3>11. b + target = a
      BY <3>1, <3>2
    <3>12. QED
      BY <3>10, <3>11
  <2>4. QED
    BY <2>2, <2>3
<1>8. pc' # "main" /\ pc' # "expand"
  BY <1>1, <1>4
<1>9. QED
  BY <1>1, <1>5, <1>6, <1>7, <1>8, SettlingIs, SettlePlaced

LEMMA SettledPlaced ==
  ASSUME Known, Types', Sound', Settle, pc' # "crashed"
  PROVE  Placed'
<1>1. /\ phase = "add" /\ phase' = "add" /\ SettleBlockSize /\ OthersStay /\ nErrors' = nErrors
      /\ blockSize \in Nat \ {0} /\ groups # << >> /\ pc # "crashed"
  BY DEF Settle, SettleBlockSize, OthersStay, Known, Sound, Types, Regular
<1>2. pc # "done"
  BY <1>1 DEF SettleBlockSize, ChooseBlockSize, StepBlockSize, StopSteps, SortGroups, Detect,
              ExpandAddress, CompareWithEmptyGroup, NextAddress, NextGroup, EndExpansion
<1>3. KnownSettling
  BY <1>1, <1>2 DEF KnownSettling, Known, Sound
<1>4. CASE ChooseBlockSize
  BY <1>1, <1>3, <1>4, ChoosePlaced
<1>5. CASE StepBlockSize
  BY <1>1, <1>3, <1>5, StepPlaced
<1>6. CASE StopSteps
  BY <1>1, <1>3, <1>6, StopPlaced
<1>7. CASE SortGroups
  <2>1. Settling'
    BY <1>1, <1>7 DEF SortGroups, Sound
  <2>2. QED
    BY <1>1, <1>3, <1>7, <2>1, SortPlaced
<1>8. CASE Detect
  BY <1>1, <1>3, <1>8, DetectPlaced
<1>9. CASE ExpandAddress
  BY <1>1, <1>3, <1>9, ExpandPlaced
<1>10. CASE CompareWithEmptyGroup
  BY <1>10 DEF CompareWithEmptyGroup
<1>11. CASE NextAddress
  BY <1>1, <1>3, <1>11, NextAddressPlaced
<1>12. CASE NextGroup
  BY <1>1, <1>3, <1>12, NextGroupPlaced
<1>13. CASE EndExpansion
  BY <1>1, <1>3, <1>13, EndPlaced
<1>14. QED
  BY <1>1, <1>4, <1>5, <1>6, <1>7, <1>8, <1>9, <1>10, <1>11, <1>12, <1>13 DEF SettleBlockSize

-----------------------------------------------------------------------------
(* While the additional THPs come in *)

LEMMA AddingPlaced ==
  ASSUME Known, pc = "done", pc' = "done", UNCHANGED <<dram, config, blockSize, mappings>>,
         phase' \in {"add", "done"}, phase' = "done" => thp' >= NTHPs,
         BanksApart(groups'), BanksOf(Elements(groups')) = BanksOf(Elements(groups)),
         Elements(groups) \subseteq Elements(groups'),
         Elements(groups') \subseteq Elements(groups) \cup Offered(AdditionalTHPs)',
         Offered(AdditionalTHPs) \subseteq Offered(AdditionalTHPs)',
         Filled => Filled',
         Offered(AdditionalTHPs)' # {} => Filled',
         \A a \in Offered(AdditionalTHPs)' :
           a \in Elements(groups') \/ Bank(a) \notin BanksOf(Elements(groups')),
         nErrors' = Cardinality(Offered(AdditionalTHPs)' \ Elements(groups'))
  PROVE  Placed'
<1>1. \A a : Bank(a)' = Bank(a)
  BY DEF Bank
<1>2. BanksOf(Elements(groups))' = BanksOf(Elements(groups'))
  BY <1>1 DEF BanksOf
<1>3. Origins'
  BY Stay DEF Origins, Known, Placed
<1>4. Counting'
  BY <1>1, <1>2 DEF Counting
<1>5. Falls'
  BY DEF Falls
<1>6. (Covered' <=> Covered) /\ BlockHeads' = BlockHeads
  BY Stay DEF Covered, BlockHeads
<1>7. HeadsComplete'
  BY <1>6, Stay DEF HeadsComplete, Known, Placed
<1>8. BanksApart(groups)'
  BY Stay
<1>9. QED
  BY <1>3, <1>4, <1>5, <1>7, <1>8 DEF Placed

LEMMA AddOnePlaced ==
  ASSUME Known, AddBlockToExisting,
         UNCHANGED <<dram, config, blockSize, pc, mappings, phase, held>>
  PROVE  Placed'
<1>1. /\ Types /\ Exact /\ Placed /\ Adding /\ blockSize > 0 /\ blockSize # 0 /\ pc = "done"
      /\ phase = "add" /\ phase' = "add" /\ pc' = "done" /\ groups \in Seq(Seq(Nat))
      /\ Elements(groups) \subseteq DOMAIN dram.cells
  BY DEF Known, Sound, Types, AddBlockToExisting
<1>2. /\ thp < NTHPs /\ block < EndBlock /\ block' = block + 1 /\ thp' = thp /\ ~ HasEmptyGroup
  BY DEF AddBlockToExisting
<1>3. /\ thp \in Nat /\ NInitialTHPs \in Nat /\ NTHPs \in Nat /\ thp >= NInitialTHPs
      /\ block >= config.startOffset
  BY <1>1, OptionsAre DEF Types, Adding
<1>4. AdditionalTHPs \subseteq 1 .. NTHPs /\ thp + 1 \in AdditionalTHPs
  BY <1>2, <1>3 DEF AdditionalTHPs
<1>5. PICK a \in Nat : a = BlockAddress /\ a \notin Elements(groups)
  BY <1>1, <1>2, BlockIsNew
<1>6. PICK added : /\ AddToExisting(a, added)
                   /\ nErrors' = IF added THEN nErrors ELSE nErrors + 1
  BY <1>5 DEF AddBlockToExisting
<1> DEFINE O == Offered(AdditionalTHPs)
           O1 == Offered(AdditionalTHPs)'
           E == Elements(groups)
           E1 == Elements(groups')
<1>7. a \in DOMAIN dram.cells /\ a \notin O /\ O1 = O \cup {a}
  BY <1>1, <1>2, <1>3, <1>4, <1>5, NewBlockOffered
<1>8. Filled
  BY <1>2 DEF HasEmptyGroup, Filled
<1>9. Telling
  BY <1>1, <1>8 DEF Telling, Placed
<1>10. /\ added \in BOOLEAN /\ BanksApart(groups') /\ BanksOf(E1) = BanksOf(E)
       /\ added => Takes(groups, groups', a) /\ E1 = E \cup {a}
       /\ ~ added => groups' = groups
       /\ ~ added => Bank(a) \notin BanksOf(E)
  BY <1>5, <1>6, <1>7, <1>9, ExtendsBank
<1>11. Filled'
  <2>1. groups' = groups \/ Takes(groups, groups', a)
    BY <1>10
  <2>2. Widens(groups, groups', a)
    BY <1>1, <2>1, TakesWidens
  <2>3. QED
    BY <1>8, <2>2 DEF Filled, Widens, NoneEmpty
<1>12. /\ nErrors = Cardinality(O \ E) /\ nErrors \in Nat
       /\ \A b \in O : b \in E \/ Bank(b) \notin BanksOf(E)
  BY <1>1 DEF Placed, Counting, Types
<1>13. IsFiniteSet(O \ E)
  <2>1. O \ E \subseteq DOMAIN dram.cells
    BY DEF Offered
  <2>2. QED
    BY <1>1, <2>1, ExactCells, FS_Subset
<1> HIDE DEF O, O1, E, E1
<1>14. \A b \in O1 : b \in E1 \/ Bank(b) \notin BanksOf(E1)
  <2>1. ~ added => E1 = E
    BY <1>10 DEF E, E1
  <2>2. QED
    BY <1>7, <1>10, <1>12, <2>1
<1>15. nErrors' = Cardinality(O1 \ E1)
  <2>1. CASE added
    <3>1. O1 \ E1 = O \ E
      BY <1>7, <1>10, <2>1
    <3>2. QED
      BY <1>6, <1>12, <2>1, <3>1
  <2>2. CASE ~ added
    <3>1. E1 = E /\ a \notin E
      BY <1>5, <1>10, <2>2 DEF E, E1
    <3>2. O1 \ E1 = (O \ E) \cup {a} /\ a \notin O \ E
      BY <1>7, <3>1
    <3>3. Cardinality((O \ E) \cup {a}) = Cardinality(O \ E) + 1
      BY <1>13, <3>2, FS_AddElement
    <3>4. QED
      BY <1>6, <1>12, <2>2, <3>2, <3>3
  <2>3. QED
    BY <1>10, <2>1, <2>2
<1>16. E \subseteq E1 /\ E1 \subseteq E \cup O1 /\ O \subseteq O1
  BY <1>7, <1>10 DEF E, E1
<1>17. QED
  BY <1>1, <1>10, <1>11, <1>14, <1>15, <1>16, AddingPlaced DEF O, O1, E, E1

LEMMA AddNextPlaced ==
  ASSUME Known, pc = "done", phase = "add", NextTHP,
         UNCHANGED <<dram, config, blockSize, pc, mappings, phase, held>>
  PROVE  Placed'
<1>1. /\ Types /\ Placed /\ blockSize # 0
  BY DEF Known, Sound, Types
<1>2. /\ block >= EndBlock /\ thp' = thp + 1 /\ block' = config.startOffset
      /\ groups' = groups /\ nErrors' = nErrors /\ AdditionalTHPs \subseteq 1 .. NTHPs
  BY <1>1, OptionsAre DEF NextTHP, AdditionalTHPs
<1>3. Offered(AdditionalTHPs)' = Offered(AdditionalTHPs) /\ (Filled' <=> Filled)
  BY <1>1, <1>2, NextTHPOffered DEF Filled
<1>4. QED
  BY <1>1, <1>2, <1>3, AddingPlaced DEF Placed, Counting

LEMMA FinishPlaced ==
  ASSUME Known, Finish
  PROVE  Placed'
<1>1. /\ pc = "done" /\ pc' = "done" /\ phase' = "done" /\ thp >= NTHPs
      /\ UNCHANGED <<dram, groups, config, blockSize, mappings, thp, block, nErrors>>
  BY DEF Finish, Grouping!Finish, Grouping!NTHPs, NTHPs
<1>2. Offered(AdditionalTHPs)' = Offered(AdditionalTHPs) /\ (Filled' <=> Filled)
  BY <1>1 DEF Offered, WasOffered, EndBlock, Filled, AdditionalTHPs
<1>3. QED
  BY <1>1, <1>2, AddingPlaced DEF Known, Placed, Counting

-----------------------------------------------------------------------------
(* From the empty bank group to the finished groups *)

LEMMA BanksInit == Init => BanksInv
<1> SUFFICES ASSUME Init, Regular
             PROVE  Placed
  BY DEF BanksInv
<1>1. /\ groups = << >> /\ held = << >> /\ phase = "fill" /\ pc = "main" /\ nErrors = 0
      /\ blockSize = config.initialBlockSize /\ thp = 0 /\ block = config.startOffset
  BY DEF Init, BlockSizeInit
<1>2. Elements(groups) = {} /\ Range(held) = {} /\ BanksApart(groups)
  BY <1>1, NoElements DEF BanksApart
<1>3. config.startOffset \in Nat
  BY TypesInit, OptionsAre
<1>4. Offered(InitialTHPs) = {}
  <2>1. \A t \in InitialTHPs, i \in config.startOffset .. EndBlock - 1 :
          ~ (t <= thp \/ (t = thp + 1 /\ i < block))
    <3>1. \A t \in InitialTHPs : t \in Nat /\ t >= 1
      BY AmdreAssumption DEF InitialTHPs
    <3>2. \A i \in config.startOffset .. EndBlock - 1 : i \in Int /\ i >= config.startOffset
      BY <1>3
    <3>3. QED
      BY <1>1, <1>3, <3>1, <3>2
  <2>2. QED
    BY <2>1 DEF Offered, WasOffered
<1>5. Origins /\ Counting /\ Falls
  BY <1>1, <1>2 DEF Origins, Counting, Falls
<1>6. HeadsComplete
  BY <1>1, <1>4 DEF HeadsComplete
<1>7. QED
  BY <1>2, <1>5, <1>6 DEF Placed

(* The step that compares with an empty group is the last one. *)
LEMMA CrashEnds ==
  ASSUME Types, Next, pc' # "crashed"
  PROVE  pc # "crashed"
<1>1. CASE AddTHPs
  BY <1>1 DEF AddTHPs
<1>2. CASE AddBlockCrashes
  BY <1>2 DEF AddBlockCrashes
<1>3. CASE Regroup
  BY <1>3 DEF Regroup
<1>4. CASE Settle
  BY <1>4 DEF Settle, SettleBlockSize, ChooseBlockSize, StepBlockSize, StopSteps, SortGroups,
              Detect, ExpandAddress, CompareWithEmptyGroup, NextAddress, NextGroup, EndExpansion
<1>5. CASE Finish
  BY <1>5 DEF Finish
<1>6. QED
  BY <1>1, <1>2, <1>3, <1>4, <1>5 DEF Next

LEMMA PlacedNext ==
  ASSUME Known, Types', Sound', Next, pc' # "crashed"
  PROVE  Placed'
<1>1. Types /\ Sound
  BY DEF Known
<1>2. CASE AddTHPs
  <2>1. UNCHANGED <<dram, config, blockSize, pc, mappings, phase, held>>
    BY <1>2 DEF AddTHPs
  <2>2. CASE AddBlock
    BY <2>1, <2>2, FillPlaced DEF AddBlock
  <2>3. CASE AddBlockToExisting
    BY <2>1, <2>3, AddOnePlaced
  <2>4. CASE NextTHP
    BY <2>1, <2>4, FillNextPlaced, AddNextPlaced DEF NextTHP
  <2>5. QED
    BY <1>2, <2>2, <2>3, <2>4 DEF AddTHPs
<1>3. CASE AddBlockCrashes
  BY <1>3 DEF AddBlockCrashes
<1>4. CASE Regroup
  <2>1. phase \in {"fill", "regroup"} /\ UNCHANGED <<dram, config, blockSize, pc, mappings>>
    BY <1>4 DEF Regroup, Grouping!StartRegrouping, Grouping!EraseFirstGroup,
                Grouping!ReAddAddress, Grouping!TestPlausible
  <2>2. pc = "main"
    BY <1>1, <2>1 DEF Types
  <2>3. QED
    BY <1>4, <2>1, <2>2, RegroupPlaced DEF Regroup
<1>5. CASE Settle
  BY <1>5, SettledPlaced
<1>6. CASE Finish
  BY <1>6, FinishPlaced
<1>7. QED
  BY <1>2, <1>3, <1>4, <1>5, <1>6 DEF Next

LEMMA BanksNext == IInv /\ IInv' /\ BanksInv /\ [Next]_vars => BanksInv'
<1> SUFFICES ASSUME IInv, IInv', BanksInv, [Next]_vars, Regular', Exact'
             PROVE  Placed'
  BY DEF BanksInv
<1>1. CASE UNCHANGED vars
  <2>1. /\ UNCHANGED <<dram, groups, config, blockSize, pc, return, target, group, index, size, offset>>
        /\ UNCHANGED <<mappings, phase, thp, block, held, nErrors>>
    BY <1>1 DEF vars, loop
  <2>2. Regular /\ Exact
    BY <2>1 DEF Regular, Exact, MaxWrong
  <2>3. Placed
    BY <2>2 DEF BanksInv
  <2>4. Offered(InitialTHPs)' = Offered(InitialTHPs) /\ Offered(AdditionalTHPs)' = Offered(AdditionalTHPs)
    BY <2>1 DEF Offered, WasOffered, EndBlock, InitialTHPs, AdditionalTHPs
  <2>5. /\ InitialMemory' = InitialMemory /\ (Falling' <=> Falling)
        /\ (BanksApart(groups)' <=> BanksApart(groups))
        /\ (Covered' <=> Covered)
    BY <2>1, Stay DEF Covered
  <2>6. \A a : Bank(a)' = Bank(a)
    BY <2>1 DEF Bank
  <2>7. BlockHeads' = BlockHeads /\ (Filled' <=> Filled)
    BY <2>1, <2>5 DEF BlockHeads, Filled
  <2>8. Expanded' <=> Expanded
    <3>1. \A k, i : IsPassed(k, i)' <=> IsPassed(k, i)
      BY <2>1 DEF IsPassed
    <3>2. QED
      BY <2>1, <3>1 DEF Expanded
  <2>9. BanksOf(Elements(groups))' = BanksOf(Elements(groups))
    BY <2>1, <2>6 DEF BanksOf
  <2>10. Origins' /\ Falls'
    BY <2>1, <2>3, <2>4, <2>5 DEF Placed, Origins, Falls
  <2>11. Counting'
    BY <2>1, <2>3, <2>4, <2>6, <2>7, <2>9 DEF Placed, Counting
  <2>12. HeadsComplete'
    <3>1. HeadsComplete
      BY <2>3 DEF Placed
    <3>2. QED
      BY <2>1, <2>4, <2>5, <2>7, <2>8, <3>1 DEF HeadsComplete
  <2>13. QED
    BY <2>3, <2>5, <2>10, <2>11, <2>12 DEF Placed
<1>2. CASE Next
  <2>1. /\ Types /\ LayoutInv /\ InMemory /\ Types' /\ LayoutInv' /\ UNCHANGED <<dram, config, mappings>>
    BY <1>2, ConfigStays DEF IInv
  <2>2. pc' # "crashed" /\ Sound'
    BY <2>1 DEF Regular, LayoutInv
  <2>3. pc # "crashed"
    BY <1>2, <2>1, <2>2, CrashEnds
  <2>4. Regular /\ Exact
    BY <2>1, <2>3 DEF Regular, Exact, MaxWrong
  <2>5. Known
    BY <2>1, <2>4 DEF Known, BanksInv, LayoutInv, Regular, InMemory
  <2>6. QED
    BY <1>2, <2>1, <2>2, <2>5, PlacedNext
<1>3. QED
  BY <1>1, <1>2

LEMMA BanksInvariance == Spec => []BanksInv
<1>1. Spec => []IInv
  BY Invariance
<1>2. Init => BanksInv
  BY BanksInit
<1>3. IInv /\ IInv' /\ BanksInv /\ [Next]_vars => BanksInv'
  BY BanksNext
<1>4. QED
  BY <1>1, <1>2, <1>3, PTL DEF Spec

(* A group holds what the groups hold of the bank of its first address. *)
LEMMA GroupOf ==
  ASSUME groups \in Seq(Seq(Nat)), BanksApart(groups), Filled, NEW k \in DOMAIN groups, NEW a
  PROVE  /\ groups[k][1] \in Elements(groups)
         /\ a \in Range(groups[k]) <=> a \in Elements(groups) /\ Bank(a) = Bank(groups[k][1])
<1>1. groups[k] \in Seq(Nat) /\ groups[k] # << >>
  BY DEF Filled
<1>2. 1 \in DOMAIN groups[k]
  BY <1>1
<1>3. groups[k][1] \in Elements(groups)
  BY <1>2, ElementsAre
<1>4. ASSUME a \in Range(groups[k])
      PROVE  a \in Elements(groups) /\ Bank(a) = Bank(groups[k][1])
  <2>1. PICK i \in DOMAIN groups[k] : groups[k][i] = a
    BY <1>4 DEF Range
  <2>2. QED
    BY <1>2, <2>1, ElementsAre DEF BanksApart
<1>5. ASSUME a \in Elements(groups), Bank(a) = Bank(groups[k][1])
      PROVE  a \in Range(groups[k])
  <2>1. PICK l \in DOMAIN groups : \E i \in DOMAIN groups[l] : groups[l][i] = a
    BY <1>5, ElementsAre
  <2>2. PICK i \in DOMAIN groups[l] : groups[l][i] = a
    BY <2>1
  <2>3. k = l
    BY <1>2, <1>5, <2>2 DEF BanksApart
  <2>4. QED
    BY <2>2, <2>3 DEF Range
<1>6. QED
  BY <1>3, <1>4, <1>5

(* The blocks of the additional THPs, between the pages that -S and -E     *)
(* name, all reach the group of their bank in the block size that was      *)
(* settled, for every memory that is measured right and has no two         *)
(* addresses in one row, every initial size that is a power of two, and    *)
(* without a start offset or with blocks of one page; the errors main      *)
(* reports are exactly the blocks whose bank has no group.                 *)
THEOREM AmdreAdditionsComplete == Spec => []AdditionsComplete
<1>1. IInv /\ BanksInv => AdditionsComplete
  <2> SUFFICES ASSUME IInv, BanksInv, phase = "done", Exact, AdditionalBlocks # {},
                      config.startOffset = 0 \/ blockSize = PageSize,
                      IsNumberPowerOfTwo(config.initialBlockSize)
               PROVE  /\ \A k \in DOMAIN groups :
                           Range(groups[k]) \ InitialMemory =
                             {a \in AdditionalBlocks : Bank(a) = Bank(groups[k][1])}
                      /\ nErrors = Cardinality({a \in AdditionalBlocks :
                                      \A k \in DOMAIN groups : Bank(a) # Bank(groups[k][1])})
    BY DEF AdditionsComplete
  <2>1. Types /\ pc = "done" /\ Regular /\ Sound /\ groups \in Seq(Seq(Nat))
    BY DEF IInv, LayoutInv, Types, Regular
  <2>2. blockSize # 0 /\ Placed
    BY <2>1 DEF Sound, Types, BanksInv
  <2>3. Offered(AdditionalTHPs) = AdditionalBlocks
    <3>1. Offered(AdditionalTHPs) = OfferedBlocks
      BY <2>1, <2>2, AllOffered DEF Placed, Counting
    <3>2. QED
      BY <2>1, <2>2, <3>1, OfferedAreAdditional
  <2>4. \A a \in AdditionalBlocks : a \notin InitialMemory
    <3>1. AdditionalTHPs \subseteq 1 .. NTHPs
      BY <2>1, OptionsAre DEF AdditionalTHPs
    <3>2. \A a \in AdditionalBlocks : InTHP(a, AdditionalTHPs)
      BY <2>1, <2>2, <2>3, <3>1, OfferedIs, OfferedInTHP
    <3>3. QED
      BY <2>1, <3>2, AdditionalApart
  <2>5. /\ Filled /\ BanksApart(groups)
        /\ Elements(groups) \subseteq InitialMemory \cup AdditionalBlocks
        /\ \A a \in AdditionalBlocks : a \in Elements(groups) \/ Bank(a) \notin BanksOf(Elements(groups))
        /\ nErrors = Cardinality(AdditionalBlocks \ Elements(groups))
    BY <2>1, <2>2, <2>3 DEF Placed, Origins, Counting
  <2>6. ASSUME NEW a \in AdditionalBlocks
        PROVE  a \in Elements(groups) <=> \E k \in DOMAIN groups : Bank(a) = Bank(groups[k][1])
    <3>1. ASSUME a \in Elements(groups)
          PROVE  \E k \in DOMAIN groups : Bank(a) = Bank(groups[k][1])
      <4>1. PICK k \in DOMAIN groups : a \in Range(groups[k])
        BY <3>1 DEF Elements
      <4>2. QED
        BY <2>1, <2>5, <4>1, GroupOf
    <3>2. ASSUME NEW k \in DOMAIN groups, Bank(a) = Bank(groups[k][1])
          PROVE  a \in Elements(groups)
      <4>1. groups[k][1] \in Elements(groups)
        BY <2>1, <2>5, GroupOf
      <4>2. Bank(a) \in BanksOf(Elements(groups))
        BY <3>2, <4>1 DEF BanksOf
      <4>3. QED
        BY <2>5, <4>2
    <3>3. QED
      BY <3>1, <3>2
  <2>7. ASSUME NEW k \in DOMAIN groups
        PROVE  Range(groups[k]) \ InitialMemory = {a \in AdditionalBlocks : Bank(a) = Bank(groups[k][1])}
    <3>1. \A a : a \in Range(groups[k]) <=> a \in Elements(groups) /\ Bank(a) = Bank(groups[k][1])
      BY <2>1, <2>5, GroupOf
    <3>2. QED
      BY <2>4, <2>5, <2>6, <3>1
  <2>8. AdditionalBlocks \ Elements(groups) =
          {a \in AdditionalBlocks : \A k \in DOMAIN groups : Bank(a) # Bank(groups[k][1])}
    BY <2>6
  <2>9. QED
    BY <2>5, <2>7, <2>8
<1>2. QED
  BY <1>1, Invariance, BanksInvariance, PTL

(* While block sizes only fall, expandBlocks misses nothing, although the  *)
(* groups grow while it walks through them: for every memory that is       *)
(* measured right, each group holds all block heads of its bank, in the    *)
(* size reached and also after the additional THPs.                        *)
THEOREM AmdreExpansionComplete == Spec => []ExpansionComplete
<1>1. IInv /\ BanksInv => ExpansionComplete
  <2> SUFFICES ASSUME IInv, BanksInv, Settled, Exact, PowersOfTwo,
                      pc = "detect" \/ config.blockSize \in 1 .. config.initialBlockSize,
                      BanksOf(InitialMemory) = {Bank(groups[k][1]) : k \in DOMAIN groups},
                      NEW k \in DOMAIN groups
               PROVE  Range(groups[k]) \cap InitialMemory =
                        {a \in InitialMemory : a % blockSize = 0 /\ Bank(a) = Bank(groups[k][1])}
    BY DEF ExpansionComplete
  <2>1. Types /\ pc \in {"step", "detect", "done"} /\ Regular /\ Sound /\ groups \in Seq(Seq(Nat))
    BY DEF IInv, LayoutInv, Types, Regular, Settled, PowersOfTwo
  <2>2. blockSize # 0 /\ Placed /\ phase \in {"add", "done"}
    BY <2>1 DEF Sound, Types, BanksInv, Settled
  <2>3. pc \in {"step", "done"} => Falling
    BY <2>1, OptionsAre DEF Falling, PowersOfTwo
  <2>4. phase = "done" => pc = "done"
    BY <2>1 DEF Types
  <2>5. Filled /\ BanksApart(groups)
    BY <2>1, <2>2, <2>3, <2>4 DEF Placed, HeadsComplete
  <2>6. Covered
    <3>1. \A l \in DOMAIN groups : groups[l][1] \in Elements(groups)
      BY <2>1, <2>5, GroupOf
    <3>2. QED
      BY <3>1 DEF Covered, BanksOf
  <2>7. BlockHeads \subseteq Elements(groups)
    BY <2>1, <2>2, <2>3, <2>6 DEF Placed, HeadsComplete
  <2>8. \A a \in Elements(groups) \cap InitialMemory : a % blockSize = 0
    <3>1. HeadsOnly
      BY HeadsOnlyHolds DEF IInv
    <3>2. QED
      BY <3>1 DEF HeadsOnly, Elements
  <2>9. \A a : a \in Range(groups[k]) <=> a \in Elements(groups) /\ Bank(a) = Bank(groups[k][1])
    BY <2>1, <2>5, GroupOf
  <2>10. QED
    BY <2>7, <2>8, <2>9 DEF BlockHeads
<1>2. QED
  BY <1>1, Invariance, BanksInvariance, PTL

-----------------------------------------------------------------------------
(* Blocks of one bank, counted from the first of the bank *)

(* The heads of blocks of size s of the same bank that lie before h *)
Before(h, s) == {x \in Heads(s, Bank(h)) : x < h}

LEMMA RanksAre ==
  ASSUME IsFiniteSet(InitialMemory), InitialMemory \subseteq Nat, NEW s
  PROVE  /\ \A h : IsFiniteSet(Before(h, s)) /\ Cardinality(Before(h, s)) \in Nat
         /\ \A h, i \in InitialMemory : h <= i /\ Bank(h) = Bank(i) =>
              Cardinality(Before(h, s)) <= Cardinality(Before(i, s))
         /\ \A h \in InitialMemory, d \in Nat : Cardinality(Before(h, s)) > d =>
              \E x \in Before(h, s) : Cardinality(Before(x, s)) >= d
         /\ \A bank : \A d \in Nat : Cardinality(Heads(s, bank)) > d =>
              \E x \in Heads(s, bank) : Cardinality(Before(x, s)) >= d
<1>1. \A bank : Heads(s, bank) \in SUBSET Int /\ IsFiniteSet(Heads(s, bank))
  <2> TAKE bank
  <2>1. Heads(s, bank) \in SUBSET InitialMemory
    BY DEF Heads
  <2>2. IsFiniteSet(Heads(s, bank))
    BY <2>1, FS_Subset
  <2>3. \A x \in Heads(s, bank) : x \in Int
    <3>1. \A x \in InitialMemory : x \in Int
      OBVIOUS
    <3>2. QED
      BY <3>1 DEF Heads
  <2>4. QED
    BY <2>2, <2>3
<1>2. \A h : Before(h, s) \in SUBSET Int /\ IsFiniteSet(Before(h, s))
              /\ Cardinality(Before(h, s)) \in Nat
  <2> TAKE h
  <2>1. Before(h, s) \in SUBSET Heads(s, Bank(h))
    BY DEF Before
  <2>2. QED
    BY <1>1, <2>1, FS_Subset, FS_CardinalityType
<1>3. ASSUME NEW h \in InitialMemory, NEW i \in InitialMemory, h <= i, Bank(h) = Bank(i)
      PROVE  Cardinality(Before(h, s)) <= Cardinality(Before(i, s))
  <2>1. Before(h, s) \in SUBSET Before(i, s)
    BY <1>1, <1>3 DEF Before
  <2>2. QED
    BY <1>2, <2>1, FS_Subset
<1>4. ASSUME NEW h \in InitialMemory, NEW d \in Nat, Cardinality(Before(h, s)) > d
      PROVE  \E x \in Before(h, s) : Cardinality(Before(x, s)) >= d
  <2>1. PICK x \in Before(h, s) : Cardinality({y \in Before(h, s) : y < x}) >= d
    BY <1>2, <1>4, RankedLast
  <2>2. {y \in Before(h, s) : y < x} = Before(x, s)
    <3>1. x < h /\ Bank(x) = Bank(h) /\ x \in Int
      BY <1>2, <2>1 DEF Before, Heads
    <3>2. ASSUME NEW y
          PROVE  y \in Before(h, s) /\ y < x <=> y \in Before(x, s)
      <4>1. y \in Before(x, s) => y < h
        <5>1. y \in Before(x, s) => y \in Int /\ y < x
          BY <1>2 DEF Before
        <5>2. h \in Int
          BY <1>4
        <5>3. QED
          BY <3>1, <5>1, <5>2
      <4>2. QED
        BY <3>1, <4>1 DEF Before
    <3>3. QED
      BY <3>2
  <2>3. QED
    BY <2>1, <2>2
<1>5. ASSUME NEW bank, NEW d \in Nat, Cardinality(Heads(s, bank)) > d
      PROVE  \E x \in Heads(s, bank) : Cardinality(Before(x, s)) >= d
  <2>1. PICK x \in Heads(s, bank) : Cardinality({y \in Heads(s, bank) : y < x}) >= d
    BY <1>1, <1>5, RankedLast
  <2>2. {y \in Heads(s, bank) : y < x} = Before(x, s)
    BY <2>1 DEF Before, Heads
  <2>3. QED
    BY <2>1, <2>2
<1>6. QED
  BY <1>2, <1>3, <1>4, <1>5

LEMMA BlockOfOneBank ==
  ASSUME NEW s \in Nat \ {0}, HasBlocksOf(s), InitialMemory \subseteq Nat
  PROVE  /\ \A h \in InitialMemory, i \in 0 .. s - 1 :
              h % s = 0 => h + i \in InitialMemory /\ Bank(h + i) = Bank(h)
         /\ \A a \in InitialMemory :
              /\ a - (a % s) \in InitialMemory /\ (a - (a % s)) % s = 0
              /\ a % s \in 0 .. s - 1 /\ Bank(a - (a % s)) = Bank(a)
<1>1. ASSUME NEW h \in InitialMemory, h % s = 0
      PROVE  \A i \in 0 .. s - 1 : h + i \in InitialMemory /\ Bank(h + i) = Bank(h)
  <2>1. h \in Nat /\ h - (h % s) = h
    BY <1>1
  <2>2. \A i \in 0 .. s - 1 : h + i \in InitialMemory
    <3>1. {h - (h % s) + i : i \in 0 .. s - 1} \subseteq InitialMemory
      BY DEF HasBlocksOf
    <3>2. QED
      BY <2>1, <3>1
  <2> DEFINE bad == {i \in 0 .. s - 1 : Bank(h + i) # Bank(h)}
  <2>3. bad = {}
    <3> SUFFICES ASSUME bad # {}
                 PROVE  FALSE
      OBVIOUS
    <3>1. bad \in SUBSET Nat
      OBVIOUS
    <3>2. PICK i \in bad : \A j \in bad : i <= j
      <4> HIDE DEF bad
      <4>1. QED
        BY <3>1, LeastNatural
    <3>3. i \in 0 .. s - 1 /\ Bank(h + i) # Bank(h)
      BY <3>2
    <3>4. i # 0
      <4>1. h + 0 = h
        BY <2>1
      <4>2. QED
        BY <3>3, <4>1
    <3>5. i - 1 \in 0 .. s - 1 /\ h + (i - 1) + 1 = h + i
      BY <2>1, <3>3, <3>4
    <3>6. Bank(h + (i - 1)) = Bank(h)
      <4>1. i - 1 \notin bad
        BY <3>2, <3>3, <3>5
      <4>2. QED
        BY <3>5, <4>1
    <3>7. (h + i) % s # 0
      BY <1>1, <2>1, <3>3, <3>4, RemainderAdds
    <3>8. Bank(h + (i - 1)) = Bank(h + i)
      <4>1. PICK b \in InitialMemory : b = h + (i - 1)
        BY <2>2, <3>5
      <4>2. b + 1 \in InitialMemory => (Bank(b) = Bank(b + 1) <=> (b + 1) % s # 0)
        BY <4>1 DEF HasBlocksOf
      <4>3. b + 1 = h + i /\ h + i \in InitialMemory
        BY <2>2, <3>3, <3>5, <4>1
      <4>4. QED
        BY <3>7, <4>1, <4>2, <4>3
    <3>9. QED
      BY <3>3, <3>6, <3>8
  <2>4. QED
    BY <2>2, <2>3
<1>2. ASSUME NEW a \in InitialMemory
      PROVE  /\ a - (a % s) \in InitialMemory /\ (a - (a % s)) % s = 0
             /\ a % s \in 0 .. s - 1 /\ Bank(a - (a % s)) = Bank(a)
  <2>1. PICK h : h = a - (a % s)
    OBVIOUS
  <2>2. a \in Nat /\ a % s \in 0 .. s - 1 /\ h \in Nat /\ h % s = 0 /\ h + 0 = h /\ h + (a % s) = a
    <3>1. a \in Nat
      OBVIOUS
    <3>2. a % s \in 0 .. s - 1 /\ h \in Nat /\ h % s = 0
      BY <2>1, <3>1, RemainderOff
    <3>3. QED
      BY <2>1, <3>1, <3>2
  <2>3. h \in InitialMemory
    <3>1. {a - (a % s) + i : i \in 0 .. s - 1} \subseteq InitialMemory
      BY DEF HasBlocksOf
    <3>2. h + 0 \in {a - (a % s) + i : i \in 0 .. s - 1}
      BY <2>1
    <3>3. QED
      BY <2>2, <3>1, <3>2
  <2>4. Bank(h + (a % s)) = Bank(h)
    BY <1>1, <2>2, <2>3
  <2>5. QED
    BY <2>1, <2>2, <2>3, <2>4
<1>3. QED
  BY <1>1, <1>2

(* The condition under which no group runs empty: there is a block of size *)
(* s for each turn of simplifyBlocks and one more, in each bank.           *)
Spare(s) ==
  /\ Exact /\ PowersOfTwo /\ HasBlocksOf(s) /\ s >= config.initialBlockSize
  /\ config.blockSize <= s
  /\ \A bank \in BanksOf(InitialMemory) : Cardinality(Heads(s, bank)) > Doublings

LEMMA SpareIs ==
  ASSUME Types, Regular, NEW s \in RegularSizes, Spare(s)
  PROVE  /\ s \in Nat \ {0} /\ IsPower(s)
         /\ config.initialBlockSize \in Nat \ {0} /\ IsPower(config.initialBlockSize)
         /\ config.initialBlockSize <= s
         /\ config.blockSize \in Nat /\ config.blockSize <= s
         /\ IsFiniteSet(InitialMemory) /\ InitialMemory \subseteq Nat
<1>1. PICK i \in 0 .. 3 : s = 2^i
  BY DEF RegularSizes
<1>2. s \in Nat \ {0} /\ IsPower(s)
  BY <1>1, PowerDoubles DEF IsPower
<1>3. /\ config.initialBlockSize \in Nat \ {0} /\ IsPower(config.initialBlockSize)
      /\ config.blockSize \in Nat /\ config.blockSize <= s
  BY OptionsAre, PowerIs DEF Regular, Spare
<1>4. config.initialBlockSize <= s
  BY <1>2, <1>3 DEF Spare
<1>5. IsFiniteSet(InitialMemory) /\ InitialMemory \subseteq Nat
  <2>1. CASE InitialMemory = {}
    BY <2>1, FS_EmptySet
  <2>2. CASE InitialMemory # {}
    <3>1. InitialMemory \subseteq Nat /\ InitialMemory \subseteq DOMAIN dram.cells
      BY <2>2, HeadsAre
    <3>2. IsFiniteSet(DOMAIN dram.cells)
      BY ExactCells DEF Spare
    <3>3. QED
      BY <3>1, <3>2, FS_Subset
  <2>3. QED
    BY <2>1, <2>2
<1>6. QED
  BY <1>2, <1>3, <1>4, <1>5

(* The blocks of size s with d or more of their bank before them are       *)
(* wholly in the groups.                                                   *)
WholeBehind(s, d) ==
  \A h \in InitialMemory : h % s = 0 /\ Cardinality(Before(h, s)) >= d =>
    \A i \in 0 .. s - 1 : (h + i) % blockSize = 0 => h + i \in Elements(groups)

LEMMA MultiplesAdd ==
  ASSUME NEW b \in Nat \ {0}, NEW a \in Nat, NEW o \in Nat, a % b = 0, o % b = 0
  PROVE  (a + o) % b = 0
<1>1. PICK p \in Nat : a = p * b
  BY RemainderIs
<1>2. PICK q \in Nat : o = q * b
  BY RemainderIs
<1>3. a + o = (p + q) * b /\ p + q \in Nat /\ a + o \in Nat
  BY <1>1, <1>2
<1>4. QED
  BY <1>3, RemainderIs

(* What the groups are when simplifyBlocks finds blocks of size s in them. *)
Simplifiable(s, d, new) ==
  /\ s \in Nat \ {0} /\ d \in Nat /\ HasBlocksOf(s)
  /\ InitialMemory \subseteq Nat /\ IsFiniteSet(InitialMemory)
  /\ IsPower(blockSize) /\ IsPower(new) /\ IsPower(s) /\ blockSize <= new /\ new <= s
  /\ groups \in Seq(Seq(Nat)) /\ BanksApart(groups) /\ Filled
  /\ Elements(groups) \subseteq InitialMemory
  /\ WholeBehind(s, d)

LEMMA SizesDivide ==
  ASSUME NEW s, NEW d, NEW new, Simplifiable(s, d, new)
  PROVE  /\ blockSize \in Nat \ {0} /\ new \in Nat \ {0}
         /\ \A a \in Nat : (a % s = 0 => a % new = 0) /\ (a % new = 0 => a % blockSize = 0)
         /\ \E q \in Nat : s = q * new
<1>1. /\ blockSize \in Nat \ {0} /\ new \in Nat \ {0} /\ s \in Nat \ {0}
      /\ IsPower(blockSize) /\ IsPower(new) /\ IsPower(s) /\ blockSize <= new /\ new <= s
  BY PowerSteps DEF Simplifiable
<1>2. PICK p \in Nat \ {0} : new = p * blockSize
  BY <1>1, PowersCompare
<1>3. PICK q \in Nat \ {0} : s = q * new
  BY <1>1, PowersCompare
<1>4. \A a \in Nat : a % s = 0 => a % new = 0
  BY <1>1, <1>3, DivisorDivides
<1>5. \A a \in Nat : a % new = 0 => a % blockSize = 0
  BY <1>1, <1>2, DivisorDivides
<1>6. QED
  BY <1>1, <1>3, <1>4, <1>5

(* simplifyBlocks keeps an address when a whole block of its bank lies     *)
(* before that of the address.                                             *)
LEMMA KeptBehind ==
  ASSUME NEW s, NEW d, NEW new, Simplifiable(s, d, new),
         NEW k \in DOMAIN groups, NEW a \in Range(groups[k]), a % new = 0,
         NEW p \in Before(a - (a % s), s), Cardinality(Before(p, s)) >= d
  PROVE  IsKept(a, groups[k], new)
<1>1. /\ s \in Nat \ {0} /\ d \in Nat /\ HasBlocksOf(s) /\ WholeBehind(s, d)
      /\ InitialMemory \subseteq Nat /\ IsFiniteSet(InitialMemory)
      /\ groups \in Seq(Seq(Nat)) /\ BanksApart(groups) /\ Filled
      /\ Elements(groups) \subseteq InitialMemory
  BY DEF Simplifiable
<1>2. /\ blockSize \in Nat \ {0} /\ new \in Nat \ {0} /\ \E q \in Nat : s = q * new
      /\ \A x \in Nat : (x % s = 0 => x % new = 0) /\ (x % new = 0 => x % blockSize = 0)
  BY SizesDivide
<1> DEFINE g == groups[k]
           bank == Bank(groups[k][1])
           before == HeadsBefore(a, g, new)
<1>3. \A x : x \in Range(g) <=> x \in Elements(groups) /\ Bank(x) = bank
  BY <1>1, GroupOf
<1>4. \A x \in Range(g) : x \in InitialMemory /\ x \in Nat /\ Bank(x) = bank
  BY <1>1, <1>3
<1>5. /\ \A h \in InitialMemory, i \in 0 .. s - 1 :
              h % s = 0 => h + i \in InitialMemory /\ Bank(h + i) = Bank(h)
      /\ \A x \in InitialMemory :
              /\ x - (x % s) \in InitialMemory /\ (x - (x % s)) % s = 0
              /\ x % s \in 0 .. s - 1 /\ Bank(x - (x % s)) = Bank(x)
  BY <1>1, BlockOfOneBank
<1>6. p \in InitialMemory /\ p \in Nat /\ p % s = 0 /\ Bank(p) = bank /\ p < a
  <2>1. p \in InitialMemory /\ p % s = 0 /\ Bank(p) = Bank(a - (a % s)) /\ p < a - (a % s)
    BY DEF Before, Heads
  <2>2. a \in InitialMemory /\ Bank(a - (a % s)) = bank /\ a % s \in 0 .. s - 1 /\ a \in Nat
    BY <1>4, <1>5
  <2>3. p \in Nat
    BY <1>1, <2>1
  <2>4. QED
    BY <1>1, <2>1, <2>2, <2>3
<1>7. p % new = 0
  BY <1>2, <1>6
<1>8. p \in before
  <2>1. p \in Elements(groups)
    <3>1. 0 \in 0 .. s - 1 /\ p + 0 = p /\ (p + 0) % blockSize = 0
      <4>1. s \in Nat \ {0} /\ p \in Nat /\ p % blockSize = 0
        BY <1>1, <1>2, <1>6, <1>7
      <4>2. QED
        BY <4>1
    <3>2. QED
      BY <1>1, <1>6, <3>1 DEF WholeBehind
  <2>2. QED
    BY <1>3, <1>6, <1>7, <2>1 DEF HeadsBefore
<1> HIDE DEF g, bank
<1>9. Max(before) \in before /\ \A x \in before : Max(before) >= x
  <2>1. before \in SUBSET Int /\ before # {} /\ a \in Int /\ \A x \in before : x <= a
    BY <1>4, <1>8 DEF HeadsBefore, g
  <2> HIDE DEF before
  <2>2. \E x \in before : \A y \in before : x >= y
    BY <2>1, GreatestBelow
  <2>3. QED
    BY <2>2 DEF Max
<1>10. PICK q : q = Max(before)
  OBVIOUS
<1>11. /\ q \in Range(g) /\ q \in InitialMemory /\ q \in Nat /\ Bank(q) = bank
       /\ q % new = 0 /\ p <= q
  <2>1. q \in Range(g) /\ q % new = 0 /\ q >= p
    BY <1>8, <1>9, <1>10 DEF HeadsBefore
  <2>2. QED
    BY <1>4, <1>6, <2>1
<1>12. PICK h : h = q - (q % s)
  OBVIOUS
<1>13. PICK r : r = q % s
  OBVIOUS
<1>14. /\ h \in InitialMemory /\ h \in Nat /\ h % s = 0 /\ Bank(h) = bank
       /\ r \in 0 .. s - 1 /\ h + r = q
  <2>1. /\ h \in InitialMemory /\ h % s = 0 /\ Bank(h) = bank
        /\ r \in 0 .. s - 1
    BY <1>5, <1>11, <1>12, <1>13
  <2>2. s \in Nat \ {0} /\ h \in Nat
    BY <1>1, <2>1
  <2>3. h + r = q
    BY <1>11, <1>12, <1>13, <2>1, <2>2
  <2>4. QED
    BY <2>1, <2>2, <2>3
<1>15. Cardinality(Before(h, s)) >= d
  <2>1. p <= h
    BY <1>1, <1>6, <1>11, <1>12, RemainderOff
  <2>2. /\ Cardinality(Before(p, s)) <= Cardinality(Before(h, s))
        /\ Cardinality(Before(p, s)) \in Nat /\ Cardinality(Before(h, s)) \in Nat
    BY <1>1, <1>6, <1>14, <2>1, RanksAre
  <2>3. QED
    BY <1>1, <2>2
<1>16. r + new <= s
  <2>1. \E n \in Nat : h = n * new
    BY <1>2, <1>14, RemainderIs
  <2>2. QED
    BY <1>1, <1>2, <1>11, <1>14, <2>1, BlockEndsInTHP
<1>17. WholeBlock(q, g, new)
  <2> SUFFICES ASSUME NEW o \in 1 .. new - 1, o % blockSize = 0
               PROVE  q + o \in Range(g)
    BY DEF WholeBlock
  <2>1. r + o \in 0 .. s - 1 /\ h + (r + o) = q + o /\ o \in Nat
    <3>1. /\ s \in Nat \ {0} /\ new \in Nat \ {0} /\ h \in Nat /\ r \in 0 .. s - 1
          /\ h + r = q /\ r + new <= s
      BY <1>1, <1>2, <1>14, <1>16
    <3>2. QED
      BY <3>1
  <2>2. (q + o) % blockSize = 0
    BY <1>2, <1>11, <2>1, MultiplesAdd
  <2>3. q + o \in Elements(groups)
    BY <1>1, <1>14, <1>15, <2>1, <2>2 DEF WholeBehind
  <2>4. Bank(q + o) = bank
    BY <1>5, <1>14, <2>1
  <2>5. QED
    BY <1>3, <2>3, <2>4
<1>18. QED
  BY <1>8, <1>10, <1>17 DEF IsKept, g

(* So it takes one block of each bank away and leaves the others whole.    *)
LEMMA SimplifyLeaves ==
  ASSUME NEW s, NEW d, NEW new, Simplifiable(s, d, new), UNCHANGED <<dram, config, mappings>>,
         \A bank \in BanksOf(InitialMemory) : Cardinality(Heads(s, bank)) > d + 1,
         groups' = [k \in DOMAIN groups |-> Simplified(groups[k], new)], blockSize' = new
  PROVE  Filled' /\ WholeBehind(s, d + 1)'
<1>1. /\ s \in Nat \ {0} /\ d \in Nat /\ HasBlocksOf(s) /\ WholeBehind(s, d)
      /\ InitialMemory \subseteq Nat /\ IsFiniteSet(InitialMemory)
      /\ groups \in Seq(Seq(Nat)) /\ BanksApart(groups) /\ Filled
      /\ Elements(groups) \subseteq InitialMemory
  BY DEF Simplifiable
<1>2. /\ blockSize \in Nat \ {0} /\ new \in Nat \ {0}
      /\ \A x \in Nat : (x % s = 0 => x % new = 0) /\ (x % new = 0 => x % blockSize = 0)
  BY SizesDivide
<1>3. \A x : Bank(x)' = Bank(x)
  BY DEF Bank
<1>4. InitialMemory' = InitialMemory /\ \A h : Before(h, s)' = Before(h, s)
  BY <1>3, Stay DEF Before, Heads
<1>5. /\ \A h \in InitialMemory, i \in 0 .. s - 1 :
              h % s = 0 => h + i \in InitialMemory /\ Bank(h + i) = Bank(h)
  BY <1>1, BlockOfOneBank
<1>6. /\ \A h : Cardinality(Before(h, s)) \in Nat
      /\ \A h \in InitialMemory : Cardinality(Before(h, s)) > d =>
              \E x \in Before(h, s) : Cardinality(Before(x, s)) >= d
      /\ \A bank : Cardinality(Heads(s, bank)) > d + 1 =>
              \E x \in Heads(s, bank) : Cardinality(Before(x, s)) >= d + 1
  <2>1. d + 1 \in Nat
    BY <1>1
  <2>2. QED
    BY <1>1, <2>1, RanksAre
<1> DEFINE kept == [k \in DOMAIN groups |-> {i \in DOMAIN groups[k] : IsKept(groups[k][i], groups[k], new)}]
<1>7. /\ groups' \in Seq(Seq(Nat)) /\ DOMAIN groups' = DOMAIN groups
      /\ \A k \in DOMAIN groups : Range(groups'[k]) = {groups[k][i] : i \in kept[k]}
  <2>1. groups' = SortedAll(groups, kept)
    BY DEF SortedAll, Simplified
  <2>2. \A k \in DOMAIN groups : kept[k] \subseteq DOMAIN groups[k]
    OBVIOUS
  <2> HIDE DEF kept
  <2>3. groups \in Seq(Seq(Nat))
    BY <1>1
  <2>4. groups' \in Seq(Seq(Nat)) /\ DOMAIN groups' = DOMAIN groups
    BY <2>1, <2>2, <2>3, SortedAllKeeps
  <2>5. \A k \in DOMAIN groups : Range(groups'[k]) = {groups[k][i] : i \in kept[k]}
    BY <2>1, <2>2, <2>3, SortedAllKeeps, ZenonT(60)
  <2>6. QED
    BY <2>4, <2>5
<1>8. ASSUME NEW h \in InitialMemory, h % s = 0, Cardinality(Before(h, s)) >= d + 1,
             NEW i \in 0 .. s - 1, (h + i) % new = 0, NEW k \in DOMAIN groups
      PROVE  h + i \in Range(groups[k]) => h + i \in Range(groups'[k])
  <2> SUFFICES ASSUME h + i \in Range(groups[k])
               PROVE  h + i \in Range(groups'[k])
    OBVIOUS
  <2>1. PICK p \in Before(h, s) : Cardinality(Before(p, s)) >= d
    <3>1. Cardinality(Before(h, s)) \in Nat /\ d \in Nat
      BY <1>1, <1>6
    <3>2. Cardinality(Before(h, s)) > d
      BY <1>8, <3>1
    <3>3. QED
      BY <1>6, <3>2
  <2>2. PICK a : a = h + i
    OBVIOUS
  <2>3. a - (a % s) = h
    <3>1. h \in Nat /\ a % s = i
      BY <1>1, <1>8, <2>2, RemainderAdds
    <3>2. QED
      BY <2>2, <3>1
  <2>4. IsKept(a, groups[k], new)
    BY <1>8, <2>1, <2>2, <2>3, KeptBehind
  <2>5. PICK j \in DOMAIN groups[k] : groups[k][j] = a
    BY <2>2 DEF Range
  <2>6. j \in kept[k]
    BY <2>4, <2>5
  <2>7. QED
    BY <1>7, <2>2, <2>5, <2>6
<1>9. ASSUME NEW h \in InitialMemory, h % s = 0, Cardinality(Before(h, s)) >= d + 1,
             NEW i \in 0 .. s - 1, (h + i) % new = 0
      PROVE  h + i \in Elements(groups')
  <2>1. h + i \in Elements(groups)
    <3>1. Cardinality(Before(h, s)) >= d
      BY <1>1, <1>6, <1>9
    <3>2. (h + i) % blockSize = 0
      <4>1. h + i \in Nat
        BY <1>1, <1>9
      <4>2. QED
        BY <1>2, <1>9, <4>1
    <3>3. QED
      BY <1>1, <1>9, <3>1, <3>2 DEF WholeBehind
  <2>2. PICK k \in DOMAIN groups : h + i \in Range(groups[k])
    BY <2>1 DEF Elements
  <2>3. QED
    BY <1>7, <1>8, <1>9, <2>2 DEF Elements
<1>10. WholeBehind(s, d + 1)'
  BY <1>4, <1>9 DEF WholeBehind
<1>11. ASSUME NEW k \in DOMAIN groups
       PROVE  groups'[k] # << >>
  <2>1. PICK bank : bank = Bank(groups[k][1])
    OBVIOUS
  <2>2. bank \in BanksOf(InitialMemory)
    BY <1>1, <2>1, GroupOf DEF BanksOf
  <2>3. PICK x \in Heads(s, bank) : Cardinality(Before(x, s)) >= d + 1
    BY <1>6, <2>2
  <2>4. x \in InitialMemory /\ x % s = 0 /\ Bank(x) = bank /\ x \in Nat
    BY <1>1 DEF Heads
  <2>5. 0 \in 0 .. s - 1 /\ x + 0 = x /\ x % new = 0 /\ x % blockSize = 0
    BY <1>1, <1>2, <2>4
  <2>6. x \in Elements(groups)
    <3>1. Cardinality(Before(x, s)) >= d
      BY <1>1, <1>6, <2>3
    <3>2. QED
      BY <1>1, <2>4, <2>5, <3>1 DEF WholeBehind
  <2>7. x \in Range(groups[k])
    BY <1>1, <2>1, <2>4, <2>6, GroupOf
  <2>8. x \in Range(groups'[k])
    BY <1>8, <2>3, <2>4, <2>5, <2>7
  <2>9. QED
    BY <2>8 DEF Range
<1>12. QED
  BY <1>7, <1>10, <1>11 DEF Filled

(* A step up is one of those that Doublings counts. *)
LEMMA DoublingsCount ==
  ASSUME Types, NEW d \in Nat, 2^(d + 1) * config.initialBlockSize <= config.blockSize
  PROVE  Doublings \in Nat /\ Doublings >= d + 1
<1>1. config.initialBlockSize \in Nat \ {0} /\ config.blockSize \in Nat
  BY OptionsAre
<1> DEFINE steps == {j \in 0 .. config.blockSize : 2^j * config.initialBlockSize <= config.blockSize}
<1>2. \A j \in Nat : 2^j \in Nat \ {0}
  BY PowerDoubles
<1>3. 2^(d + 1) <= config.blockSize /\ d + 1 \in Nat
  <2>1. PICK p \in Nat : p = 2^(d + 1)
    BY <1>2
  <2>2. p <= p * config.initialBlockSize
    BY <1>1
  <2>3. QED
    BY <1>1, <2>1, <2>2
<1>4. ASSUME NEW j \in 0 .. d + 1
      PROVE  j \in steps
  <2>1. PICK q \in Nat \ {0} : 2^(j + (d + 1 - j)) = q * 2^j
    <3>1. j \in Nat /\ d + 1 - j \in Nat
      OBVIOUS
    <3>2. QED
      BY <3>1, PowersDivide
  <2>2. j + (d + 1 - j) = d + 1 /\ j \in Nat
    OBVIOUS
  <2>3. PICK p \in Nat : p = 2^j
    BY <1>2
  <2>4. p * config.initialBlockSize <= q * (p * config.initialBlockSize)
    BY <1>1
  <2>5. q * (p * config.initialBlockSize) = (q * p) * config.initialBlockSize
    BY <1>1
  <2>6. p * config.initialBlockSize <= config.blockSize
    <3>1. (q * p) * config.initialBlockSize <= config.blockSize
      BY <2>1, <2>2, <2>3
    <3>2. QED
      BY <1>1, <2>4, <2>5, <3>1
  <2>7. j < 2^(d + 1)
    BY <1>2, <1>3, <2>2, PowerAbove
  <2>8. QED
    BY <1>1, <1>2, <1>3, <2>3, <2>6, <2>7
<1>5. steps \in SUBSET (0 .. config.blockSize) /\ IsFiniteSet(0 .. config.blockSize)
  <2>1. steps \in SUBSET (0 .. config.blockSize)
    OBVIOUS
  <2>2. PICK n \in Int : n = config.blockSize
    BY <1>1
  <2>3. IsFiniteSet(0 .. n)
    BY FS_Interval
  <2>4. QED
    BY <2>1, <2>2, <2>3
<1>6. config.blockSize # 0
  BY <1>2, <1>3
<1>7. Doublings = Cardinality(steps) - 1
  BY <1>6 DEF Doublings
<1>8. 0 .. d + 1 \in SUBSET steps
  BY <1>4
<1>9. Cardinality(0 .. d + 1) = d + 2
  BY FS_Interval
<1> HIDE DEF steps
<1>10. IsFiniteSet(steps) /\ Cardinality(steps) \in Nat
  BY <1>5, FS_Subset, FS_CardinalityType
<1>11. d + 2 <= Cardinality(steps)
  BY <1>8, <1>9, <1>10, FS_Subset
<1>12. QED
  BY <1>7, <1>10, <1>11

Ascending(g) == \A i, j \in DOMAIN g : i < j => g[i] < g[j]

LEMMA SortedAscends ==
  ASSUME NEW g \in Seq(Nat), \A i, j \in DOMAIN g : g[i] = g[j] => i = j
  PROVE  Ascending(Sorted(g))
<1> DEFINE I == DOMAIN g
           p == Sorted(g)
           upTo(v) == {i \in I : g[i] <= v}
           below(v) == {i \in I : g[i] < v}
<1>1. IsFiniteSet(I) /\ Cardinality(I) \in Nat /\ \A i \in I : g[i] \in Int
  BY IntervalSize
<1>2. DOMAIN p = 1 .. Cardinality(I) /\ p = SortedPart(g, I)
  BY DEF Sorted, SortedPart
<1> HIDE DEF p, I
<1>3. \A k \in DOMAIN p : HasRank(p[k], k, g, I)
  BY <1>1, <1>2, SortedAt
<1>4. ASSUME NEW k \in DOMAIN p, NEW l \in DOMAIN p, k < l
      PROVE  p[k] < p[l]
  <2>1. k \in Nat /\ l \in Nat
    BY <1>1, <1>2
  <2>2. p[k] \in Int /\ p[l] \in Int
    BY <1>1, <1>3 DEF HasRank
  <2>3. Cardinality(below(p[k])) < k /\ Cardinality(upTo(p[l])) >= l
    BY <1>3 DEF HasRank
  <2>4. p[k] # p[l]
    BY <1>1, <1>3, <1>4, <2>1, RankIsUnique DEF I
  <2>5. ~ (p[l] < p[k])
    <3> SUFFICES ASSUME p[l] < p[k]
                 PROVE  FALSE
      OBVIOUS
    <3>1. upTo(p[l]) \in SUBSET below(p[k]) /\ below(p[k]) \in SUBSET I
      BY <1>1, <2>2
    <3>2. /\ IsFiniteSet(below(p[k])) /\ Cardinality(below(p[k])) \in Nat
          /\ Cardinality(upTo(p[l])) \in Nat
          /\ Cardinality(upTo(p[l])) <= Cardinality(below(p[k]))
      <4> HIDE DEF upTo, below
      <4>1. IsFiniteSet(below(p[k]))
        BY <1>1, <3>1, FS_Subset
      <4>2. IsFiniteSet(upTo(p[l])) /\ Cardinality(upTo(p[l])) <= Cardinality(below(p[k]))
        BY <3>1, <4>1, FS_Subset
      <4>3. QED
        BY <4>1, <4>2, FS_CardinalityType
    <3>3. QED
      BY <1>4, <2>1, <2>3, <3>2
  <2>6. QED
    BY <2>2, <2>4, <2>5
<1>5. QED
  BY <1>4 DEF Ascending, p

LEMMA MultiplesApart ==
  ASSUME NEW n \in Nat \ {0}, NEW a \in Nat, NEW b \in Nat, a % n = 0, b % n = 0, a < b
  PROVE  a + n <= b /\ (b - n) % n = 0
<1>1. PICK p \in Nat : a = p * n
  BY RemainderIs
<1>2. PICK q \in Nat : b = q * n
  BY RemainderIs
<1>3. p < q
  <2>1. ~ (q <= p)
    <3> SUFFICES ASSUME q <= p
                 PROVE  FALSE
      OBVIOUS
    <3>1. PICK e \in Nat : p = q + e
      <4>1. p - q \in Nat /\ p = q + (p - q)
        OBVIOUS
      <4>2. QED
        BY <4>1
    <3>2. p * n = q * n + e * n /\ e * n \in Nat /\ q * n \in Nat
      BY <3>1
    <3>3. QED
      BY <1>1, <1>2, <3>2
  <2>2. QED
    BY <2>1
<1>4. PICK e \in Nat : q = p + 1 + e
  <2>1. q - p - 1 \in Nat /\ q = p + 1 + (q - p - 1)
    BY <1>3
  <2>2. QED
    BY <2>1
<1>5. b = a + n + e * n /\ e * n \in Nat
  BY <1>1, <1>2, <1>4
<1>6. b - n = (p + e) * n /\ p + e \in Nat /\ b - n \in Nat
  BY <1>1, <1>4, <1>5
<1>7. QED
  BY <1>5, <1>6, RemainderIs

(* A group when detectBlockSize guesses: the multiples of b of a bank, in  *)
(* ascending order.                                                        *)
HoldsBank(g, b, bank) ==
  /\ \A i \in DOMAIN g : g[i] \in InitialMemory /\ g[i] % b = 0 /\ Bank(g[i]) = bank
  /\ \A x \in InitialMemory : x % b = 0 /\ Bank(x) = bank => \E i \in DOMAIN g : g[i] = x
  /\ \A i, j \in DOMAIN g : i < j => g[i] < g[j]

LEMMA InOrder ==
  ASSUME NEW g \in Seq(Nat), \A i, j \in DOMAIN g : i < j => g[i] < g[j],
         NEW i \in DOMAIN g, NEW j \in DOMAIN g, g[i] < g[j]
  PROVE  i < j
<1>1. i \in Nat /\ j \in Nat /\ g[i] \in Nat /\ g[j] \in Nat
  OBVIOUS
<1>2. i # j
  BY <1>1
<1>3. ~ (j < i)
  <2>1. j < i => g[j] < g[i]
    OBVIOUS
  <2>2. QED
    BY <1>1, <2>1
<1>4. QED
  BY <1>1, <1>2, <1>3

(* Inside of a block of size s a run goes on. *)
LEMMA RunGoesOn ==
  ASSUME NEW s \in Nat \ {0}, NEW b \in Nat \ {0}, \E q \in Nat \ {0} : s = q * b,
         HasBlocksOf(s), InitialMemory \subseteq Nat,
         NEW g \in Seq(Nat), NEW bank, HoldsBank(g, b, bank),
         NEW i \in DOMAIN g, g[i] % s # 0
  PROVE  i # 1 /\ g[i - 1] + b = g[i]
<1>1. PICK a : a = g[i]
  OBVIOUS
<1>2. a \in InitialMemory /\ a \in Nat /\ a % b = 0 /\ Bank(a) = bank /\ a % s # 0
  BY <1>1 DEF HoldsBank
<1>3. PICK h : h = a - (a % s)
  OBVIOUS
<1>4. PICK r : r = a % s
  OBVIOUS
<1>5. h \in InitialMemory /\ h % s = 0 /\ Bank(h) = bank /\ r \in 0 .. s - 1
  BY <1>2, <1>3, <1>4, BlockOfOneBank
<1>6. h \in Nat /\ r \in 1 .. s - 1 /\ h + r = a /\ h < a
  <2>1. h \in Nat /\ r # 0
    BY <1>2, <1>4, <1>5
  <2>2. h + r = a
    BY <1>2, <1>3, <1>4, <1>5
  <2>3. QED
    BY <1>2, <1>5, <2>1, <2>2
<1>7. h % b = 0
  BY <1>5, <1>6, DivisorDivides
<1>8. h + b <= a /\ (a - b) % b = 0
  BY <1>2, <1>6, <1>7, MultiplesApart
<1>9. r - b \in 0 .. s - 1 /\ h + (r - b) = a - b
  BY <1>6, <1>8
<1>10. a - b \in InitialMemory /\ Bank(a - b) = bank
  <2>1. PICK o \in 0 .. s - 1 : o = r - b
    BY <1>9
  <2>2. h + o \in InitialMemory /\ Bank(h + o) = Bank(h)
    <3>1. \A x \in InitialMemory, n \in 0 .. s - 1 :
            x % s = 0 => x + n \in InitialMemory /\ Bank(x + n) = Bank(x)
      BY BlockOfOneBank
    <3>2. QED
      BY <1>5, <3>1
  <2>3. h + o = a - b
    BY <1>9, <2>1
  <2>4. QED
    BY <1>5, <2>2, <2>3
<1>11. PICK j \in DOMAIN g : g[j] = a - b
  BY <1>8, <1>10 DEF HoldsBank
<1>12. j < i
  <2>1. g[j] < g[i]
    BY <1>1, <1>2, <1>11
  <2>2. QED
    BY <2>1, InOrder DEF HoldsBank
<1>13. i - 1 \in DOMAIN g /\ i \in Nat /\ j \in Nat /\ j <= i - 1 /\ j >= 1
  <2>1. i \in 1 .. Len(g) /\ j \in 1 .. Len(g) /\ DOMAIN g = 1 .. Len(g) /\ Len(g) \in Nat
    OBVIOUS
  <2>2. QED
    BY <1>12, <2>1
<1>14. PICK c : c = g[i - 1]
  OBVIOUS
<1>15. c \in Nat /\ c % b = 0 /\ c < a
  <2>1. c \in Nat /\ c % b = 0
    BY <1>13, <1>14 DEF HoldsBank
  <2>2. g[i - 1] < g[i]
    <3>1. i - 1 < i
      BY <1>13
    <3>2. QED
      BY <1>13, <3>1 DEF HoldsBank
  <2>3. QED
    BY <1>1, <1>14, <2>1, <2>2
<1>16. c + b <= a
  BY <1>2, <1>15, MultiplesApart
<1>17. j = i - 1
  <2> SUFFICES ASSUME j < i - 1
               PROVE  FALSE
    BY <1>13
  <2>1. g[j] < c
    BY <1>13, <1>14 DEF HoldsBank
  <2>2. QED
    BY <1>2, <1>11, <1>15, <1>16, <2>1
<1>18. QED
  <2>1. i # 1
    BY <1>13, <1>17
  <2>2. g[i - 1] = a - b /\ a \in Nat /\ b \in Nat /\ a = g[i]
    BY <1>1, <1>2, <1>11, <1>17
  <2>3. QED
    BY <2>1, <2>2

(* Where a block of size s starts it does not: another bank lies before.   *)
LEMMA RunEnds ==
  ASSUME NEW s \in Nat \ {0}, NEW b \in Nat \ {0}, \E q \in Nat \ {0} : s = q * b,
         HasBlocksOf(s), InitialMemory \subseteq Nat,
         NEW g \in Seq(Nat), NEW bank, HoldsBank(g, b, bank),
         NEW i \in DOMAIN g, g[i] % s = 0, i # 1
  PROVE  g[i - 1] + b # g[i]
<1> SUFFICES ASSUME g[i - 1] + b = g[i]
             PROVE  FALSE
  OBVIOUS
<1>1. i - 1 \in DOMAIN g /\ i \in DOMAIN g
  OBVIOUS
<1>2. PICK a : a = g[i]
  OBVIOUS
<1>3. PICK y : y = g[i - 1]
  OBVIOUS
<1>4. /\ a \in InitialMemory /\ a \in Nat /\ a % s = 0 /\ Bank(a) = bank
      /\ y \in InitialMemory /\ y \in Nat /\ y % b = 0 /\ Bank(y) = bank /\ y + b = a
  BY <1>1, <1>2, <1>3 DEF HoldsBank
<1>5. PICK h : h = y - (y % s)
  OBVIOUS
<1>6. PICK r : r = y % s
  OBVIOUS
<1>7. h \in InitialMemory /\ h % s = 0 /\ Bank(h) = bank /\ r \in 0 .. s - 1
  BY <1>4, <1>5, <1>6, BlockOfOneBank
<1>8. h \in Nat /\ h + r = y
  <2>1. h \in Nat
    BY <1>7
  <2>2. QED
    BY <1>4, <1>5, <1>6, <1>7, <2>1
<1>9. r + b <= s
  <2>1. h % b = 0
    BY <1>7, <1>8, DivisorDivides
  <2>2. (\E q \in Nat : h = q * b) /\ (\E q \in Nat : s = q * b)
    BY <1>8, <2>1, RemainderIs
  <2>3. QED
    BY <1>4, <1>7, <1>8, <2>2, BlockEndsInTHP
<1>10. h + s <= a
  <2>1. h < a
    BY <1>4, <1>7, <1>8
  <2>2. QED
    BY <1>4, <1>7, <1>8, <2>1, MultiplesApart
<1>11. PICK c : c = h + (s - 1)
  OBVIOUS
<1>12. c + 1 = a /\ s - 1 \in 0 .. s - 1
  BY <1>4, <1>7, <1>8, <1>9, <1>10, <1>11
<1>13. c \in InitialMemory /\ Bank(c) = bank
  BY <1>7, <1>11, <1>12, BlockOfOneBank
<1>14. c + 1 \in InitialMemory => (Bank(c) = Bank(c + 1) <=> (c + 1) % s # 0)
  BY <1>13 DEF HasBlocksOf
<1>15. QED
  BY <1>4, <1>12, <1>13, <1>14

GoesOn(g, b, j, i) == \A m \in DOMAIN g : j < m /\ m < i => g[m - 1] + b = g[m]

LEMMA RunCounts ==
  ASSUME NEW b \in Nat, NEW g \in Seq(Nat), NEW j \in DOMAIN g, NEW i \in DOMAIN g, j < i,
         GoesOn(g, b, j, i)
  PROVE  \A m \in 0 .. i - j - 1 : j + m \in DOMAIN g /\ g[j + m] = g[j] + m * b
<1>1. DOMAIN g = 1 .. Len(g) /\ Len(g) \in Nat /\ i \in 1 .. Len(g) /\ j \in 1 .. Len(g) /\ g[j] \in Nat
  OBVIOUS
<1>2. \A m \in 0 .. i - j - 1 : j + m \in DOMAIN g
  BY <1>1
<1> DEFINE bad == {m \in 0 .. i - j - 1 : g[j + m] # g[j] + m * b}
<1>3. bad \in SUBSET Nat
  BY <1>1
<1>4. \A m : m \in bad <=> m \in 0 .. i - j - 1 /\ g[j + m] # g[j] + m * b
  OBVIOUS
<1> HIDE DEF bad
<1>5. bad = {}
  <2> SUFFICES ASSUME bad # {}
               PROVE  FALSE
    OBVIOUS
  <2>1. PICK m : m \in bad /\ \A o \in bad : m <= o
    BY <1>3, LeastNatural
  <2>2. m \in 0 .. i - j - 1 /\ g[j + m] # g[j] + m * b
    BY <1>4, <2>1
  <2>3. m # 0
    <3>1. j + 0 = j /\ g[j] + 0 * b = g[j]
      BY <1>1
    <3>2. QED
      BY <2>2, <3>1
  <2>4. PICK o \in Nat : m = o + 1
    <3>1. m - 1 \in Nat /\ m = (m - 1) + 1
      BY <2>2, <2>3
    <3>2. QED
      BY <3>1
  <2>5. o \in 0 .. i - j - 1 /\ ~ (m <= o)
    BY <1>1, <2>2, <2>4
  <2>6. g[j + o] = g[j] + o * b
    BY <1>4, <2>1, <2>5
  <2>7. j < j + m /\ j + m < i /\ (j + m) - 1 = j + o
    <3>1. i \in Nat /\ j \in Nat
      BY <1>1
    <3>2. m \in Nat \ {0} /\ m <= i - j - 1
      <4>1. m \in 0 .. i - j - 1
        BY <2>2
      <4>2. QED
        BY <2>3, <3>1, <4>1
    <3>3. j < j + m /\ j + m < i
      BY <3>1, <3>2, SMTT(30)
    <3>4. (j + m) - 1 = j + o
      BY <2>4, <3>1
    <3>5. QED
      BY <3>3, <3>4
  <2>8. g[j + o] + b = g[j + m]
    <3>1. j + m \in DOMAIN g
      BY <1>2, <2>2
    <3>2. g[(j + m) - 1] + b = g[j + m]
      BY <2>7, <3>1 DEF GoesOn
    <3>3. QED
      BY <2>7, <3>2
  <2>9. m * b = o * b + b /\ o * b \in Nat
    BY <2>4
  <2>10. g[j] + (o * b + b) = g[j] + o * b + b
    BY <1>1, <2>9
  <2>11. QED
    BY <2>2, <2>6, <2>8, <2>9, <2>10
<1>6. QED
  BY <1>2, <1>4, <1>5

(* What is known of a run of a group in blocks of size s, from its first   *)
(* index to that of the next run.                                          *)
IsRun(s, b, g, bank, j, i) ==
  /\ s \in Nat \ {0} /\ b \in Nat \ {0} /\ (\E q \in Nat \ {0} : s = q * b)
  /\ HasBlocksOf(s) /\ InitialMemory \subseteq Nat
  /\ g \in Seq(Nat) /\ HoldsBank(g, b, bank)
  /\ j \in DOMAIN g /\ i \in DOMAIN g /\ j < i
  /\ g[j] % s = 0 /\ g[i - 1] + b # g[i] /\ GoesOn(g, b, j, i)

LEMMA IsRunOf ==
  ASSUME NEW s, NEW b, NEW g, NEW bank, NEW j, NEW i, IsRun(s, b, g, bank, j, i)
  PROVE  /\ s \in Nat \ {0} /\ b \in Nat \ {0} /\ i \in Nat /\ j \in Nat \ {0} /\ j < i
         /\ i - 1 \in DOMAIN g /\ i \in DOMAIN g
         /\ \A m \in DOMAIN g : m \in Nat /\ g[m] \in Nat /\ g[m] % b = 0
         /\ \A m \in 0 .. i - j - 1 : j + m \in DOMAIN g /\ g[j + m] = g[j] + m * b
         /\ g[j] \in InitialMemory /\ g[j] \in Nat /\ g[j] % s = 0 /\ Bank(g[j]) = bank
<1>1. /\ s \in Nat \ {0} /\ b \in Nat \ {0} /\ g \in Seq(Nat) /\ HoldsBank(g, b, bank)
      /\ j \in DOMAIN g /\ i \in DOMAIN g /\ j < i /\ g[j] % s = 0 /\ GoesOn(g, b, j, i)
  BY DEF IsRun
<1>2. i \in Nat /\ j \in Nat \ {0} /\ i - 1 \in DOMAIN g
  BY <1>1
<1>3. \A m \in DOMAIN g : m \in Nat /\ g[m] \in Nat /\ g[m] % b = 0
  <2>1. \A m \in DOMAIN g : m \in Nat /\ g[m] \in Nat
    BY <1>1
  <2>2. \A m \in DOMAIN g : g[m] % b = 0
    BY <1>1 DEF HoldsBank
  <2>3. QED
    BY <2>1, <2>2
<1>4. g[j] \in InitialMemory /\ g[j] \in Nat /\ Bank(g[j]) = bank
  BY <1>1 DEF HoldsBank
<1>5. b \in Nat
  BY <1>1
<1>6. \A m \in 0 .. i - j - 1 : j + m \in DOMAIN g /\ g[j + m] = g[j] + m * b
  BY <1>1, <1>5, RunCounts
<1>7. QED
  BY <1>1, <1>2, <1>3, <1>4, <1>6

(* A run does not go beyond a block of size s. *)
LEMMA RunIsInBlock ==
  ASSUME NEW s, NEW b, NEW g, NEW bank, NEW j, NEW i, IsRun(s, b, g, bank, j, i),
         NEW q \in Nat \ {0}, s = q * b
  PROVE  ~ (q < i - j)
<1> SUFFICES ASSUME q < i - j
             PROVE  FALSE
  OBVIOUS
<1>1. /\ s \in Nat \ {0} /\ b \in Nat \ {0} /\ i \in Nat /\ j \in Nat \ {0} /\ j < i
      /\ \A m \in 0 .. i - j - 1 : j + m \in DOMAIN g /\ g[j + m] = g[j] + m * b
      /\ g[j] \in Nat /\ g[j] % s = 0
  BY IsRunOf
<1>2. PICK h \in Nat : h = g[j]
  BY <1>1
<1>3. PICK o \in Nat : q = o + 1
  <2>1. q - 1 \in Nat /\ q = (q - 1) + 1
    OBVIOUS
  <2>2. QED
    BY <2>1
<1>4. q \in 0 .. i - j - 1 /\ o \in 0 .. i - j - 1
  BY <1>1, <1>3
<1>5. g[j + q] = h + s /\ g[j + o] = h + o * b /\ j + q \in DOMAIN g
  BY <1>1, <1>2, <1>4
<1>6. s = o * b + b /\ o * b \in Nat
  BY <1>1, <1>3
<1>7. j + q # 1 /\ (j + q) - 1 = j + o
  BY <1>1, <1>3
<1>8. (h + s) % s = 0
  <2>1. s = 1 * s
    BY <1>1
  <2>2. s % s = 0
    BY <1>1, <2>1, RemainderIs
  <2>3. QED
    BY <1>1, <1>2, <2>2, MultiplesAdd
<1>9. PICK i2 \in DOMAIN g : i2 = j + q
  BY <1>5
<1>10. g[i2] % s = 0 /\ i2 # 1 /\ i2 - 1 = j + o
  BY <1>5, <1>7, <1>8, <1>9
<1>11. g[i2 - 1] + b # g[i2]
  <2>1. /\ s \in Nat \ {0} /\ b \in Nat \ {0} /\ (\E p \in Nat \ {0} : s = p * b)
        /\ HasBlocksOf(s) /\ InitialMemory \subseteq Nat
        /\ g \in Seq(Nat) /\ HoldsBank(g, b, bank)
    BY DEF IsRun
  <2>2. QED
    BY <1>10, <2>1, RunEnds, ZenonT(60)
<1>12. g[i2] = h + (o * b + b) /\ g[i2 - 1] = h + o * b
  BY <1>5, <1>6, <1>9, <1>10
<1>13. h + o * b + b = h + (o * b + b)
  BY <1>1, <1>2, <1>6
<1>14. QED
  BY <1>11, <1>12, <1>13

(* Nor does it end before the block does. *)
LEMMA RunFillsBlock ==
  ASSUME NEW s, NEW b, NEW g, NEW bank, NEW j, NEW i, IsRun(s, b, g, bank, j, i),
         NEW q \in Nat \ {0}, s = q * b
  PROVE  ~ (i - j < q)
<1> SUFFICES ASSUME i - j < q
             PROVE  FALSE
  OBVIOUS
<1>1. /\ s \in Nat \ {0} /\ b \in Nat \ {0} /\ i \in Nat /\ j \in Nat \ {0} /\ j < i
      /\ i - 1 \in DOMAIN g /\ i \in DOMAIN g
      /\ \A m \in DOMAIN g : m \in Nat /\ g[m] \in Nat /\ g[m] % b = 0
      /\ \A m \in 0 .. i - j - 1 : j + m \in DOMAIN g /\ g[j + m] = g[j] + m * b
      /\ g[j] \in InitialMemory /\ g[j] \in Nat /\ g[j] % s = 0 /\ Bank(g[j]) = bank
  BY IsRunOf
<1>2. /\ (\E p \in Nat \ {0} : s = p * b) /\ HasBlocksOf(s) /\ InitialMemory \subseteq Nat
      /\ g \in Seq(Nat) /\ HoldsBank(g, b, bank) /\ g[i - 1] + b # g[i]
  BY DEF IsRun
<1>3. PICK h \in Nat : h = g[j]
  BY <1>1
<1>4. PICK n \in Nat \ {0} : n = i - j
  BY <1>1
<1>5. PICK o \in Nat : n = o + 1
  <2>1. n - 1 \in Nat /\ n = (n - 1) + 1
    OBVIOUS
  <2>2. QED
    BY <2>1
<1>6. PICK e \in Nat : q = n + 1 + e
  <2>1. q - n - 1 \in Nat /\ q = n + 1 + (q - n - 1)
    BY <1>4
  <2>2. QED
    BY <2>1
<1>7. PICK w \in Nat : w = n * b
  BY <1>1
<1>8. w % b = 0
  BY <1>1, <1>7, RemainderIs
<1>9. w \in 0 .. s - 1
  <2>1. s = w + b + e * b /\ e * b \in Nat
    BY <1>1, <1>6, <1>7
  <2>2. QED
    BY <1>1, <2>1
<1>10. h % b = 0 /\ h \in InitialMemory /\ h % s = 0 /\ Bank(h) = bank
  <2>1. j \in DOMAIN g
    BY DEF IsRun
  <2>2. QED
    BY <1>1, <1>3, <2>1
<1>11. h + w \in InitialMemory /\ Bank(h + w) = bank
  <2>1. \A x \in InitialMemory, m \in 0 .. s - 1 :
          x % s = 0 => x + m \in InitialMemory /\ Bank(x + m) = Bank(x)
    BY <1>1, <1>2, BlockOfOneBank
  <2>2. QED
    BY <1>9, <1>10, <2>1
<1>12. (h + w) % b = 0
  <2>1. b \in Nat \ {0} /\ h \in Nat /\ w \in Nat
    BY <1>1
  <2>2. h % b = 0 /\ w % b = 0
    BY <1>8, <1>10
  <2>3. QED
    BY <2>1, <2>2, MultiplesAdd
<1>13. PICK m \in DOMAIN g : g[m] = h + w
  BY <1>2, <1>11, <1>12 DEF HoldsBank
<1>14. o \in 0 .. i - j - 1 /\ j + o = i - 1
  BY <1>1, <1>4, <1>5
<1>15. PICK c \in Nat : c = g[i - 1]
  BY <1>1
<1>16. PICK d \in Nat : d = g[i]
  BY <1>1
<1>17. c = h + o * b
  BY <1>1, <1>3, <1>14, <1>15
<1>18. w = o * b + b /\ o * b \in Nat
  BY <1>1, <1>5, <1>7
<1>19. c + b = h + w
  BY <1>1, <1>17, <1>18
<1>20. c < h + w
  BY <1>1, <1>19
<1>21. \A x, y \in DOMAIN g : x < y => g[x] < g[y]
  BY <1>2 DEF HoldsBank
<1>22. m \in Nat /\ i - 1 < m
  <2>1. g[i - 1] < g[m]
    BY <1>13, <1>15, <1>20
  <2>2. i - 1 < m
    BY <1>1, <1>2, <1>21, <2>1, InOrder
  <2>3. QED
    BY <1>1, <2>2
<1>23. d <= h + w
  <2>1. i = m \/ i < m
    BY <1>1, <1>22
  <2>2. i < m => g[i] < g[m]
    BY <1>1, <1>21
  <2>3. QED
    BY <1>13, <1>16, <2>1, <2>2
<1>24. c + b <= d
  <2>1. c < d
    <3>1. i - 1 < i
      BY <1>1
    <3>2. QED
      BY <1>1, <1>15, <1>16, <1>21, <3>1
  <2>2. c % b = 0 /\ d % b = 0
    BY <1>1, <1>15, <1>16
  <2>3. QED
    BY <1>1, <2>1, <2>2, MultiplesApart
<1>25. c + b # d
  BY <1>2, <1>15, <1>16
<1>26. QED
  BY <1>1, <1>19, <1>23, <1>24, <1>25

(* What the groups are when detectBlockSize guesses, in blocks of size s. *)
Guessable(s) ==
  /\ s \in Nat \ {0} /\ HasBlocksOf(s) /\ InitialMemory \subseteq Nat
  /\ IsPower(blockSize) /\ IsPower(s) /\ blockSize <= s
  /\ groups \in Seq(Seq(Nat)) /\ BanksApart(groups) /\ Filled
  /\ Elements(groups) \subseteq InitialMemory
  /\ BlockHeads \subseteq Elements(groups)
  /\ \A a \in Elements(groups) : a % blockSize = 0
  /\ \A k \in DOMAIN groups : Ascending(groups[k])

LEMMA GuessesBank ==
  ASSUME NEW s, Guessable(s), NEW k \in DOMAIN groups
  PROVE  HoldsBank(groups[k], blockSize, Bank(groups[k][1]))
<1> DEFINE g == groups[k]
           bank == Bank(groups[k][1])
<1>1. /\ groups \in Seq(Seq(Nat)) /\ BanksApart(groups) /\ Filled
      /\ Elements(groups) \subseteq InitialMemory
      /\ \A x \in InitialMemory : x % blockSize = 0 => x \in Elements(groups)
      /\ \A a \in Elements(groups) : a % blockSize = 0
      /\ \A i, j \in DOMAIN g : i < j => g[i] < g[j]
  BY DEF Guessable, BlockHeads, Ascending
<1>2. \A x : x \in Range(g) <=> x \in Elements(groups) /\ Bank(x) = bank
  BY <1>1, GroupOf
<1>3. \A x : x \in Range(g) <=> \E i \in DOMAIN g : g[i] = x
  BY DEF Range
<1> HIDE DEF g, bank
<1>4. \A i \in DOMAIN g : g[i] \in InitialMemory /\ g[i] % blockSize = 0 /\ Bank(g[i]) = bank
  <2> TAKE i \in DOMAIN g
  <2>1. g[i] \in Range(g)
    BY <1>3
  <2>2. QED
    BY <1>1, <1>2, <2>1
<1>5. \A x \in InitialMemory : x % blockSize = 0 /\ Bank(x) = bank => \E i \in DOMAIN g : g[i] = x
  BY <1>1, <1>2, <1>3
<1>6. HoldsBank(g, blockSize, bank)
  BY <1>1, <1>4, <1>5 DEF HoldsBank
<1>7. QED
  BY <1>6 DEF g, bank

(* Every run that is counted has the length of a block. *)
LEMMA CountedRunIsBlock ==
  ASSUME NEW s, Guessable(s), NEW k \in DOMAIN groups, NEW i \in RunStarts(groups[k]) \ {1}
  PROVE  blockSize * RunLength(groups[k], i) = s
<1>1. PICK b : b = blockSize
  OBVIOUS
<1>2. PICK g : g = groups[k]
  OBVIOUS
<1>3. PICK bank : bank = Bank(groups[k][1])
  OBVIOUS
<1>4. /\ s \in Nat \ {0} /\ HasBlocksOf(s) /\ InitialMemory \subseteq Nat
      /\ IsPower(b) /\ IsPower(s) /\ b <= s /\ g \in Seq(Nat)
  BY <1>1, <1>2 DEF Guessable
<1>5. b \in Nat \ {0}
  BY <1>4, PowerSteps
<1>6. PICK q \in Nat \ {0} : s = q * b
  BY <1>4, PowersCompare
<1>7. HoldsBank(g, b, bank)
  BY <1>1, <1>2, <1>3, GuessesBank
<1> DEFINE starts == RunStarts(g)
           earlier == {j \in starts : j < i}
<1>8. /\ \A m : m \in starts <=> m \in DOMAIN g /\ (m = 1 \/ g[m - 1] + b # g[m])
      /\ i \in starts /\ i # 1
  BY <1>1, <1>2 DEF RunStarts
<1>9. ASSUME NEW m \in starts
      PROVE  g[m] % s = 0
  <2>1. m \in DOMAIN g /\ (m = 1 \/ g[m - 1] + b # g[m])
    BY <1>8
  <2>2. QED
    <3> SUFFICES ASSUME g[m] % s # 0
                 PROVE  FALSE
      OBVIOUS
    <3>1. \E p \in Nat \ {0} : s = p * b
      BY <1>6
    <3>2. m # 1 /\ g[m - 1] + b = g[m]
      <4>1. /\ s \in Nat \ {0} /\ b \in Nat \ {0} /\ HasBlocksOf(s) /\ InitialMemory \subseteq Nat
            /\ g \in Seq(Nat) /\ HoldsBank(g, b, bank) /\ m \in DOMAIN g
        BY <1>4, <1>5, <1>7, <2>1
      <4> HIDE DEF starts, earlier
      <4>2. \A x \in DOMAIN g : g[x] % s # 0 => x # 1 /\ g[x - 1] + b = g[x]
        BY <3>1, <4>1, RunGoesOn
      <4>3. QED
        BY <4>1, <4>2
    <3>3. QED
      BY <2>1, <3>2
<1>10. /\ DOMAIN g = 1 .. Len(g) /\ Len(g) \in Nat /\ i \in DOMAIN g
  BY <1>4, <1>8
<1>11. earlier \in SUBSET Int /\ earlier # {} /\ i \in Int /\ \A j \in earlier : j < i /\ j <= i
  <2>1. \A j \in starts : j \in Int
    BY <1>8, <1>10
  <2>2. 1 \in earlier
    BY <1>8, <1>10
  <2>3. i \in Int
    BY <1>10
  <2>4. \A j \in earlier : j \in Int /\ j < i
    BY <2>1
  <2>5. \A j \in earlier : j <= i
    BY <2>3, <2>4
  <2>6. earlier \in SUBSET Int /\ earlier # {}
    <3> HIDE DEF earlier
    <3>1. QED
      BY <2>2, <2>4
  <2>7. QED
    BY <2>3, <2>4, <2>5, <2>6
<1>12. \A j : j \in earlier <=> j \in starts /\ j < i
  OBVIOUS
<1>13. RunLength(g, i) = i - Max(earlier)
  BY DEF RunLength
<1> HIDE DEF starts, earlier
<1>14. Max(earlier) \in earlier /\ \A x \in earlier : Max(earlier) >= x
  <2>1. \E x \in earlier : \A y \in earlier : x >= y
    BY <1>11, GreatestBelow
  <2>2. QED
    BY <2>1 DEF Max
<1>15. PICK j : j = Max(earlier)
  OBVIOUS
<1>16. j \in starts /\ j \in DOMAIN g /\ j < i /\ j \in Int
  BY <1>8, <1>11, <1>12, <1>14, <1>15
<1>17. GoesOn(g, b, j, i)
  <2> SUFFICES ASSUME NEW m \in DOMAIN g, j < m, m < i
               PROVE  g[m - 1] + b = g[m]
    BY DEF GoesOn
  <2>1. m \notin earlier
    <3>1. m \in Int /\ ~ (j >= m)
      BY <1>10, <1>16
    <3>2. QED
      BY <1>14, <1>15, <3>1
  <2>2. m \notin starts
    BY <1>12, <2>1
  <2>3. QED
    BY <1>8, <2>2
<1>18. IsRun(s, b, g, bank, j, i)
  <2>1. g[j] % s = 0
    BY <1>9, <1>16
  <2>2. g[i - 1] + b # g[i]
    BY <1>8
  <2>3. QED
    BY <1>4, <1>5, <1>6, <1>7, <1>10, <1>16, <1>17, <2>1, <2>2 DEF IsRun
<1>19. ~ (q < i - j) /\ ~ (i - j < q)
  BY <1>6, <1>18, RunIsInBlock, RunFillsBlock
<1>20. i - j = q
  BY <1>10, <1>16, <1>19
<1>21. b * (i - j) = s
  BY <1>5, <1>6, <1>20
<1>22. QED
  BY <1>1, <1>2, <1>13, <1>15, <1>21

(* So the guess is the size of the blocks, unless no run ended in a group. *)
LEMMA GuessIsBlock ==
  ASSUME NEW s, Guessable(s)
  PROVE  GuessBlockSize = 0 \/ GuessBlockSize = s
<1>1. CASE CountedRuns = {}
  BY <1>1 DEF GuessBlockSize
<1>2. CASE CountedRuns # {}
  <2>1. groups \in Seq(Seq(Nat))
    BY DEF Guessable
  <2>2. PICK k \in DOMAIN groups : \E i \in RunStarts(groups[k]) \ {1} :
          GuessBlockSize = blockSize * RunLength(groups[k], i)
    BY <1>2, <2>1, GuessIsOfRun
  <2>3. QED
    BY <2>2, CountedRunIsBlock
<1>3. QED
  BY <1>1, <1>2

-----------------------------------------------------------------------------
(* No group runs empty *)

(* What keeps the groups filled, where there are blocks of size s to spare.*)
Spared(s) ==
  /\ pc # "crashed"
  /\ phase \in {"add", "done"} => Filled
  /\ pc \in {"detect", "guess"} \/ (pc = "expand" /\ return = "detect") => Covered
  /\ pc = "guess" => \A k \in DOMAIN groups : Ascending(groups[k])
  /\ pc = "step" /\ config.blockSize > config.initialBlockSize =>
       \E d \in Nat : blockSize = 2^d * config.initialBlockSize /\ WholeBehind(s, d)

SpareInv == \A s \in RegularSizes : Spare(s) => Spared(s)

LEMMA SpareStays ==
  ASSUME UNCHANGED <<dram, config, mappings>>, NEW s
  PROVE  Spare(s)' <=> Spare(s)
<1>1. \A a : Bank(a)' = Bank(a)
  BY DEF Bank
<1>2. InitialMemory' = InitialMemory
  BY Stay
<1>3. (Exact' <=> Exact) /\ (PowersOfTwo' <=> PowersOfTwo) /\ Doublings' = Doublings
  BY DEF Exact, MaxWrong, PowersOfTwo, Doublings
<1>4. HasBlocksOf(s)' <=> HasBlocksOf(s)
  BY <1>1, <1>2 DEF HasBlocksOf
<1>5. BanksOf(InitialMemory)' = BanksOf(InitialMemory) /\ \A bank : Heads(s, bank)' = Heads(s, bank)
  BY <1>1, <1>2 DEF BanksOf, Heads
<1>6. QED
  BY <1>3, <1>4, <1>5 DEF Spare

LEMMA WholeStays ==
  ASSUME UNCHANGED <<dram, config, mappings, groups, blockSize>>, NEW s, NEW d, WholeBehind(s, d)
  PROVE  WholeBehind(s, d)'
<1>1. \A a : Bank(a)' = Bank(a)
  BY DEF Bank
<1>2. InitialMemory' = InitialMemory
  BY Stay
<1>3. \A h : Before(h, s)' = Before(h, s)
  BY <1>1, <1>2 DEF Before, Heads
<1>4. QED
  BY <1>2, <1>3 DEF WholeBehind

KnownSpare(s) == KnownSettling /\ s \in RegularSizes /\ Spare(s) /\ Spared(s)

LEMMA SettlingSpared ==
  ASSUME NEW s, KnownSpare(s), OthersStay, Types', Placed', pc' \notin {"main", "crashed"},
         pc' \in {"step", "done"} => Filled',
         pc' \in {"detect", "guess"} \/ (pc' = "expand" /\ return' = "detect") =>
           Covered /\ Elements(groups) \subseteq Elements(groups'),
         pc' = "guess" => \A k \in DOMAIN groups' : Ascending(groups'[k]),
         pc' = "step" /\ config.blockSize > config.initialBlockSize =>
           \E d \in Nat : blockSize' = 2^d * config.initialBlockSize /\ WholeBehind(s, d)'
  PROVE  Spared(s)'
<1>1. phase' = "add" /\ UNCHANGED <<dram, config, mappings>>
  BY DEF OthersStay, KnownSpare, KnownSettling
<1>2. pc' \in {"detect", "guess", "expand"} => Filled'
  BY <1>1 DEF Placed, HeadsComplete
<1>3. Elements(groups) \subseteq Elements(groups') /\ Covered => Covered'
  BY <1>1, Stay DEF Covered, BanksOf
<1>4. pc' \in {"step", "detect", "guess", "expand", "done"}
  BY DEF Types
<1>5. Filled'
  BY <1>2, <1>4
<1>6. QED
  BY <1>1, <1>3, <1>5 DEF Spared

(* At the initial block size the groups have a head of each block. *)
LEMMA SpareAtFirst ==
  ASSUME NEW s, KnownSpare(s), pc = "main"
  PROVE  blockSize = config.initialBlockSize /\ Covered /\ WholeBehind(s, 0)
<1>1. Types /\ Regular /\ s \in RegularSizes /\ Spare(s) /\ BlockHeads \subseteq Elements(groups)
  BY SettlingIs DEF KnownSpare, KnownSettling, Known
<1>2. blockSize = config.initialBlockSize
  BY DEF KnownSpare, KnownSettling, Known, Placed, Falls
<1>3. /\ s \in Nat \ {0} /\ IsPower(s) /\ blockSize \in Nat \ {0} /\ IsPower(blockSize)
      /\ blockSize <= s /\ InitialMemory \subseteq Nat
  BY <1>1, <1>2, SpareIs
<1>4. HasBlocksOf(s)
  BY <1>1 DEF Spare
<1>5. WholeBehind(s, 0)
  <2>1. \A h \in InitialMemory, i \in 0 .. s - 1 : h % s = 0 => h + i \in InitialMemory
    BY <1>3, <1>4, BlockOfOneBank
  <2>2. QED
    BY <1>1, <2>1 DEF WholeBehind, BlockHeads
<1>6. Covered
  <2> SUFFICES ASSUME NEW a \in InitialMemory
               PROVE  Bank(a) \in BanksOf(Elements(groups))
    BY DEF Covered, BanksOf
  <2>1. PICK h : h = a - (a % s)
    OBVIOUS
  <2>2. h \in InitialMemory /\ h % s = 0 /\ Bank(h) = Bank(a)
    BY <1>3, <1>4, <2>1, BlockOfOneBank
  <2>3. h % blockSize = 0
    <3>1. PICK q \in Nat \ {0} : s = q * blockSize
      BY <1>3, PowersCompare
    <3>2. h \in Nat
      BY <1>3, <2>2
    <3>3. QED
      BY <1>3, <2>2, <3>1, <3>2, DivisorDivides
  <2>4. h \in Elements(groups)
    BY <1>1, <2>2, <2>3 DEF BlockHeads
  <2>5. QED
    BY <2>2, <2>4 DEF BanksOf
<1>7. QED
  BY <1>2, <1>5, <1>6

LEMMA ChooseSpared ==
  ASSUME NEW s, KnownSpare(s), OthersStay, Types', Placed', ChooseBlockSize
  PROVE  Spared(s)'
<1>1. /\ pc = "main" /\ pc' \in {"done", "step", "detect"} /\ UNCHANGED <<groups, blockSize>>
      /\ UNCHANGED <<dram, config, mappings>>
  BY DEF ChooseBlockSize, OthersStay
<1>2. Filled /\ Covered /\ WholeBehind(s, 0) /\ blockSize = config.initialBlockSize
  BY <1>1, SpareAtFirst, SettlingIs DEF KnownSpare
<1>3. Filled' /\ Elements(groups) \subseteq Elements(groups')
  BY <1>1, <1>2 DEF Filled
<1>4. WholeBehind(s, 0)'
  BY <1>1, <1>2, WholeStays
<1>5. blockSize' = 2^0 * config.initialBlockSize
  <2>1. config.initialBlockSize \in Nat /\ 2^0 = 1
    BY SettlingIs DEF KnownSpare
  <2>2. QED
    BY <1>1, <1>2, <2>1
<1>6. QED
  BY <1>1, <1>2, <1>3, <1>4, <1>5, SettlingSpared

(* The same size, and what simplifyBlocks needs to know of the groups *)
LEMMA SpareSimplifies ==
  ASSUME NEW s, KnownSpare(s), NEW d \in Nat, WholeBehind(s, d), Filled,
         IsPower(blockSize), NEW new, IsPower(new), blockSize <= new, new <= s
  PROVE  Simplifiable(s, d, new)
<1>1. Types /\ Regular /\ s \in RegularSizes /\ Spare(s)
  BY DEF KnownSpare, KnownSettling, Known
<1>2. s \in Nat \ {0} /\ IsPower(s) /\ InitialMemory \subseteq Nat /\ IsFiniteSet(InitialMemory)
  BY <1>1, SpareIs
<1>3. groups \in Seq(Seq(Nat)) /\ BanksApart(groups) /\ Elements(groups) \subseteq InitialMemory
  BY SettlingIs DEF KnownSpare
<1>4. HasBlocksOf(s)
  BY <1>1 DEF Spare
<1>5. QED
  BY <1>2, <1>3, <1>4 DEF Simplifiable

(* simplifyBlocks runs, and it has been counted. *)
LEMMA GrowSpared ==
  ASSUME NEW s, KnownSpare(s), OthersStay, Types', Placed', NEW d \in Nat, WholeBehind(s, d), Filled,
         IsPower(blockSize), NEW new, IsPower(new), blockSize < new, new <= s,
         Doublings \in Nat, d + 1 <= Doublings, NEW r \in {"step", "done"},
         SetBlockSize(new, r),
         r = "step" => new = 2^(d + 1) * config.initialBlockSize
  PROVE  Spared(s)'
<1>1. blockSize \in Nat /\ new \in Nat
  BY PowerSteps
<1>2. /\ groups' = [k \in DOMAIN groups |-> Simplified(groups[k], new)] /\ blockSize' = new
      /\ pc' = r /\ UNCHANGED <<dram, config, mappings>>
  BY <1>1 DEF SetBlockSize, OthersStay
<1>3. Simplifiable(s, d, new)
  BY <1>1, SpareSimplifies
<1>4. \A bank \in BanksOf(InitialMemory) : Cardinality(Heads(s, bank)) > d + 1
  <2> TAKE bank \in BanksOf(InitialMemory)
  <2>1. Cardinality(Heads(s, bank)) > Doublings
    BY DEF KnownSpare, Spare
  <2>2. Cardinality(Heads(s, bank)) \in Nat
    <3>1. IsFiniteSet(InitialMemory)
      BY <1>3 DEF Simplifiable
    <3>2. Heads(s, bank) \in SUBSET InitialMemory
      BY DEF Heads
    <3>3. QED
      BY <3>1, <3>2, FS_Subset, FS_CardinalityType
  <2>3. QED
    BY <2>1, <2>2
<1>5. Filled' /\ WholeBehind(s, d + 1)'
  BY <1>2, <1>3, <1>4, SimplifyLeaves
<1>6. d + 1 \in Nat
  OBVIOUS
<1>7. QED
  BY <1>2, <1>5, <1>6, SettlingSpared

LEMMA StepSpared ==
  ASSUME NEW s, KnownSpare(s), OthersStay, Types', Placed', StepBlockSize
  PROVE  Spared(s)'
<1>1. /\ pc = "step" /\ blockSize # config.blockSize /\ SetBlockSize(NextStep, "step")
      /\ blockSize \in Nat \ {0} /\ config.blockSize \in Nat /\ config.initialBlockSize \in Nat
      /\ KnownSettling /\ Types /\ Filled
  BY SettlingIs DEF StepBlockSize, KnownSpare, KnownSettling, Known, Spared
<1>2. /\ IsNumberPowerOfTwo(config.blockSize) /\ IsNumberPowerOfTwo(blockSize)
      /\ Falling => config.blockSize <= blockSize
  BY <1>1 DEF KnownSettling, Settling, Known, Placed, Falls
<1>3. IsPower(config.blockSize) /\ IsPower(blockSize)
  BY <1>1, <1>2, PowerIs
<1>4. CASE config.blockSize < blockSize
  <2>1. PICK new \in Nat : new = blockSize \div 2 /\ new < blockSize
    BY <1>1
  <2>2. SetBlockSize(new, "step")
    BY <1>1, <1>4, <2>1 DEF NextStep
  <2>3. pc' = "expand" /\ return' = "step"
    BY <1>1, <2>1, <2>2 DEF SetBlockSize
  <2>4. QED
    BY <2>3, SettlingSpared
<1>5. CASE config.blockSize > blockSize
  <2>1. PICK new \in Nat : new = 2 * blockSize /\ new > blockSize
    BY <1>1
  <2>2. SetBlockSize(new, "step")
    BY <1>1, <1>5, <2>1 DEF NextStep
  <2>3. config.blockSize > config.initialBlockSize
    BY <1>1, <1>2, <1>5 DEF Falling
  <2>4. PICK d \in Nat : blockSize = 2^d * config.initialBlockSize /\ WholeBehind(s, d)
    BY <1>1, <2>3 DEF KnownSpare, Spared
  <2>5. IsPower(new) /\ new <= config.blockSize
    BY <1>1, <1>3, <1>5, <2>1, PowerSteps, PowersCompare
  <2>6. new = 2^(d + 1) * config.initialBlockSize
    <3>1. PICK p \in Nat : p = 2^d /\ 2^(d + 1) = 2 * p
      BY PowerDoubles
    <3>2. blockSize = p * config.initialBlockSize
      BY <2>4, <3>1
    <3>3. 2 * (p * config.initialBlockSize) = (2 * p) * config.initialBlockSize
      BY <1>1
    <3>4. QED
      BY <2>1, <3>1, <3>2, <3>3
  <2>7. Doublings \in Nat /\ Doublings >= d + 1
    BY <1>1, <2>5, <2>6, DoublingsCount
  <2>8. new <= s
    <3>1. config.blockSize <= s /\ s \in Nat
      BY SpareIs DEF KnownSpare, KnownSettling, Known
    <3>2. QED
      BY <1>1, <2>5, <3>1
  <2>9. d + 1 <= Doublings /\ blockSize < new
    BY <2>1, <2>7, <1>1
  <2>10. QED
    BY <1>1, <1>3, <2>2, <2>4, <2>5, <2>6, <2>7, <2>8, <2>9, GrowSpared
<1>6. QED
  BY <1>1, <1>4, <1>5

LEMMA StopSpared ==
  ASSUME NEW s, KnownSpare(s), OthersStay, Types', Placed', StopSteps
  PROVE  Spared(s)'
<1>1. pc' = "done" /\ UNCHANGED groups
  BY DEF StopSteps
<1>2. Filled
  BY DEF KnownSpare, KnownSettling, Spared
<1>3. Filled'
  BY <1>1, <1>2 DEF Filled
<1>4. QED
  BY <1>1, <1>3, SettlingSpared

LEMMA SortSpared ==
  ASSUME NEW s, KnownSpare(s), OthersStay, Types', Placed', SortGroups
  PROVE  Spared(s)'
<1>1. /\ pc = "detect" /\ pc' = "guess" /\ groups' = [k \in DOMAIN groups |-> Sorted(groups[k])]
  BY DEF SortGroups
<1>2. Covered /\ groups \in Seq(Seq(Nat)) /\ Distinct(groups)
  BY <1>1 DEF KnownSpare, KnownSettling, Known, Spared, Settling, Types
<1>3. DOMAIN groups' = DOMAIN groups /\ Elements(groups') = Elements(groups)
  BY <1>1, <1>2, SortedKeepsAll
<1>4. ASSUME NEW k \in DOMAIN groups
      PROVE  Ascending(groups'[k])
  <2>1. groups[k] \in Seq(Nat) /\ groups'[k] = Sorted(groups[k])
    BY <1>1, <1>2
  <2>2. \A i, j \in DOMAIN groups[k] : groups[k][i] = groups[k][j] => i = j
    BY <1>2 DEF Distinct
  <2>3. QED
    BY <2>1, <2>2, SortedAscends
<1>5. QED
  BY <1>1, <1>2, <1>3, <1>4, SettlingSpared

(* detectBlockSize guesses the size s, whichever halves it has tried.      *)
LEMMA SpareGuessable ==
  ASSUME NEW s, KnownSpare(s), pc = "guess"
  PROVE  Guessable(s) /\ Filled /\ blockSize <= s /\ WholeBehind(s, 0)
<1>1. Types /\ Regular /\ s \in RegularSizes /\ Spare(s)
  BY DEF KnownSpare, KnownSettling, Known
<1>2. /\ s \in Nat \ {0} /\ IsPower(s) /\ config.initialBlockSize \in Nat
      /\ config.initialBlockSize <= s /\ InitialMemory \subseteq Nat
  BY <1>1, SpareIs
<1>3. HasBlocksOf(s)
  BY <1>1 DEF Spare
<1>4. /\ blockSize \in Nat /\ IsNumberPowerOfTwo(blockSize) /\ blockSize <= config.initialBlockSize
      /\ Filled /\ \A a \in Elements(groups) : a % blockSize = 0
  BY DEF KnownSpare, KnownSettling, Settling
<1>5. blockSize <= s /\ IsPower(blockSize)
  BY <1>2, <1>4, PowerIs
<1>6. Covered /\ Watched /\ \A k \in DOMAIN groups : Ascending(groups[k])
  BY DEF KnownSpare, Spared, Watched
<1>7. /\ groups \in Seq(Seq(Nat)) /\ BanksApart(groups) /\ Elements(groups) \subseteq InitialMemory
      /\ BlockHeads \subseteq Elements(groups)
  BY <1>6, SettlingIs DEF KnownSpare
<1>8. Guessable(s)
  BY <1>2, <1>3, <1>4, <1>5, <1>6, <1>7 DEF Guessable
<1>9. WholeBehind(s, 0)
  <2>1. \A h \in InitialMemory, i \in 0 .. s - 1 : h % s = 0 => h + i \in InitialMemory
    BY <1>2, <1>3, BlockOfOneBank
  <2>2. QED
    BY <1>7, <2>1 DEF WholeBehind, BlockHeads
<1>10. QED
  BY <1>4, <1>5, <1>8, <1>9

LEMMA DetectSpared ==
  ASSUME NEW s, KnownSpare(s), OthersStay, Types', Placed', Detect
  PROVE  Spared(s)'
<1>1. /\ pc = "guess" /\ blockSize \in Nat \ {0}
      /\ \/ SetBlockSize(blockSize \div 2, "detect")
         \/ SetBlockSize(GuessBlockSize, "done")
  BY DEF Detect, KnownSpare, KnownSettling
<1>2. Guessable(s) /\ Filled /\ blockSize <= s /\ WholeBehind(s, 0) /\ Covered
  BY <1>1, SpareGuessable DEF KnownSpare, Spared
<1>3. s \in Nat \ {0} /\ IsPower(s) /\ IsPower(blockSize)
  BY <1>2 DEF Guessable
<1>4. CASE SetBlockSize(blockSize \div 2, "detect")
  <2>1. PICK new \in Nat : new = blockSize \div 2 /\ new < blockSize
    BY <1>1
  <2>2. pc' = "expand" /\ UNCHANGED groups
    BY <1>1, <1>4, <2>1 DEF SetBlockSize
  <2>3. QED
    BY <1>2, <2>2, SettlingSpared
<1>5. CASE SetBlockSize(GuessBlockSize, "done")
  <2>1. PICK new : new = GuessBlockSize
    OBVIOUS
  <2>2. SetBlockSize(new, "done") /\ (new = 0 \/ new = s)
    BY <1>2, <1>5, <2>1, GuessIsBlock
  <2>3. CASE new < blockSize
    <3>1. pc' = "expand" /\ return' = "done"
      BY <1>1, <1>3, <2>2, <2>3 DEF SetBlockSize
    <3>2. QED
      BY <3>1, SettlingSpared
  <2>4. CASE new = blockSize
    <3>1. pc' = "done" /\ UNCHANGED groups
      BY <1>1, <2>2, <2>4 DEF SetBlockSize
    <3>2. Filled'
      BY <1>2, <3>1 DEF Filled
    <3>3. QED
      BY <3>1, <3>2, SettlingSpared
  <2>5. CASE new > blockSize
    <3>1. new = s /\ blockSize < new /\ new <= s /\ IsPower(new)
      BY <1>1, <1>3, <2>2, <2>5
    <3>2. Doublings = 1
      <4>1. config.blockSize = 0 \/ IsNumberPowerOfTwo(config.blockSize)
        BY DEF KnownSpare, Spare, PowersOfTwo
      <4>2. ~ IsNumberPowerOfTwo(config.blockSize)
        BY <1>1 DEF KnownSpare, KnownSettling, Known, Placed, Falls
      <4>3. QED
        BY <4>1, <4>2 DEF Doublings
    <3>3. Doublings \in Nat /\ 0 + 1 <= Doublings /\ 0 \in Nat
      BY <3>2
    <3>4. QED
      BY <1>2, <1>3, <2>2, <3>1, <3>3, GrowSpared
  <2>6. QED
    BY <1>1, <1>3, <2>2, <2>3, <2>4, <2>5
<1>6. QED
  BY <1>1, <1>4, <1>5

(* expandBlocks only adds addresses. *)
LEMMA ExpandSpared ==
  ASSUME NEW s, KnownSpare(s), OthersStay, Types', Placed', ExpandAddress
  PROVE  Spared(s)'
<1>1. /\ pc = "expand" /\ StartsBlock
      /\ UNCHANGED <<blockSize, pc, return, target, group, index, size>>
  BY DEF ExpandAddress
<1>2. /\ groups \in Seq(Seq(Nat)) /\ group \in DOMAIN groups /\ index \in 1 .. size + 1
      /\ size \in Nat /\ size <= Len(groups[group]) /\ index <= size
      /\ offset \in Nat
  BY <1>1 DEF KnownSpare, KnownSettling, Known, Types, StartsBlock
<1>3. PICK a \in Nat : a = groups[group][index]
  <2>1. groups[group] \in Seq(Nat) /\ index \in DOMAIN groups[group]
    BY <1>2
  <2>2. QED
    BY <2>1
<1>4. PICK n \in Nat : n = a + offset
  BY <1>2, <1>3
<1>5. PICK added : AddToExisting(n, added)
  BY <1>3, <1>4 DEF ExpandAddress, Address
<1>6. groups' = groups \/ Takes(groups, groups', n)
  BY <1>2, <1>4, <1>5, AddToExistingTakes
<1>7. Elements(groups) \subseteq Elements(groups')
  BY <1>2, <1>6, TakesWidens DEF Widens
<1>8. pc = "expand" /\ return = "detect" => Covered
  BY DEF KnownSpare, Spared
<1>9. pc' = "expand" /\ return' = return
  BY <1>1
<1>10. pc' \notin {"main", "crashed", "step", "done", "detect", "guess"} /\ (return' = "detect" => Covered)
  BY <1>1, <1>8, <1>9
<1>11. QED
  BY <1>7, <1>10, SettlingSpared

LEMMA MovesSpared ==
  ASSUME NEW s, KnownSpare(s), OthersStay, Types', Placed', pc = "expand", pc' = "expand",
         UNCHANGED <<groups, return>>
  PROVE  Spared(s)'
<1>1. return = "detect" => Covered
  BY DEF KnownSpare, Spared
<1>2. QED
  BY <1>1, SettlingSpared

LEMMA EndSpared ==
  ASSUME NEW s, KnownSpare(s), OthersStay, Types', Placed', EndExpansion
  PROVE  Spared(s)'
<1>1. pc = "expand" /\ index > size /\ pc' = return /\ UNCHANGED <<groups, return>>
  BY DEF EndExpansion
<1>2. size \in Nat /\ index \in 1 .. size + 1
  BY <1>1 DEF KnownSpare, KnownSettling, Known, Types
<1>3. Expanding
  BY <1>1, <1>2 DEF KnownSpare, KnownSettling, Settling, Stuck
<1>4. return \in {"step", "detect"}
  BY <1>3 DEF Expanding
<1>5. (return = "detect" => Covered) /\ Filled
  BY <1>1 DEF KnownSpare, KnownSettling, Spared
<1>6. Filled'
  BY <1>1, <1>5 DEF Filled
<1>7. return = "step" => ~ (config.blockSize > config.initialBlockSize)
  <2>1. return = "step" => config.blockSize <= config.initialBlockSize
    BY <1>1 DEF KnownSpare, KnownSettling, Known, Placed, Falls, Falling
  <2>2. config.blockSize \in Nat /\ config.initialBlockSize \in Nat
    BY SettlingIs DEF KnownSpare
  <2>3. QED
    BY <2>1, <2>2
<1>8. pc' \notin {"main", "crashed", "expand", "guess"}
  BY <1>1, <1>4
<1>9. QED
  BY <1>1, <1>4, <1>5, <1>6, <1>7, <1>8, SettlingSpared

LEMMA SettleSpared ==
  ASSUME NEW s, KnownSpare(s), Settle, pc' # "crashed", Types', Placed'
  PROVE  Spared(s)'
<1>1. SettleBlockSize /\ OthersStay
  BY DEF Settle, SettleBlockSize, OthersStay
<1>2. CASE ChooseBlockSize
  BY <1>1, <1>2, ChooseSpared
<1>3. CASE StepBlockSize
  BY <1>1, <1>3, StepSpared
<1>4. CASE StopSteps
  BY <1>1, <1>4, StopSpared
<1>5. CASE SortGroups
  BY <1>1, <1>5, SortSpared
<1>6. CASE Detect
  BY <1>1, <1>6, DetectSpared
<1>7. CASE ExpandAddress
  BY <1>1, <1>7, ExpandSpared
<1>8. CASE CompareWithEmptyGroup
  BY <1>8 DEF CompareWithEmptyGroup
<1>9. CASE NextAddress
  BY <1>1, <1>9, MovesSpared DEF NextAddress
<1>10. CASE NextGroup
  BY <1>1, <1>10, MovesSpared DEF NextGroup
<1>11. CASE EndExpansion
  BY <1>1, <1>11, EndSpared
<1>12. QED
  BY <1>1, <1>2, <1>3, <1>4, <1>5, <1>6, <1>7, <1>8, <1>9, <1>10, <1>11 DEF SettleBlockSize

(* The groups are compared only while none of them is empty. *)
LEMMA SpareNoCrash ==
  ASSUME NEW s, Types, Spared(s), Next
  PROVE  pc' # "crashed"
<1>1. pc # "crashed" /\ (phase \in {"add", "done"} => ~ HasEmptyGroup)
  BY DEF Spared, Filled, HasEmptyGroup
<1>2. CASE AddTHPs
  BY <1>1, <1>2 DEF AddTHPs
<1>3. CASE AddBlockCrashes
  BY <1>1, <1>3 DEF AddBlockCrashes
<1>4. CASE Regroup
  BY <1>1, <1>4 DEF Regroup
<1>5. CASE Settle
  <2>1. phase = "add" /\ SettleBlockSize
    BY <1>5 DEF Settle
  <2>2. ~ CompareWithEmptyGroup
    BY <1>1, <2>1 DEF CompareWithEmptyGroup
  <2>3. CASE StepBlockSize \/ Detect
    BY <1>1, <2>3 DEF StepBlockSize, Detect, SetBlockSize
  <2>4. CASE EndExpansion
    BY <2>4 DEF EndExpansion, Types
  <2>5. CASE ExpandAddress \/ NextAddress \/ NextGroup
    BY <1>1, <2>5 DEF ExpandAddress, NextAddress, NextGroup
  <2>6. CASE ChooseBlockSize \/ StopSteps \/ SortGroups
    BY <2>6 DEF ChooseBlockSize, StopSteps, SortGroups
  <2>7. QED
    BY <2>1, <2>2, <2>3, <2>4, <2>5, <2>6 DEF SettleBlockSize
<1>6. CASE Finish
  BY <1>1, <1>6 DEF Finish
<1>7. QED
  BY <1>2, <1>3, <1>4, <1>5, <1>6 DEF Next

(* Outside of the loops that settle the size *)
LEMMA OutsideSpared ==
  ASSUME NEW s, pc' \in {"main", "done"}, phase' \in {"add", "done"} => Filled'
  PROVE  Spared(s)'
BY DEF Spared

LEMMA SparedNext ==
  ASSUME NEW s \in RegularSizes, Known, Spare(s), Spared(s), Next, pc' # "crashed",
         Types', Sound', Placed'
  PROVE  Spared(s)'
<1>1. Types /\ Sound /\ (phase \in {"add", "done"} => Filled)
  BY DEF Known, Spared
<1>2. CASE AddTHPs
  <2>1. /\ UNCHANGED <<dram, config, blockSize, pc, mappings, phase, held>>
        /\ phase \in {"fill", "add"} /\ (phase = "add" => pc = "done")
        /\ AddBlock \/ AddBlockToExisting \/ NextTHP
    BY <1>2 DEF AddTHPs, AddBlock, AddBlockToExisting, NextTHP
  <2>2. pc' \in {"main", "done"}
    BY <1>1, <2>1 DEF Types
  <2>3. CASE phase = "fill"
    BY <2>1, <2>2, <2>3, OutsideSpared
  <2>4. CASE phase = "add" /\ AddBlockToExisting
    <3>1. PICK a : a = BlockAddress
      OBVIOUS
    <3>2. a \in Nat /\ groups \in Seq(Seq(Nat))
      <4>1. mappings[thp + 1] \in Nat /\ block \in Nat /\ blockSize \in Nat
        <5>1. thp \in Nat /\ thp < NTHPs /\ NTHPs \in Nat
          BY <1>1, <2>4, OptionsAre DEF AddBlockToExisting, Types
        <5>2. thp + 1 \in 1 .. NTHPs
          BY <5>1
        <5>3. QED
          BY <1>1, <5>2, THPsAre DEF Types
      <4>2. PICK m \in Nat, i \in Nat, n \in Nat : m = mappings[thp + 1] /\ i = block /\ n = blockSize
        BY <4>1
      <4>3. m + i * n \in Nat
        OBVIOUS
      <4>4. a \in Nat
        BY <3>1, <4>2, <4>3 DEF BlockAddress
      <4>5. QED
        BY <1>1, <4>4 DEF Types
    <3>3. groups' = groups \/ Takes(groups, groups', a)
      BY <2>4, <3>1, AddToExistingTakes DEF AddBlockToExisting
    <3>4. Filled'
      <4>1. Widens(groups, groups', a)
        BY <3>2, <3>3, TakesWidens
      <4>2. QED
        BY <1>1, <2>4, <4>1 DEF Widens, NoneEmpty, Filled
    <3>5. QED
      BY <2>2, <3>4, OutsideSpared
  <2>5. CASE phase = "add" /\ NextTHP
    <3>1. Filled'
      BY <1>1, <2>5 DEF NextTHP, Filled
    <3>2. QED
      BY <2>2, <3>1, OutsideSpared
  <2>6. QED
    BY <2>1, <2>3, <2>4, <2>5 DEF AddBlock
<1>3. CASE AddBlockCrashes
  BY <1>3 DEF AddBlockCrashes
<1>4. CASE Regroup
  <2>1. /\ phase \in {"fill", "regroup"} /\ phase' \in {"regroup", "add"}
        /\ UNCHANGED <<dram, config, blockSize, pc, mappings>>
    BY <1>4 DEF Regroup, Grouping!StartRegrouping, Grouping!EraseFirstGroup,
                Grouping!ReAddAddress, Grouping!TestPlausible
  <2>2. pc' = "main"
    BY <1>1, <2>1 DEF Types
  <2>3. phase' = "add" => Filled'
    BY <2>2 DEF Placed, HeadsComplete
  <2>4. QED
    BY <2>1, <2>2, <2>3, OutsideSpared
<1>5. CASE Settle
  <2>1. phase = "add" /\ SettleBlockSize /\ blockSize \in Nat \ {0} /\ groups # << >> /\ pc # "crashed"
    BY <1>1, <1>5 DEF Settle, Known, Sound, Types, Regular
  <2>2. pc # "done"
    BY <2>1 DEF SettleBlockSize, ChooseBlockSize, StepBlockSize, StopSteps, SortGroups, Detect,
                ExpandAddress, CompareWithEmptyGroup, NextAddress, NextGroup, EndExpansion
  <2>3. KnownSpare(s)
    BY <1>1, <2>1, <2>2 DEF KnownSpare, KnownSettling, Sound
  <2>4. QED
    BY <1>5, <2>3, SettleSpared
<1>6. CASE Finish
  <2>1. pc' = "done" /\ phase = "add" /\ UNCHANGED groups
    BY <1>6 DEF Finish, Grouping!Finish
  <2>2. Filled'
    BY <1>1, <2>1 DEF Filled
  <2>3. QED
    BY <2>1, <2>2, OutsideSpared
<1>7. QED
  BY <1>2, <1>3, <1>4, <1>5, <1>6 DEF Next

LEMMA SpareInit == Init => SpareInv
BY DEF Init, BlockSizeInit, SpareInv, Spared

LEMMA SpareNext == IInv /\ IInv' /\ BanksInv /\ BanksInv' /\ SpareInv /\ [Next]_vars => SpareInv'
<1> SUFFICES ASSUME IInv, IInv', BanksInv, BanksInv', SpareInv, [Next]_vars,
                    NEW s \in RegularSizes, Spare(s)'
             PROVE  Spared(s)'
  BY DEF SpareInv, RegularSizes
<1>1. UNCHANGED <<dram, config, mappings>>
  BY ConfigStays DEF vars, IInv
<1>2. Spare(s) /\ Spared(s)
  BY <1>1, SpareStays DEF SpareInv
<1>3. CASE UNCHANGED vars
  <2>1. UNCHANGED <<groups, blockSize, pc, return, phase>>
    BY <1>3 DEF vars
  <2>2. (Covered' <=> Covered) /\ (Filled' <=> Filled)
    BY <1>1, <2>1, Stay DEF Covered, Filled
  <2>3. ASSUME pc = "step", config.blockSize > config.initialBlockSize
        PROVE  \E d \in Nat : blockSize' = 2^d * config.initialBlockSize /\ WholeBehind(s, d)'
    <3>1. PICK d \in Nat : blockSize = 2^d * config.initialBlockSize /\ WholeBehind(s, d)
      BY <1>2, <2>3 DEF Spared
    <3>2. QED
      BY <1>1, <2>1, <3>1, WholeStays
  <2>4. QED
    BY <1>1, <1>2, <2>1, <2>2, <2>3 DEF Spared
<1>4. CASE Next
  <2>1. Types /\ LayoutInv /\ InMemory /\ Types' /\ LayoutInv'
    BY DEF IInv
  <2>2. pc # "crashed" /\ pc' # "crashed"
    BY <1>2, <1>4, <2>1, SpareNoCrash DEF Spared
  <2>3. Exact /\ PowersOfTwo
    BY <1>2 DEF Spare
  <2>4. Regular /\ Regular' /\ Exact'
    BY <1>1, <2>2, <2>3 DEF Regular, Exact, MaxWrong, PowersOfTwo
  <2>5. Placed /\ Placed'
    BY <2>3, <2>4 DEF BanksInv
  <2>6. Known /\ Sound'
    BY <2>1, <2>2, <2>3, <2>4, <2>5 DEF Known, LayoutInv, Regular, InMemory
  <2>7. QED
    BY <1>2, <1>4, <2>1, <2>2, <2>5, <2>6, SparedNext
<1>5. QED
  BY <1>3, <1>4

LEMMA SpareInvariance == Spec => []SpareInv
<1>1. Spec => []IInv
  BY Invariance
<1>2. Spec => []BanksInv
  BY BanksInvariance
<1>3. Init => SpareInv
  BY SpareInit
<1>4. IInv /\ IInv' /\ BanksInv /\ BanksInv' /\ SpareInv /\ [Next]_vars => SpareInv'
  BY SpareNext
<1>5. QED
  BY <1>1, <1>2, <1>3, <1>4, PTL DEF Spec

(* In a regular memory, each simplifyBlocks takes one block of each bank   *)
(* away: when every bank has more blocks of the size to be settled than    *)
(* there are doublings, no group is ever emptied between regrouping and    *)
(* the end, and compareAddressTiming never reads the first of no times,    *)
(* whether the size is given (-B) or detected.                             *)
THEOREM AmdreGroupsStayFilled == Spec => []GroupsStayFilled
<1>1. SpareInv => GroupsStayFilled
  <2> SUFFICES ASSUME SpareInv, NEW s \in RegularSizes, Spare(s)
               PROVE  pc # "crashed" /\ (Settled => ~ HasEmptyGroup)
    BY DEF GroupsStayFilled, Spare
  <2>1. Spared(s)
    BY DEF SpareInv
  <2>2. QED
    BY <2>1 DEF Spared, Settled, Filled, HasEmptyGroup
<1>2. QED
  BY <1>1, SpareInvariance, PTL

=============================================================================
