----------------------- MODULE AddressFunctionProofs -----------------------
(***************************************************************************)
(* Proofs about AddressFunction: the masks kept are independent and span   *)
(* the masks found, and which ones they are does not depend on the order   *)
(* in which the threads found them; and a success that tells all banks     *)
(* apart is one whose masks are orthogonal.                                *)
(***************************************************************************)
EXTENDS AddressFunction, Lemmas

-----------------------------------------------------------------------------
(* Comparing masks as int *)

Powers == [b \in Bits |-> 2^b]

LEMMA PowersAre ==
  /\ \A b \in Bits : b \in Nat /\ Powers[b] = 2^b /\ Powers[b] \in Nat
  /\ Bits \subseteq Nat /\ IsFiniteSet(Bits) /\ IntBits \in Nat \ {0}
<1>1. /\ Bits \subseteq Nat /\ IsFiniteSet(Bits) /\ IntBits \in Nat \ {0}
  BY FunctionAssumption
<1>2. \A b \in Nat : 2^b \in Nat
  BY PowerDoubles
<1>3. QED
  BY <1>1, <1>2 DEF Powers

(* The uppermost bit in which two masks differ decides. *)
LEMMA UpperBitDecides ==
  ASSUME NEW m, m \subseteq Bits, NEW n, n \subseteq Bits, NEW b \in m \ n,
         \A c \in Bits : c > b => (c \in m <=> c \in n)
  PROVE  /\ SumFunctionOnSet(Powers, m) \in Nat /\ SumFunctionOnSet(Powers, n) \in Nat
         /\ SumFunctionOnSet(Powers, n) < SumFunctionOnSet(Powers, m)
<1> DEFINE S(set) == SumFunctionOnSet(Powers, set)
           above == {c \in m : c > b}
           below == {c \in n : c < b}
<1>1. IsFiniteSet(m) /\ IsFiniteSet(n) /\ IsFiniteSet(above) /\ IsFiniteSet(below)
  <2>1. IsFiniteSet(m) /\ IsFiniteSet(n)
    BY PowersAre, FS_Subset
  <2>2. above \subseteq m /\ below \subseteq n
    OBVIOUS
  <2>3. QED
    BY <2>1, <2>2, FS_Subset
<1>2. \A c \in m \cup n : c \in Bits /\ Powers[c] \in Nat
  BY PowersAre
<1>3. b \in Bits /\ b \in Nat /\ \A c \in Bits : c \in Nat
  BY PowersAre
<1>4. above \cup {b} \subseteq m /\ above \cap {b} = {}
  <2>1. ~ (b > b)
    BY <1>3
  <2>2. QED
    BY <2>1
<1>5. n = above \cup below /\ above \cap below = {}
  <2>1. \A c \in Nat : (c > b \/ c < b \/ c = b) /\ ~ (c > b /\ c < b)
    BY <1>3
  <2>2. \A c \in m \cup n : (c > b \/ c < b \/ c = b) /\ ~ (c > b /\ c < b)
    BY <1>2, <1>3, <2>1
  <2>3. \A c \in m \cup n : c > b => (c \in m <=> c \in n)
    BY <1>2
  <2>4. \A c \in n : c \in above \/ c \in below
    BY <2>2, <2>3
  <2>5. \A c \in above : c \in n
    BY <2>3
  <2>6. QED
    BY <2>2, <2>4, <2>5, Zenon
<1>6. S(above) \in Nat /\ S(below) \in Nat /\ S(n) = S(above) + S(below)
  <2>1. \A c \in above \cup below : Powers[c] \in Nat
    BY <1>2
  <2> HIDE DEF above, below
  <2>2. QED
    BY <1>1, <1>5, <2>1, SumOfParts
<1>7. S(below) < 2^b
  <2>1. below \subseteq Bits /\ \A c \in below : c < b
    OBVIOUS
  <2> HIDE DEF below
  <2>2. QED
    BY <1>3, <2>1, PowersAre, SumOfPowersBelow
<1>8. S(above \cup {b}) = S(above) + 2^b /\ 2^b \in Nat
  <2>1. Powers[b] = 2^b /\ Powers[b] \in Nat /\ IsFiniteSet({b})
    BY <1>3, PowersAre, FS_Singleton
  <2>2. S({b}) = 2^b
    BY <2>1, SumOfOne
  <2>3. \A c \in above \cup {b} : Powers[c] \in Nat
    BY <1>2, <2>1
  <2> HIDE DEF above
  <2>4. S(above \cup {b}) = S(above) + S({b})
    BY <1>1, <1>4, <2>1, <2>3, SumOfParts
  <2>5. QED
    BY <2>1, <2>2, <2>4
<1>9. S(m) \in Nat /\ S(above \cup {b}) <= S(m)
  <2>1. \A c \in m : Powers[c] \in Nat
    BY <1>2
  <2> HIDE DEF above
  <2>2. QED
    BY <1>1, <1>4, <2>1, SumGrows
<1> HIDE DEF above, below
<1>10. S(n) \in Nat /\ S(n) < S(m)
  <2> HIDE DEF S
  <2>1. QED
    BY <1>6, <1>7, <1>8, <1>9
<1>11. QED
  BY <1>9, <1>10

LEMMA DifferentSums ==
  ASSUME NEW m, m \subseteq Bits, NEW n, n \subseteq Bits, m # n
  PROVE  SumFunctionOnSet(Powers, m) # SumFunctionOnSet(Powers, n)
<1> DEFINE D == (m \ n) \cup (n \ m)
<1>1. D \subseteq Bits /\ D # {}
  OBVIOUS
<1>2. D \subseteq Int /\ IsFiniteSet(D) /\ Bits \subseteq Int
  <2>1. Bits \subseteq Nat /\ IsFiniteSet(Bits)
    BY PowersAre
  <2> HIDE DEF D
  <2>2. IsFiniteSet(D)
    BY <1>1, <2>1, FS_Subset
  <2>3. QED
    BY <1>1, <2>1, <2>2
<1>3. PICK b \in D : \A c \in D : c <= b
  <2> HIDE DEF D
  <2>1. QED
    BY <1>1, <1>2, LargestOfFinite
<1>4. \A c \in Bits : c > b => (c \in m <=> c \in n)
  <2> TAKE c \in Bits
  <2> HAVE c > b
  <2>1. c \in Int /\ b \in Int
    BY <1>2
  <2>2. ~ (c <= b)
    BY <2>1
  <2>3. QED
    BY <1>3, <2>2
<1>5. CASE b \in m \ n
  <2>1. /\ SumFunctionOnSet(Powers, m) \in Nat /\ SumFunctionOnSet(Powers, n) \in Nat
        /\ SumFunctionOnSet(Powers, n) < SumFunctionOnSet(Powers, m)
    BY <1>4, <1>5, UpperBitDecides
  <2>2. QED
    BY <2>1
<1>6. CASE b \in n \ m
  <2>1. /\ SumFunctionOnSet(Powers, m) \in Nat /\ SumFunctionOnSet(Powers, n) \in Nat
        /\ SumFunctionOnSet(Powers, m) < SumFunctionOnSet(Powers, n)
    BY <1>4, <1>6, UpperBitDecides
  <2>2. QED
    BY <2>1
<1>7. QED
  BY <1>3, <1>5, <1>6

LowBits(m) == {b \in m : b < IntBits - 1}
SignBit(m) == {b \in m : b = IntBits - 1}

LEMMA AsIntIs ==
  ASSUME NEW m \in Masks
  PROVE  /\ AsInt(m) = SumFunctionOnSet(Powers, LowBits(m)) - SumFunctionOnSet(Powers, SignBit(m))
         /\ SumFunctionOnSet(Powers, LowBits(m)) \in Nat
         /\ SumFunctionOnSet(Powers, LowBits(m)) < 2^(IntBits - 1)
         /\ 2^(IntBits - 1) \in Nat
         /\ SumFunctionOnSet(Powers, SignBit(m))
              = IF IntBits - 1 \in m THEN 2^(IntBits - 1) ELSE 0
         /\ AsInt(m) \in Int
<1> DEFINE k == IntBits - 1
<1>0. k \in Nat /\ m \subseteq Bits
  BY PowersAre DEF Masks
<1>1. AsInt(m) = SumFunctionOnSet(Powers, LowBits(m)) - SumFunctionOnSet(Powers, SignBit(m))
  BY DEF AsInt, Powers, LowBits, SignBit
<1> HIDE DEF k
<1>2. /\ SumFunctionOnSet(Powers, LowBits(m)) \in Nat
      /\ SumFunctionOnSet(Powers, LowBits(m)) < 2^k
  <2>1. LowBits(m) \subseteq Bits /\ \A b \in LowBits(m) : b < k
    BY <1>0 DEF LowBits, k
  <2>2. QED
    BY <1>0, <2>1, PowersAre, SumOfPowersBelow
<1>3. 2^k \in Nat
  BY <1>0, PowerDoubles
<1>4. SumFunctionOnSet(Powers, SignBit(m)) = IF k \in m THEN 2^k ELSE 0
  <2>1. CASE k \in m
    <3>1. SignBit(m) = {k}
      BY <2>1 DEF SignBit, k
    <3>2. Powers[k] = 2^k
      BY <1>0, <2>1, PowersAre
    <3>3. QED
      BY <1>3, <2>1, <3>1, <3>2, SumOfOne
  <2>2. CASE k \notin m
    <3>1. SignBit(m) = {}
      BY <2>2 DEF SignBit, k
    <3>2. QED
      BY <2>2, <3>1, SumOfNone
  <2>3. QED
    BY <2>1, <2>2
<1>5. AsInt(m) \in Int
  BY <1>1, <1>2, <1>3, <1>4
<1>6. QED
  BY <1>1, <1>2, <1>3, <1>4, <1>5 DEF k

(* int tells masks apart that have no bit above its width. *)
LEMMA AsIntDiffers ==
  ASSUME NEW m \in Masks, NEW n \in Masks, AsInt(m) = AsInt(n),
         \A b \in m \cup n : b < IntBits
  PROVE  m = n
<1> DEFINE k == IntBits - 1
           low(x) == SumFunctionOnSet(Powers, LowBits(x))
           sign(x) == SumFunctionOnSet(Powers, SignBit(x))
<1>0. k \in Nat /\ m \subseteq Bits /\ n \subseteq Bits
  BY PowersAre DEF Masks
<1>1. /\ AsInt(m) = low(m) - sign(m) /\ low(m) \in Nat /\ low(m) < 2^k
      /\ sign(m) = IF k \in m THEN 2^k ELSE 0
  BY AsIntIs
<1>2. /\ AsInt(n) = low(n) - sign(n) /\ low(n) \in Nat /\ low(n) < 2^k
      /\ sign(n) = IF k \in n THEN 2^k ELSE 0
  BY AsIntIs
<1>3. 2^k \in Nat
  BY <1>0, PowerDoubles
<1>4. LowBits(m) \subseteq Bits /\ LowBits(n) \subseteq Bits
  BY <1>0 DEF LowBits
<1>5. (k \in m <=> k \in n) /\ low(m) = low(n)
  <2>1. \A x, y, s \in Nat : x < s /\ y < s => x - s # y - 0 /\ (x - s = y - s => x = y)
    OBVIOUS
  <2>2. \A x, y \in Nat : x - 0 = y - 0 => x = y
    OBVIOUS
  <2>3. low(m) - sign(m) = low(n) - sign(n)
    BY <1>1, <1>2
  <2> HIDE DEF low, sign, k
  <2>4. CASE k \in m /\ k \in n
    <3>1. sign(m) = 2^k /\ sign(n) = 2^k
      BY <1>1, <1>2, <2>4
    <3>2. QED
      BY <1>1, <1>2, <1>3, <2>1, <2>3, <2>4, <3>1
  <2>5. CASE k \in m /\ k \notin n
    <3>1. sign(m) = 2^k /\ sign(n) = 0
      BY <1>1, <1>2, <2>5
    <3>2. QED
      BY <1>1, <1>2, <1>3, <2>1, <2>3, <3>1
  <2>6. CASE k \notin m /\ k \in n
    <3>1. sign(m) = 0 /\ sign(n) = 2^k
      BY <1>1, <1>2, <2>6
    <3>2. QED
      BY <1>1, <1>2, <1>3, <2>1, <2>3, <3>1
  <2>7. CASE k \notin m /\ k \notin n
    <3>1. sign(m) = 0 /\ sign(n) = 0
      BY <1>1, <1>2, <2>7
    <3>2. QED
      BY <1>1, <1>2, <2>2, <2>3, <2>7, <3>1
  <2>8. QED
    BY <2>4, <2>5, <2>6, <2>7
<1>6. LowBits(m) = LowBits(n)
  BY <1>4, <1>5, DifferentSums
<1>7. \A b \in m \cup n : b < k \/ b = k
  <2> TAKE b \in m \cup n
  <2>1. b \in Nat /\ IntBits \in Nat
    BY <1>0, PowersAre
  <2>2. b < IntBits
    OBVIOUS
  <2>3. QED
    BY <2>1, <2>2
<1>8. \A b : /\ b \in LowBits(m) <=> b \in m /\ b < k
             /\ b \in LowBits(n) <=> b \in n /\ b < k
  BY DEF LowBits
<1> HIDE DEF k
<1>9. \A b : b \in m <=> b \in n
  BY <1>5, <1>6, <1>7, <1>8, Zenon
<1>10. QED
  BY <1>9, Zenon

-----------------------------------------------------------------------------
(* The orders that sort may leave masks in are all their enumerations in   *)
(* which no mask comes before one that is smaller as int.                  *)

Orders(some) ==
  {s \in Seq(some) :
     /\ Len(s) = Cardinality(some)
     /\ \A i, j \in 1 .. Len(s) : i < j => s[i] # s[j] /\ AsInt(s[i]) <= AsInt(s[j])}

HighestOf(some) == {m \in some : \A n \in some : AsInt(n) <= AsInt(m)}

Grown(orders, some) ==
  UNION {{Append(s, m) : s \in orders[some \ {m}]} : m \in HighestOf(some)}

OrdersBy(masks, orders) ==
  orders = [some \in SUBSET masks |-> IF some = {} THEN {<< >>} ELSE Grown(orders, some)]

IsGrown(t, orders, some) ==
  \E m \in HighestOf(some) : \E s \in orders[some \ {m}] : t = Append(s, m)

LEMMA InGrown ==
  ASSUME NEW orders, NEW some, NEW t
  PROVE  t \in Grown(orders, some) <=> IsGrown(t, orders, some)
<1> DEFINE from(m) == {Append(s, m) : s \in orders[some \ {m}]}
<1>1. \A m : t \in from(m) <=> \E s \in orders[some \ {m}] : t = Append(s, m)
  OBVIOUS
<1>2. Grown(orders, some) = UNION {from(m) : m \in HighestOf(some)}
  BY DEF Grown
<1> HIDE DEF from
<1>3. t \in Grown(orders, some) <=> \E m \in HighestOf(some) : t \in from(m)
  BY <1>2
<1>4. QED
  BY <1>1, <1>3, Zenon DEF IsGrown

LEMMA OrderCovers ==
  ASSUME NEW some, IsFiniteSet(some), NEW s \in Orders(some)
  PROVE  ToSet(s) = some /\ \A m \in some : \E i \in 1 .. Len(s) : m = s[i]
<1> DEFINE n == Len(s)
<1>1. /\ n \in Nat /\ s \in [1 .. n -> some] /\ Cardinality(some) = n
      /\ \A i, j \in 1 .. n : i < j => s[i] # s[j]
  BY DEF Orders
<1>2. DOMAIN s = 1 .. n
  BY <1>1
<1> HIDE DEF n
<1>3. Range(s) = some
  BY <1>1, EnumerationCovers
<1>4. QED
  BY <1>2, <1>3 DEF ToSet, Range, n

LEMMA OrdersOfNone ==
  Orders({}) = {<< >>}
<1>1. Cardinality({}) = 0
  BY FS_EmptySet
<1>2. << >> \in Orders({})
  BY <1>1 DEF Orders
<1>3. \A s \in Orders({}) : s = << >>
  BY <1>1 DEF Orders
<1>4. QED
  BY <1>2, <1>3

LEMMA OrderAppended ==
  ASSUME NEW some, some \subseteq Masks, IsFiniteSet(some),
         NEW m \in HighestOf(some), NEW s \in Orders(some \ {m})
  PROVE  Append(s, m) \in Orders(some)
<1> DEFINE t == Append(s, m)
<1>1. m \in some /\ \A n \in some : AsInt(n) <= AsInt(m)
  BY DEF HighestOf
<1>2. Cardinality(some \ {m}) = Cardinality(some) - 1 /\ Cardinality(some) \in Nat
  BY <1>1, FS_RemoveElement, FS_CardinalityType
<1>3. /\ s \in Seq(some \ {m}) /\ Len(s) = Cardinality(some \ {m}) /\ Len(s) \in Nat
      /\ \A i, j \in 1 .. Len(s) : i < j => s[i] # s[j] /\ AsInt(s[i]) <= AsInt(s[j])
  <2> DEFINE rest == some \ {m}
  <2>1. s \in Orders(rest)
    OBVIOUS
  <2> HIDE DEF rest
  <2>2. /\ s \in Seq(rest) /\ Len(s) = Cardinality(rest)
        /\ \A i, j \in 1 .. Len(s) : i < j => s[i] # s[j] /\ AsInt(s[i]) <= AsInt(s[j])
    BY <2>1, Zenon DEF Orders
  <2>3. Len(s) \in Nat
    BY <2>2
  <2>4. QED
    BY <2>2, <2>3 DEF rest
<1>4. /\ t \in Seq(some) /\ Len(t) = Len(s) + 1 /\ t[Len(s) + 1] = m
      /\ \A i \in 1 .. Len(s) : t[i] = s[i] /\ s[i] \in some \ {m}
  <2>1. s \in Seq(some) /\ \A i \in 1 .. Len(s) : s[i] \in some \ {m}
    BY <1>3
  <2>2. m \in some
    BY <1>1
  <2>3. QED
    BY <2>1, <2>2
<1> HIDE DEF t
<1>5. Len(t) = Cardinality(some)
  BY <1>2, <1>3, <1>4
<1>6. ASSUME NEW i \in 1 .. Len(t), NEW j \in 1 .. Len(t), i < j
      PROVE  t[i] # t[j] /\ AsInt(t[i]) <= AsInt(t[j])
  <2>1. i \in 1 .. Len(s)
    BY <1>3, <1>4, <1>6
  <2>2. CASE j \in 1 .. Len(s)
    BY <1>3, <1>4, <1>6, <2>1, <2>2
  <2>3. CASE j = Len(s) + 1
    BY <1>1, <1>4, <2>1, <2>3
  <2>4. QED
    BY <1>3, <1>4, <2>2, <2>3
<1>7. QED
  BY <1>4, <1>5, <1>6 DEF Orders, t

LEMMA OrderSplits ==
  ASSUME NEW some, some \subseteq Masks, IsFiniteSet(some), some # {}, NEW t \in Orders(some)
  PROVE  \E m \in HighestOf(some) : \E s \in Orders(some \ {m}) : t = Append(s, m)
<1> DEFINE n == Len(t)
           m == t[n]
           s == [i \in 1 .. n - 1 |-> t[i]]
<1>1. /\ t \in Seq(some) /\ n = Cardinality(some) /\ n \in Nat
      /\ \A i, j \in 1 .. n : i < j => t[i] # t[j] /\ AsInt(t[i]) <= AsInt(t[j])
  BY DEF Orders
<1>2. n # 0
  BY <1>1, FS_EmptySet
<1>3. n \in 1 .. n /\ m \in some /\ n - 1 \in Nat
  BY <1>1, <1>2
<1>4. m \in HighestOf(some)
  <2>1. \A x \in some : AsInt(x) <= AsInt(m)
    <3> TAKE x \in some
    <3>1. PICK i \in 1 .. n : x = t[i]
      BY OrderCovers
    <3>2. CASE i = n
      <4>1. AsInt(m) \in Int
        BY <1>3, AsIntIs
      <4>2. QED
        BY <3>1, <3>2, <4>1
    <3>3. CASE i # n
      <4>1. i < n
        BY <1>1, <3>3
      <4>2. QED
        BY <1>1, <1>3, <3>1, <4>1
    <3>4. QED
      BY <3>2, <3>3
  <2>2. QED
    BY <1>3, <2>1 DEF HighestOf
<1>5. s \in Orders(some \ {m})
  <2>1. Cardinality(some \ {m}) = n - 1
    BY <1>1, <1>3, FS_RemoveElement
  <2>2. \A i \in 1 .. n - 1 : i \in 1 .. n /\ i < n
    BY <1>1, <1>2
  <2>3. \A i \in 1 .. n - 1 : t[i] \in some \ {m}
    BY <1>1, <1>3, <2>2
  <2>4. s \in Seq(some \ {m}) /\ Len(s) = n - 1 /\ \A i \in 1 .. n - 1 : s[i] = t[i]
    BY <1>3, <2>3
  <2>5. \A i, j \in 1 .. n - 1 : i < j => t[i] # t[j] /\ AsInt(t[i]) <= AsInt(t[j])
    BY <1>1, <2>2
  <2> HIDE DEF s, m
  <2>6. QED
    BY <2>1, <2>4, <2>5 DEF Orders
<1>6. t = Append(s, m)
  <2>1. s \in Seq(some) /\ Len(s) = n - 1
    BY <1>1, <1>3
  <2>2. Append(s, m) \in Seq(some) /\ Len(Append(s, m)) = n
    BY <1>1, <1>3, <2>1
  <2>3. \A i \in 1 .. n : Append(s, m)[i] = t[i]
    BY <1>1, <1>3, <2>1
  <2> HIDE DEF s, m
  <2>4. QED
    BY <1>1, <2>2, <2>3
<1>7. QED
  BY <1>4, <1>5, <1>6

LEMMA OrdersAre ==
  ASSUME NEW masks, masks \subseteq Masks, IsFiniteSet(masks)
  PROVE  SortedOrders(masks) = Orders(masks)
<1> DEFINE all == [some \in SUBSET masks |-> Orders(some)]
           given == CHOOSE g : OrdersBy(masks, g)
           wrong == {some \in SUBSET masks : given[some] # all[some]}
<1>1. SortedOrders(masks) = given[masks]
  BY DEF SortedOrders, OrdersBy, HighestOf, Grown
<1>2. \A some \in SUBSET masks : some # {} => Orders(some) = Grown(all, some)
  <2> SUFFICES ASSUME NEW some \in SUBSET masks, some # {}
               PROVE  Orders(some) = Grown(all, some)
    OBVIOUS
  <2>1. some \subseteq Masks /\ IsFiniteSet(some)
    BY FS_Subset
  <2>2. \A m \in HighestOf(some) : all[some \ {m}] = Orders(some \ {m})
    OBVIOUS
  <2>4. \A t : t \in Grown(all, some) <=>
               \E m \in HighestOf(some) : \E s \in Orders(some \ {m}) : t = Append(s, m)
    <3> TAKE t
    <3>1. t \in Grown(all, some) <=> IsGrown(t, all, some)
      BY InGrown
    <3>2. QED
      BY <2>2, <3>1, Zenon DEF IsGrown
  <2>5. ASSUME NEW t \in Orders(some)
        PROVE  t \in Grown(all, some)
    <3>1. \E m \in HighestOf(some) : \E s \in Orders(some \ {m}) : t = Append(s, m)
      BY <2>1, OrderSplits
    <3>2. QED
      BY <2>4, <3>1, Zenon
  <2>6. ASSUME NEW t \in Grown(all, some)
        PROVE  t \in Orders(some)
    <3>1. PICK m \in HighestOf(some) : \E s \in Orders(some \ {m}) : t = Append(s, m)
      BY <2>4
    <3>2. PICK s \in Orders(some \ {m}) : t = Append(s, m)
      BY <3>1
    <3>3. Append(s, m) \in Orders(some)
      BY <2>1, OrderAppended
    <3>4. QED
      BY <3>2, <3>3
  <2>7. QED
    BY <2>5, <2>6
<1>3. OrdersBy(masks, all)
  <2>1. \A some \in SUBSET masks : all[some] = IF some = {} THEN {<< >>} ELSE Grown(all, some)
    BY <1>2, OrdersOfNone
  <2>2. all = [some \in SUBSET masks |-> all[some]]
    OBVIOUS
  <2> HIDE DEF all
  <2>3. QED
    BY <2>1, <2>2 DEF OrdersBy
<1> HIDE DEF all
<1>4. OrdersBy(masks, given)
  BY <1>3
<1> HIDE DEF given
<1>5. ASSUME wrong # {}
      PROVE  FALSE
  <2>1. PICK some \in wrong : \A part \in wrong : part \subseteq some => part = some
    <3>1. wrong \in SUBSET (SUBSET masks)
      OBVIOUS
    <3> HIDE DEF wrong
    <3>2. QED
      BY <1>5, <3>1, MinimalSubset
  <2>2. some # {}
    BY <1>3, <1>4 DEF OrdersBy
  <2>3. given[some] = Grown(given, some) /\ all[some] = Grown(all, some)
    BY <1>3, <1>4, <2>2 DEF OrdersBy
  <2>4. \A m \in HighestOf(some) : given[some \ {m}] = all[some \ {m}]
    <3> TAKE m \in HighestOf(some)
    <3>1. m \in some
      BY DEF HighestOf
    <3>2. some \ {m} \notin wrong
      BY <2>1, <3>1
    <3>3. QED
      BY <3>2
  <2>5. Grown(given, some) = Grown(all, some)
    <3>1. ASSUME NEW t
          PROVE  t \in Grown(given, some) <=> t \in Grown(all, some)
      <4>1. /\ t \in Grown(given, some) <=> IsGrown(t, given, some)
            /\ t \in Grown(all, some) <=> IsGrown(t, all, some)
        BY InGrown
      <4>2. IsGrown(t, given, some) <=> IsGrown(t, all, some)
        BY <2>4, Zenon DEF IsGrown
      <4>3. QED
        BY <4>1, <4>2
    <3>2. QED
      BY <3>1, Zenon
  <2>6. QED
    BY <2>3, <2>5
<1>6. QED
  BY <1>1, <1>5 DEF all

-----------------------------------------------------------------------------
(* Sums of masks: the linear algebra of XOR, with parities of cardinalities*)

Difference(M, N) == (M \ N) \cup (N \ M)

Span(masks) == {SumOf(M) : M \in SUBSET masks}

ProperSums(masks) == {SumOf(M) : M \in (SUBSET masks) \ {{}}}

LEMMA MasksFinite ==
  ASSUME NEW M, M \subseteq Masks
  PROVE  IsFiniteSet(M)
<1>1. IsFiniteSet(SUBSET Bits)
  BY PowersAre, FS_SUBSET
<1>2. QED
  BY <1>1, FS_Subset DEF Masks

LEMMA SumIsMask ==
  ASSUME NEW M
  PROVE  SumOf(M) \in Masks
BY DEF SumOf, Masks

LEMMA SumOfEmpty ==
  SumOf({}) = {}
<1>1. \A b : {m \in {} : b \in m} = {}
  OBVIOUS
<1>2. Cardinality({}) % 2 = 0
  BY FS_EmptySet
<1>3. QED
  BY <1>1, <1>2 DEF SumOf

LEMMA SumOfSingle ==
  ASSUME NEW m \in Masks
  PROVE  SumOf({m}) = m
<1> DEFINE with(b) == {x \in {m} : b \in x}
<1>1. \A b \in m : Cardinality(with(b)) % 2 = 1
  <2> TAKE b \in m
  <2>1. with(b) = {m}
    OBVIOUS
  <2>2. Cardinality({m}) = 1
    BY FS_Singleton
  <2> HIDE DEF with
  <2>3. QED
    BY <2>1, <2>2
<1>2. \A b : b \notin m => Cardinality(with(b)) % 2 # 1
  <2> TAKE b
  <2> HAVE b \notin m
  <2>1. with(b) = {}
    OBVIOUS
  <2>2. Cardinality({}) = 0
    BY FS_EmptySet
  <2> HIDE DEF with
  <2>3. QED
    BY <2>1, <2>2
<1>3. SumOf({m}) = {b \in Bits : Cardinality(with(b)) % 2 = 1} /\ m \subseteq Bits
  BY DEF SumOf, Masks
<1> HIDE DEF with
<1>4. QED
  BY <1>1, <1>2, <1>3

LEMMA SumOfDifference ==
  ASSUME NEW M, M \subseteq Masks, NEW N, N \subseteq Masks
  PROVE  SumOf(Difference(M, N)) = Xor(SumOf(M), SumOf(N))
<1> DEFINE odd(L, b) == Cardinality({x \in L : b \in x}) % 2 = 1
<1>1. ASSUME NEW b
      PROVE  odd(Difference(M, N), b) <=> ~ (odd(M, b) <=> odd(N, b))
  <2> DEFINE S == {x \in M : b \in x}
             T == {x \in N : b \in x}
             D == {x \in Difference(M, N) : b \in x}
  <2>1. S \subseteq Masks /\ T \subseteq Masks /\ D = (S \ T) \cup (T \ S)
    BY DEF Difference
  <2>2. odd(Difference(M, N), b) <=> Cardinality(D) % 2 = 1
    OBVIOUS
  <2>3. (odd(M, b) <=> Cardinality(S) % 2 = 1) /\ (odd(N, b) <=> Cardinality(T) % 2 = 1)
    OBVIOUS
  <2> HIDE DEF S, T, D, odd
  <2>4. IsFiniteSet(S) /\ IsFiniteSet(T)
    BY <2>1, MasksFinite
  <2>5. Cardinality(D) % 2 = (Cardinality(S) + Cardinality(T)) % 2
    BY <2>1, <2>4, ParityOfDifference
  <2>6. Cardinality(S) \in Nat /\ Cardinality(T) \in Nat
    BY <2>4, FS_CardinalityType
  <2>7. \A x, y \in Nat : (x + y) % 2 = 1 <=> ~ (x % 2 = 1 <=> y % 2 = 1)
    OBVIOUS
  <2>8. Cardinality(D) % 2 = 1 <=> ~ (Cardinality(S) % 2 = 1 <=> Cardinality(T) % 2 = 1)
    BY <2>5, <2>6, <2>7
  <2>9. QED
    BY <2>2, <2>3, <2>8
<1>2. \A L : SumOf(L) = {b \in Bits : odd(L, b)}
  BY DEF SumOf
<1> HIDE DEF odd
<1>3. QED
  BY <1>1, <1>2, Zenon DEF Xor

LEMMA SumOfMore ==
  ASSUME NEW M, M \subseteq Masks, NEW m \in Masks, m \notin M
  PROVE  SumOf(M \cup {m}) = Xor(SumOf(M), m)
<1>1. M \cup {m} = Difference(M, {m}) /\ {m} \subseteq Masks
  BY DEF Difference
<1>2. QED
  BY <1>1, SumOfDifference, SumOfSingle

LEMMA SpanIsClosed ==
  ASSUME NEW X, X \subseteq Masks, NEW u \in Span(X), NEW v \in Span(X)
  PROVE  Xor(u, v) \in Span(X)
<1>1. PICK M \in SUBSET X : u = SumOf(M)
  BY DEF Span
<1>2. PICK N \in SUBSET X : v = SumOf(N)
  BY DEF Span
<1>3. Difference(M, N) \in SUBSET X /\ M \subseteq Masks /\ N \subseteq Masks
  BY DEF Difference
<1>4. Xor(u, v) = SumOf(Difference(M, N))
  BY <1>1, <1>2, <1>3, SumOfDifference
<1>5. QED
  BY <1>3, <1>4 DEF Span

LEMMA SpanHas ==
  ASSUME NEW X, X \subseteq Masks
  PROVE  {} \in Span(X) /\ X \subseteq Span(X) /\ Span(X) \subseteq Masks
<1>1. {} \in Span(X)
  <2>1. {} \in SUBSET X
    OBVIOUS
  <2>2. QED
    BY <2>1, SumOfEmpty DEF Span
<1>2. ASSUME NEW m \in X
      PROVE  m \in Span(X)
  <2>1. {m} \in SUBSET X /\ SumOf({m}) = m
    BY SumOfSingle
  <2>2. QED
    BY <2>1 DEF Span
<1>3. Span(X) \subseteq Masks
  BY SumIsMask DEF Span
<1>4. QED
  BY <1>1, <1>2, <1>3

(* What is in the span of masks adds nothing to it. *)
LEMMA SpanOfSpan ==
  ASSUME NEW X, X \subseteq Masks, NEW Y, Y \subseteq Span(X)
  PROVE  Span(Y) \subseteq Span(X)
<1> DEFINE wrong == {M \in SUBSET Y : SumOf(M) \notin Span(X)}
<1>0. Y \subseteq Masks /\ IsFiniteSet(Y)
  BY SpanHas, MasksFinite
<1>1. ASSUME wrong # {}
      PROVE  FALSE
  <2>1. PICK M \in wrong : \A N \in wrong : N \subseteq M => N = M
    <3>1. wrong \in SUBSET (SUBSET Y)
      OBVIOUS
    <3> HIDE DEF wrong
    <3>2. QED
      BY <1>0, <1>1, <3>1, MinimalSubset
  <2>2. M # {}
    BY SumOfEmpty, SpanHas
  <2>3. PICK m : m \in M
    BY <2>2
  <2> DEFINE N == M \ {m}
  <2>4. N \notin wrong
    BY <2>1, <2>3
  <2>5. SumOf(N) \in Span(X) /\ m \in Span(X)
    BY <2>3, <2>4
  <2>6. SumOf(M) = Xor(SumOf(N), m)
    <3>1. M = N \cup {m} /\ m \notin N /\ N \subseteq Masks /\ m \in Masks
      BY <1>0, <2>3
    <3> HIDE DEF N
    <3>2. QED
      BY <3>1, SumOfMore
  <2>7. Xor(SumOf(N), m) \in Span(X)
    BY <2>5, SpanIsClosed
  <2>8. QED
    BY <2>1, <2>6, <2>7
<1>2. QED
  BY <1>1 DEF Span

LEMMA SpanIsProper ==
  ASSUME NEW X
  PROVE  Span(X) = ProperSums(X) \cup {{}}
<1>1. {} \in SUBSET X /\ SumOf({}) = {}
  BY SumOfEmpty
<1>2. QED
  BY <1>1 DEF Span, ProperSums

LEMMA ProperSumsGrow ==
  ASSUME NEW X, X \subseteq Masks, NEW m \in Masks, m \notin X
  PROVE  ProperSums(X \cup {m}) = ProperSums(X) \cup {Xor(s, m) : s \in ProperSums(X)} \cup {m}
<1> DEFINE right == ProperSums(X) \cup {Xor(s, m) : s \in ProperSums(X)} \cup {m}
<1>1. ASSUME NEW s \in ProperSums(X \cup {m})
      PROVE  s \in right
  <2>1. PICK M \in SUBSET (X \cup {m}) : M # {} /\ s = SumOf(M)
    BY <1>1 DEF ProperSums
  <2>2. CASE m \notin M
    <3>1. M \in (SUBSET X) \ {{}}
      BY <2>1, <2>2
    <3>2. QED
      BY <2>1, <3>1 DEF ProperSums
  <2>3. CASE m \in M
    <3> DEFINE N == M \ {m}
    <3>1. N \in SUBSET X /\ N \subseteq Masks /\ m \notin N /\ M = N \cup {m}
      BY <2>1, <2>3
    <3> HIDE DEF N
    <3>2. CASE N = {}
      <4>1. M = {m}
        BY <3>1, <3>2
      <4>2. QED
        BY <2>1, <4>1, SumOfSingle
    <3>3. CASE N # {}
      <4>1. s = Xor(SumOf(N), m)
        BY <2>1, <3>1, SumOfMore
      <4>2. SumOf(N) \in ProperSums(X)
        BY <3>1, <3>3 DEF ProperSums
      <4>3. QED
        BY <4>1, <4>2
    <3>4. QED
      BY <3>2, <3>3
  <2>4. QED
    BY <2>2, <2>3
<1>2. ASSUME NEW s \in right
      PROVE  s \in ProperSums(X \cup {m})
  <2>1. CASE s \in ProperSums(X)
    BY <2>1 DEF ProperSums
  <2>2. CASE s \in {Xor(u, m) : u \in ProperSums(X)}
    <3>1. PICK u \in ProperSums(X) : s = Xor(u, m)
      BY <2>2
    <3>2. PICK N \in SUBSET X : N # {} /\ u = SumOf(N)
      BY DEF ProperSums
    <3>3. N \subseteq Masks /\ m \notin N
      OBVIOUS
    <3>4. s = SumOf(N \cup {m})
      BY <3>1, <3>2, <3>3, SumOfMore
    <3>5. N \cup {m} \in (SUBSET (X \cup {m})) \ {{}}
      OBVIOUS
    <3>6. QED
      BY <3>4, <3>5 DEF ProperSums
  <2>3. CASE s = m
    <3>1. {m} \in (SUBSET (X \cup {m})) \ {{}} /\ s = SumOf({m})
      BY <2>3, SumOfSingle
    <3>2. QED
      BY <3>1 DEF ProperSums
  <2>4. QED
    BY <2>1, <2>2, <2>3
<1> HIDE DEF right
<1>3. ProperSums(X \cup {m}) = right
  BY <1>1, <1>2
<1>4. QED
  BY <1>3 DEF right

-----------------------------------------------------------------------------
(* What the code collects one by one are the sums of what it has kept.     *)

SumsStep(done, mask) == done \cup {Xor(s, mask) : s \in done} \cup {mask}

SumsWalk(masks, sums) ==
  sums = [n \in 0 .. Len(masks) |->
            IF n = 0 THEN {} ELSE SumsStep(sums[n - 1], masks[n])]

Upto(s, n) == {s[i] : i \in 1 .. n}

Distinct(s) == \A i, j \in 1 .. Len(s) : i # j => s[i] # s[j]

LEMMA UptoNext ==
  ASSUME NEW s, s \in Seq(Masks), Distinct(s), NEW n, n \in 1 .. Len(s)
  PROVE  /\ n - 1 \in 0 .. Len(s) /\ Upto(s, n - 1) \subseteq Masks /\ s[n] \in Masks
         /\ s[n] \notin Upto(s, n - 1) /\ Upto(s, n) = Upto(s, n - 1) \cup {s[n]}
<1>1. Len(s) \in Nat /\ n \in Nat /\ n - 1 \in 0 .. Len(s) /\ s[n] \in Masks
  OBVIOUS
<1>2. \A i \in 1 .. n - 1 : i \in 1 .. n /\ i \in 1 .. Len(s) /\ i # n
  BY <1>1
<1>3. \A i \in 1 .. n : i = n \/ i \in 1 .. n - 1
  BY <1>1
<1>4. \A i \in 1 .. Len(s) : s[i] \in Masks
  OBVIOUS
<1>5. n \in 1 .. n
  BY <1>1
<1>6. Upto(s, n - 1) \subseteq Masks
  BY <1>2, <1>4 DEF Upto
<1>7. s[n] \notin Upto(s, n - 1)
  BY <1>2 DEF Upto, Distinct
<1>8. Upto(s, n) = Upto(s, n - 1) \cup {s[n]}
  BY <1>2, <1>3, <1>5, Zenon DEF Upto
<1>9. QED
  BY <1>1, <1>6, <1>7, <1>8

LEMMA SumsAre ==
  ASSUME NEW s, s \in Seq(Masks), Distinct(s)
  PROVE  Sums(s) = ProperSums(ToSet(s))
<1> DEFINE all == [n \in 0 .. Len(s) |-> ProperSums(Upto(s, n))]
           given == CHOOSE sums : SumsWalk(s, sums)
           wrong == {n \in 0 .. Len(s) : given[n] # all[n]}
<1>1. Sums(s) = given[Len(s)]
  BY DEF Sums, SumsWalk, SumsStep
<1>2. Len(s) \in Nat
  OBVIOUS
<1>3. all[0] = {}
  <2>1. Upto(s, 0) = {}
    BY DEF Upto
  <2>2. 0 \in 0 .. Len(s)
    BY <1>2
  <2>3. QED
    BY <2>1, <2>2 DEF ProperSums
<1>4. \A n \in 1 .. Len(s) : all[n] = SumsStep(all[n - 1], s[n])
  <2> TAKE n \in 1 .. Len(s)
  <2>1. /\ n - 1 \in 0 .. Len(s) /\ Upto(s, n - 1) \subseteq Masks /\ s[n] \in Masks
        /\ s[n] \notin Upto(s, n - 1) /\ Upto(s, n) = Upto(s, n - 1) \cup {s[n]}
    BY UptoNext
  <2>2. ProperSums(Upto(s, n)) = SumsStep(ProperSums(Upto(s, n - 1)), s[n])
    BY <2>1, ProperSumsGrow DEF SumsStep
  <2>3. n \in 0 .. Len(s)
    BY <1>2
  <2>4. QED
    BY <2>1, <2>2, <2>3
<1>5. SumsWalk(s, all)
  <2>1. \A n \in 0 .. Len(s) : n # 0 => n \in 1 .. Len(s)
    BY <1>2
  <2>2. \A n \in 0 .. Len(s) : all[n] = IF n = 0 THEN {} ELSE SumsStep(all[n - 1], s[n])
    BY <1>3, <1>4, <2>1
  <2>3. all = [n \in 0 .. Len(s) |-> all[n]]
    OBVIOUS
  <2> HIDE DEF all
  <2>4. QED
    BY <2>2, <2>3 DEF SumsWalk
<1>6. all[Len(s)] = ProperSums(ToSet(s))
  <2>1. Upto(s, Len(s)) = ToSet(s)
    BY DEF Upto, ToSet
  <2>2. QED
    BY <1>2, <2>1
<1> HIDE DEF all
<1>7. SumsWalk(s, given)
  BY <1>5
<1> HIDE DEF given
<1>8. ASSUME wrong # {}
      PROVE  FALSE
  <2>1. PICK n \in wrong : \A k \in wrong : n <= k
    <3>1. wrong \in SUBSET Nat
      BY <1>2
    <3> HIDE DEF wrong
    <3>2. QED
      BY <1>8, <3>1, LeastNatural
  <2>2. n \in 0 .. Len(s) /\ given[n] # all[n]
    OBVIOUS
  <2>3. n # 0
    BY <1>5, <1>7, <2>2 DEF SumsWalk
  <2>4. n - 1 \in 0 .. Len(s) /\ ~ (n <= n - 1)
    BY <1>2, <2>2, <2>3
  <2>5. given[n - 1] = all[n - 1]
    BY <2>1, <2>4
  <2>6. given[n] = SumsStep(given[n - 1], s[n]) /\ all[n] = SumsStep(all[n - 1], s[n])
    BY <1>5, <1>7, <2>2, <2>3 DEF SumsWalk
  <2>7. QED
    BY <2>2, <2>5, <2>6
<1>9. QED
  BY <1>1, <1>2, <1>6, <1>8

-----------------------------------------------------------------------------
(* The inductive invariant: what is kept are the masks of the list so far  *)
(* that are no sum of masks earlier in the list, and 0 if it comes up.     *)

IsVisited(i) == i \in DOMAIN addressMasks /\ (i < current \/ i = 1)

NewAt(i) ==
  addressMasks[i] = {} \/ addressMasks[i] \notin Span(Upto(addressMasks, i - 1))

TypesRight ==
  /\ physicalAddresses \in Seq(Seq(Masks)) /\ maxMaskBits \in Nat
  /\ errorPercentage \in 1 .. 100
  /\ addressMasks \in Seq(Masks) /\ addressBitMasksForBanks \in Seq(Masks)
  /\ current \in Nat \ {0}
  /\ pc \in {"sort", "unify", "verdict", "returned"}
  /\ success \in BOOLEAN

ListIsSorted ==
  IF pc = "sort" THEN addressMasks = << >> ELSE addressMasks \in Orders(FoundMasks)

LoopRight ==
  /\ pc = "sort" => current = 1 /\ addressBitMasksForBanks = << >>
  /\ pc = "unify" => addressMasks # << >> /\ current <= Len(addressMasks) + 1
  /\ pc \in {"verdict", "returned"} => current = Len(addressMasks) + 1

KeptAreNew ==
  \A m : m \in Kept <=> \E i \in DOMAIN addressMasks : IsVisited(i) /\ NewAt(i) /\ m = addressMasks[i]

KeptDistinct == Distinct(addressBitMasksForBanks)

Independent(masks) == \A M \in (SUBSET (masks \ {{}})) \ {{}} : SumOf(M) # {}

VisitedSpanned == \A i \in DOMAIN addressMasks : IsVisited(i) => addressMasks[i] \in Span(Kept)

SuccessIsCount ==
  (pc = "returned" /\ success) => 2^Len(addressBitMasksForBanks) = Len(physicalAddresses)

UnifyInv ==
  /\ TypesRight /\ ListIsSorted /\ LoopRight
  /\ KeptAreNew /\ KeptDistinct /\ Independent(Kept) /\ VisitedSpanned
  /\ SuccessIsCount

LEMMA AppendSet ==
  ASSUME NEW s, s \in Seq(Masks), NEW m \in Masks
  PROVE  /\ ToSet(Append(s, m)) = ToSet(s) \cup {m}
         /\ Distinct(s) /\ m \notin ToSet(s) => Distinct(Append(s, m))
<1> DEFINE t == Append(s, m)
<1>1. /\ Len(s) \in Nat /\ Len(t) = Len(s) + 1 /\ t[Len(s) + 1] = m
      /\ \A i \in 1 .. Len(s) : t[i] = s[i]
      /\ DOMAIN t = 1 .. Len(s) + 1 /\ DOMAIN s = 1 .. Len(s)
  OBVIOUS
<1> HIDE DEF t
<1>2. \A i : i \in DOMAIN t <=> i \in DOMAIN s \/ i = Len(s) + 1
  BY <1>1
<1>3. ToSet(t) = ToSet(s) \cup {m}
  BY <1>1, <1>2 DEF ToSet
<1>4. ASSUME Distinct(s), m \notin ToSet(s)
      PROVE  Distinct(t)
  <2>1. \A i \in 1 .. Len(s) : s[i] # m
    BY <1>1, <1>4 DEF ToSet
  <2>2. QED
    BY <1>1, <1>2, <1>4, <2>1 DEF Distinct
<1>5. QED
  BY <1>3, <1>4 DEF t

LEMMA SpanGrows ==
  ASSUME NEW X, NEW Y, X \subseteq Y
  PROVE  Span(X) \subseteq Span(Y)
<1>1. SUBSET X \subseteq SUBSET Y
  OBVIOUS
<1>2. QED
  BY <1>1 DEF Span

LEMMA FoundAre ==
  ASSUME NEW groups, NEW limit, NEW percentage
  PROVE  /\ Found(groups, limit, percentage) \subseteq Masks
         /\ IsFiniteSet(Found(groups, limit, percentage))
<1>1. Found(groups, limit, percentage) \subseteq Masks
  BY DEF Found
<1>2. QED
  BY <1>1, MasksFinite

LEMMA ListIs ==
  ASSUME TypesRight, ListIsSorted, pc # "sort"
  PROVE  /\ ToSet(addressMasks) = FoundMasks
         /\ DOMAIN addressMasks = 1 .. Len(addressMasks) /\ Len(addressMasks) \in Nat
         /\ \A i \in DOMAIN addressMasks : addressMasks[i] \in Masks
         /\ \A i, j \in DOMAIN addressMasks :
              i < j => addressMasks[i] # addressMasks[j]
                       /\ AsInt(addressMasks[i]) <= AsInt(addressMasks[j])
<1>1. addressMasks \in Orders(FoundMasks)
  BY DEF ListIsSorted
<1>2. FoundMasks \subseteq Masks /\ IsFiniteSet(FoundMasks)
  BY FoundAre DEF FoundMasks
<1>3. ToSet(addressMasks) = FoundMasks
  BY <1>1, <1>2, OrderCovers
<1>4. /\ addressMasks \in Seq(FoundMasks)
      /\ \A i, j \in 1 .. Len(addressMasks) :
           i < j => addressMasks[i] # addressMasks[j]
                    /\ AsInt(addressMasks[i]) <= AsInt(addressMasks[j])
  BY <1>1, Zenon DEF Orders
<1>5. /\ DOMAIN addressMasks = 1 .. Len(addressMasks) /\ Len(addressMasks) \in Nat
      /\ \A i \in DOMAIN addressMasks : addressMasks[i] \in FoundMasks
  BY <1>4
<1>6. QED
  BY <1>2, <1>3, <1>4, <1>5

(* What the loop asks about a mask is whether it is new in the list. *)
LEMMA LoopDecides ==
  ASSUME UnifyInv, pc = "unify", current <= Len(addressMasks)
  PROVE  /\ current \in DOMAIN addressMasks
         /\ addressMasks[current] \in Masks
         /\ IsNew(addressMasks[current]) => addressMasks[current] \notin Kept
         /\ addressMasks[current] # {} =>
              (IsNew(addressMasks[current]) <=> addressMasks[current] \notin Span(Kept))
         /\ ~ IsNew(addressMasks[current]) => addressMasks[current] \in Span(Kept)
         /\ current = 1 => ~ IsNew(addressMasks[current])
         /\ current # 1 => (IsNew(addressMasks[current]) <=> NewAt(current))
<1> DEFINE m == addressMasks[current]
           before == Upto(addressMasks, current - 1)
<1>1. /\ TypesRight /\ ListIsSorted /\ KeptAreNew /\ KeptDistinct /\ VisitedSpanned
      /\ Independent(Kept) /\ Kept \subseteq Masks
  BY DEF UnifyInv, TypesRight, Kept, ToSet
<1>2. /\ DOMAIN addressMasks = 1 .. Len(addressMasks) /\ Len(addressMasks) \in Nat
      /\ \A i \in DOMAIN addressMasks : addressMasks[i] \in Masks
      /\ \A i, j \in DOMAIN addressMasks : i < j => addressMasks[i] # addressMasks[j]
  BY <1>1, ListIs
<1>3. current \in DOMAIN addressMasks /\ m \in Masks
  BY <1>1, <1>2 DEF TypesRight
<1>4. IsNew(m) <=> m \notin ProperSums(Kept)
  <2>1. Sums(addressBitMasksForBanks) = ProperSums(Kept)
    BY <1>1, SumsAre DEF TypesRight, KeptDistinct, Kept
  <2> HIDE DEF m
  <2>2. QED
    BY <2>1 DEF IsNew
<1>5. Span(Kept) = ProperSums(Kept) \cup {{}}
  BY SpanIsProper
<1>6. m \in Kept => m \in ProperSums(Kept)
  <2> HAVE m \in Kept
  <2>1. {m} \in (SUBSET Kept) \ {{}}
    OBVIOUS
  <2>2. SumOf({m}) = m
    BY <1>3, SumOfSingle
  <2> HIDE DEF m
  <2>3. QED
    BY <2>1, <2>2 DEF ProperSums
<1>7. ASSUME current = 1
      PROVE  m \in Kept
  <2>1. IsVisited(1) /\ 1 \in DOMAIN addressMasks
    BY <1>3, <1>7 DEF IsVisited
  <2>2. Upto(addressMasks, 1 - 1) = {}
    BY DEF Upto
  <2>3. Span({}) = {{}}
    BY SumOfEmpty DEF Span
  <2>4. NewAt(1)
    BY <2>2, <2>3 DEF NewAt
  <2>5. QED
    BY <1>1, <1>7, <2>1, <2>4 DEF KeptAreNew
<1>8. ASSUME current # 1
      PROVE  Span(Kept) = Span(before) /\ m \notin Kept \cap {{}}
  <2>1. current \in Nat /\ 1 < current
    BY <1>1, <1>8 DEF TypesRight
  <2>2. \A i : i \in DOMAIN addressMasks /\ IsVisited(i) <=> i \in 1 .. current - 1
    BY <1>2, <1>3, <2>1 DEF IsVisited
  <2>3. before \subseteq Span(Kept)
    BY <1>1, <2>2 DEF Upto, VisitedSpanned
  <2>4. Kept \subseteq before
    BY <1>1, <2>2 DEF Upto, KeptAreNew
  <2>5. m \notin before
    <3>1. \A i \in 1 .. current - 1 : i \in DOMAIN addressMasks /\ i < current
      BY <1>2, <1>3, <2>1
    <3>2. QED
      BY <1>2, <1>3, <3>1 DEF Upto
  <2> HIDE DEF before
  <2>6. Span(before) \subseteq Span(Kept)
    BY <1>1, <2>3, SpanOfSpan
  <2>7. Span(Kept) \subseteq Span(before)
    BY <2>4, SpanGrows
  <2>8. QED
    BY <2>4, <2>5, <2>6, <2>7
<1>9. ASSUME current # 1, m = {}
      PROVE  m \notin ProperSums(Kept)
  <2>1. Kept \ {{}} = Kept
    BY <1>8, <1>9
  <2>2. \A M \in (SUBSET Kept) \ {{}} : SumOf(M) # {}
    BY <1>1, <2>1 DEF Independent
  <2>3. QED
    BY <1>9, <2>2 DEF ProperSums
<1> HIDE DEF m
<1>10. m # {} => (IsNew(m) <=> m \notin Span(Kept))
  BY <1>4, <1>5
<1>11. ASSUME current # 1
       PROVE  IsNew(m) <=> m = {} \/ m \notin Span(before)
  <2>1. CASE m = {}
    BY <1>4, <1>9, <1>11, <2>1
  <2>2. CASE m # {}
    BY <1>8, <1>10, <1>11, <2>2
  <2>3. QED
    BY <2>1, <2>2
<1>12. NewAt(current) <=> m = {} \/ m \notin Span(before)
  BY DEF NewAt, m
<1>13. QED
  BY <1>3, <1>4, <1>5, <1>6, <1>7, <1>10, <1>11, <1>12 DEF m

LEMMA InitUnify ==
  Init => UnifyInv
<1> SUFFICES ASSUME Init PROVE UnifyInv
  OBVIOUS
<1>1. PICK trial \in Trials : /\ physicalAddresses = trial[1] /\ maxMaskBits = trial[2]
                              /\ errorPercentage = trial[3]
  BY DEF Init
<1>2. /\ addressMasks = << >> /\ addressBitMasksForBanks = << >> /\ pc = "sort"
      /\ current = 1 /\ success = FALSE
  BY DEF Init
<1>3. TypesRight
  <2>1. physicalAddresses \in Seq(Seq(Masks)) /\ maxMaskBits \in Nat /\ errorPercentage \in 1 .. 100
    BY <1>1, FunctionAssumption
  <2>2. addressMasks \in Seq(Masks) /\ addressBitMasksForBanks \in Seq(Masks)
    BY <1>2
  <2>3. /\ current \in Nat \ {0} /\ success \in BOOLEAN
        /\ pc \in {"sort", "unify", "verdict", "returned"}
    <3>1. success \in BOOLEAN
      BY <1>2, Zenon
    <3>2. QED
      BY <1>2, <3>1
  <2>4. QED
    BY <2>1, <2>2, <2>3 DEF TypesRight
<1>4. ListIsSorted /\ LoopRight /\ SuccessIsCount
  BY <1>2 DEF ListIsSorted, LoopRight, SuccessIsCount
<1>5. Kept = {} /\ DOMAIN addressMasks = {}
  BY <1>2 DEF Kept, ToSet
<1>6. KeptAreNew /\ VisitedSpanned /\ Independent(Kept)
  BY <1>5 DEF KeptAreNew, VisitedSpanned, Independent
<1>7. KeptDistinct
  BY <1>2 DEF KeptDistinct, Distinct
<1>8. QED
  BY <1>3, <1>4, <1>6, <1>7 DEF UnifyInv

LEMMA SortKeepsUnify ==
  ASSUME UnifyInv, Sort
  PROVE  UnifyInv'
<1> DEFINE found == Found(physicalAddresses, maxMaskBits, errorPercentage)
<1>1. /\ pc = "sort" /\ addressMasks' \in SortedOrders(found)
      /\ UNCHANGED <<physicalAddresses, maxMaskBits, errorPercentage, current, success>>
  BY DEF Sort, inputs
<1>2. found \subseteq Masks /\ IsFiniteSet(found)
  BY FoundAre
<1>3. addressMasks' \in Orders(found) /\ FoundMasks' = found
  <2>1. SortedOrders(found) = Orders(found)
    <3> HIDE DEF found
    <3>1. QED
      BY <1>2, OrdersAre
  <2>2. QED
    BY <1>1, <2>1 DEF FoundMasks
<1> HIDE DEF found
<1>4. addressMasks' \in Seq(found) /\ addressMasks' \in Seq(Masks)
  <2>1. addressMasks' \in Seq(found)
    BY <1>3, Zenon DEF Orders
  <2>2. QED
    BY <1>2, <2>1
<1>5. current = 1 /\ addressBitMasksForBanks = << >> /\ TypesRight
  BY <1>1 DEF UnifyInv, LoopRight
<1>6. current' = 1 /\ ListIsSorted' /\ SuccessIsCount' /\ pc' # "returned"
  BY <1>1, <1>3, <1>5 DEF Sort, ListIsSorted, SuccessIsCount
<1>7. \A i : IsVisited(i)' <=> i \in DOMAIN addressMasks' /\ i = 1
  <2>1. \A i \in DOMAIN addressMasks' : ~ (i < 1)
    BY <1>4
  <2>2. QED
    BY <1>6, <2>1 DEF IsVisited
<1>8. CASE addressMasks' = << >>
  <2>1. addressBitMasksForBanks' = << >> /\ pc' = "verdict"
    BY <1>5, <1>8 DEF Sort
  <2>2. TypesRight'
    BY <1>1, <1>4, <1>5, <2>1 DEF TypesRight
  <2>3. Kept' = {} /\ DOMAIN addressMasks' = {} /\ Len(addressMasks') = 0
    BY <1>8, <2>1 DEF Kept, ToSet
  <2>4. LoopRight'
    BY <1>6, <2>1, <2>3 DEF LoopRight
  <2>5. KeptAreNew' /\ VisitedSpanned' /\ Independent(Kept)'
    BY <2>3 DEF KeptAreNew, VisitedSpanned, Independent
  <2>6. KeptDistinct'
    BY <2>1 DEF KeptDistinct, Distinct
  <2>7. QED
    BY <1>6, <2>2, <2>4, <2>5, <2>6 DEF UnifyInv
<1>9. CASE addressMasks' # << >>
  <2> DEFINE first == addressMasks'[1]
  <2>1. addressBitMasksForBanks' = <<first>> /\ pc' = "unify"
    BY <1>9 DEF Sort
  <2>2. /\ Len(addressMasks') \in Nat /\ 1 \in DOMAIN addressMasks'
        /\ first \in Masks /\ 1 <= Len(addressMasks') + 1
    BY <1>2, <1>4, <1>9
  <2>3. Kept' = {first}
    BY <2>1 DEF Kept, ToSet
  <2>4. NewAt(1)'
    <3>1. Upto(addressMasks', 1 - 1) = {}
      BY DEF Upto
    <3>2. Span({}) = {{}}
      BY SumOfEmpty DEF Span
    <3>3. QED
      BY <3>1, <3>2, Zenon DEF NewAt
  <2>5. TypesRight'
    BY <1>1, <1>4, <1>5, <2>1, <2>2 DEF TypesRight
  <2>6. LoopRight'
    BY <1>6, <1>9, <2>1, <2>2 DEF LoopRight
  <2>7. KeptAreNew'
    BY <1>7, <2>2, <2>3, <2>4 DEF KeptAreNew
  <2>8. KeptDistinct'
    BY <2>1 DEF KeptDistinct, Distinct
  <2>9. Independent(Kept)' /\ VisitedSpanned'
    <3>1. SumOf({first}) = first
      BY <2>2, SumOfSingle
    <3> HIDE DEF first
    <3>2. \A M \in (SUBSET ({first} \ {{}})) \ {{}} : M = {first} /\ first # {}
      OBVIOUS
    <3>3. first \in Span({first})
      BY <2>2, SpanHas
    <3>4. Independent(Kept)'
      BY <2>2, <2>3, <3>1, <3>2 DEF Independent
    <3>5. VisitedSpanned'
      BY <1>7, <2>3, <3>3 DEF VisitedSpanned, first
    <3>6. QED
      BY <3>4, <3>5
  <2>10. QED
    BY <1>6, <2>5, <2>6, <2>7, <2>8, <2>9 DEF UnifyInv
<1>10. QED
  BY <1>8, <1>9

LEMMA UnifyKeepsUnify ==
  ASSUME UnifyInv, Unify
  PROVE  UnifyInv'
<1> DEFINE m == addressMasks[current]
           Old(i) == IsVisited(i)
<1>1. /\ pc = "unify" /\ current <= Len(addressMasks) /\ current' = current + 1
      /\ UNCHANGED <<physicalAddresses, maxMaskBits, errorPercentage, addressMasks, pc, success>>
      /\ addressBitMasksForBanks' = IF IsNew(m) THEN Append(addressBitMasksForBanks, m)
                                    ELSE addressBitMasksForBanks
  BY DEF Unify, inputs
<1>2. /\ current \in DOMAIN addressMasks /\ m \in Masks
      /\ IsNew(m) => m \notin Kept
      /\ m # {} => (IsNew(m) <=> m \notin Span(Kept))
      /\ ~ IsNew(m) => m \in Span(Kept)
      /\ current = 1 => ~ IsNew(m)
      /\ current # 1 => (IsNew(m) <=> NewAt(current))
  BY <1>1, LoopDecides
<1>3. /\ TypesRight /\ ListIsSorted /\ LoopRight /\ KeptAreNew /\ KeptDistinct
      /\ Independent(Kept) /\ VisitedSpanned /\ Kept \subseteq Masks
      /\ current \in Nat \ {0} /\ addressBitMasksForBanks \in Seq(Masks)
  BY DEF UnifyInv, TypesRight, Kept, ToSet
<1>4. /\ DOMAIN addressMasks = 1 .. Len(addressMasks) /\ Len(addressMasks) \in Nat
      /\ \A i \in DOMAIN addressMasks : addressMasks[i] \in Masks
  BY <1>1, <1>3, ListIs
<1>5. \A i : IsVisited(i)' <=> IsVisited(i) \/ i = current
  <2>1. \A i \in DOMAIN addressMasks : i < current + 1 <=> i < current \/ i = current
    BY <1>3, <1>4
  <2>2. QED
    BY <1>1, <1>2, <2>1 DEF IsVisited
<1>6. \A i : NewAt(i)' <=> NewAt(i)
  BY <1>1 DEF NewAt
<1>7. /\ Kept' = IF IsNew(m) THEN Kept \cup {m} ELSE Kept
      /\ KeptDistinct' /\ addressBitMasksForBanks' \in Seq(Masks)
  <2>1. CASE IsNew(m)
    <3>1. m \notin Kept
      BY <1>2, <2>1
    <3> HIDE DEF m
    <3>2. ToSet(Append(addressBitMasksForBanks, m)) = Kept \cup {m}
      BY <1>2, <1>3, AppendSet DEF Kept
    <3>3. Distinct(Append(addressBitMasksForBanks, m))
      BY <1>2, <1>3, <3>1, AppendSet DEF Kept, KeptDistinct
    <3>4. QED
      BY <1>1, <1>2, <1>3, <2>1, <3>2, <3>3 DEF Kept, KeptDistinct
  <2>2. CASE ~ IsNew(m)
    BY <1>1, <1>3, <2>2 DEF Kept, KeptDistinct
  <2>3. QED
    BY <2>1, <2>2
<1>8. TypesRight' /\ LoopRight' /\ ListIsSorted' /\ SuccessIsCount'
  <2>1. TypesRight'
    BY <1>1, <1>3, <1>7 DEF TypesRight
  <2>2. LoopRight'
    BY <1>1, <1>3, <1>4 DEF LoopRight
  <2>3. ListIsSorted' /\ SuccessIsCount'
    BY <1>1, <1>3 DEF ListIsSorted, SuccessIsCount, FoundMasks
  <2>4. QED
    BY <2>1, <2>2, <2>3
<1>9. KeptAreNew'
  <2>1. current = 1 => IsVisited(current)
    BY <1>2 DEF IsVisited
  <2> HIDE DEF m
  <2>2. ASSUME NEW x
        PROVE  x \in Kept' <=> \E i \in DOMAIN addressMasks :
                                 (IsVisited(i) \/ i = current) /\ NewAt(i) /\ x = addressMasks[i]
    <3>1. x \in Kept' <=> x \in Kept \/ (IsNew(m) /\ x = m)
      BY <1>7
    <3>2. x \in Kept <=> \E i \in DOMAIN addressMasks :
                           IsVisited(i) /\ NewAt(i) /\ x = addressMasks[i]
      BY <1>3 DEF KeptAreNew
    <3>3. m = addressMasks[current]
      BY DEF m
    <3>4. CASE current = 1
      BY <1>2, <2>1, <3>1, <3>2, <3>4
    <3>5. CASE current # 1
      BY <1>2, <3>1, <3>2, <3>3, <3>5
    <3>6. QED
      BY <3>4, <3>5
  <2>3. QED
    BY <1>1, <1>5, <1>6, <2>2 DEF KeptAreNew
<1>10. Independent(Kept)'
  <2>1. CASE IsNew(m)
    <3> HIDE DEF m
    <3>1. ASSUME NEW M \in SUBSET ((Kept \cup {m}) \ {{}}), M # {}
          PROVE  SumOf(M) # {}
      <4>1. CASE m \notin M
        <5>1. M \in (SUBSET (Kept \ {{}})) \ {{}}
          BY <3>1, <4>1
        <5>2. QED
          BY <1>3, <5>1 DEF Independent
      <4>2. CASE m \in M
        <5> DEFINE N == M \ {m}
        <5>1. N \in SUBSET Kept /\ N \subseteq Masks /\ m \notin N /\ M = N \cup {m} /\ m # {}
          BY <1>3, <3>1, <4>2
        <5> HIDE DEF N
        <5>2. SumOf(M) = Xor(SumOf(N), m)
          BY <1>2, <5>1, SumOfMore
        <5>3. SumOf(N) # m
          BY <1>2, <2>1, <5>1 DEF Span
        <5>4. QED
          BY <5>2, <5>3 DEF Xor
      <4>3. QED
        BY <4>1, <4>2
    <3>2. QED
      BY <1>7, <2>1, <3>1 DEF Independent
  <2>2. CASE ~ IsNew(m)
    BY <1>3, <1>7, <2>2 DEF Independent
  <2>3. QED
    BY <2>1, <2>2
<1>11. VisitedSpanned'
  <2> HIDE DEF m
  <2>1. Span(Kept) \subseteq Span(Kept') /\ Kept' \subseteq Masks
    <3>1. Kept \subseteq Kept' /\ Kept' \subseteq Masks
      BY <1>2, <1>3, <1>7
    <3>2. QED
      BY <3>1, SpanGrows
  <2>2. m \in Span(Kept')
    <3>1. CASE IsNew(m)
      <4>1. m \in Kept'
        BY <1>7, <3>1
      <4>2. QED
        BY <2>1, <4>1, SpanHas
    <3>2. CASE ~ IsNew(m)
      BY <1>2, <2>1, <3>2
    <3>3. QED
      BY <3>1, <3>2
  <2>3. \A i \in DOMAIN addressMasks : IsVisited(i) \/ i = current => addressMasks[i] \in Span(Kept')
    BY <1>3, <2>1, <2>2 DEF VisitedSpanned, m
  <2>4. QED
    BY <1>1, <1>5, <2>3 DEF VisitedSpanned
<1>12. QED
  BY <1>7, <1>8, <1>9, <1>10, <1>11 DEF UnifyInv

LEMMA UnifyInvariant ==
  Spec => []UnifyInv
<1>1. Init => UnifyInv
  BY InitUnify
<1>2. UnifyInv /\ [Next]_vars => UnifyInv'
  <2> SUFFICES ASSUME UnifyInv, [Next]_vars PROVE UnifyInv'
    OBVIOUS
  <2>1. CASE Sort
    BY <2>1, SortKeepsUnify
  <2>2. CASE Unify
    BY <2>2, UnifyKeepsUnify
  <2>3. CASE LogOrthogonality
    <3>1. /\ pc = "unify" /\ pc' = "verdict" /\ current = Len(addressMasks) + 1
          /\ UNCHANGED <<physicalAddresses, maxMaskBits, errorPercentage, addressMasks,
                         addressBitMasksForBanks, current, success>>
      BY <2>3 DEF LogOrthogonality, inputs
    <3>2. TypesRight' /\ ListIsSorted' /\ LoopRight' /\ SuccessIsCount'
      BY <3>1 DEF UnifyInv, TypesRight, ListIsSorted, LoopRight, SuccessIsCount, FoundMasks
    <3>3. KeptAreNew' /\ KeptDistinct' /\ Independent(Kept)' /\ VisitedSpanned'
      BY <3>1 DEF UnifyInv, KeptAreNew, KeptDistinct, Independent, VisitedSpanned, Kept,
                  IsVisited, NewAt
    <3>4. QED
      BY <3>2, <3>3 DEF UnifyInv
  <2>4. CASE Verdict
    <3>1. /\ pc = "verdict" /\ pc' = "returned"
          /\ success' = (2^Len(addressBitMasksForBanks) = Len(physicalAddresses))
          /\ UNCHANGED <<physicalAddresses, maxMaskBits, errorPercentage, addressMasks,
                         addressBitMasksForBanks, current>>
      BY <2>4 DEF Verdict, BanksFor, inputs
    <3>2. TypesRight' /\ ListIsSorted' /\ LoopRight'
      BY <3>1 DEF UnifyInv, TypesRight, ListIsSorted, LoopRight, FoundMasks
    <3>3. SuccessIsCount'
      BY <3>1 DEF SuccessIsCount
    <3>4. KeptAreNew' /\ KeptDistinct' /\ Independent(Kept)' /\ VisitedSpanned'
      BY <3>1 DEF UnifyInv, KeptAreNew, KeptDistinct, Independent, VisitedSpanned, Kept,
                  IsVisited, NewAt
    <3>5. QED
      BY <3>2, <3>3, <3>4 DEF UnifyInv
  <2>5. CASE UNCHANGED vars
    <3>1. UNCHANGED <<physicalAddresses, maxMaskBits, errorPercentage, addressMasks,
                      addressBitMasksForBanks, pc, current, success>>
      BY <2>5 DEF vars, inputs
    <3>2. TypesRight' /\ ListIsSorted' /\ LoopRight' /\ SuccessIsCount'
      BY <3>1 DEF UnifyInv, TypesRight, ListIsSorted, LoopRight, SuccessIsCount, FoundMasks
    <3>3. KeptAreNew' /\ KeptDistinct' /\ Independent(Kept)' /\ VisitedSpanned'
      BY <3>1 DEF UnifyInv, KeptAreNew, KeptDistinct, Independent, VisitedSpanned, Kept,
                  IsVisited, NewAt
    <3>4. QED
      BY <3>2, <3>3 DEF UnifyInv
  <2>6. QED
    BY <2>1, <2>2, <2>3, <2>4, <2>5 DEF Next
<1>3. QED
  BY <1>1, <1>2, PTL DEF Spec

-----------------------------------------------------------------------------

LEMMA KeptFound ==
  ASSUME UnifyInv
  PROVE  Kept \subseteq FoundMasks
<1>1. TypesRight /\ ListIsSorted /\ LoopRight /\ KeptAreNew
  BY DEF UnifyInv
<1>2. CASE pc = "sort"
  BY <1>1, <1>2 DEF LoopRight, Kept, ToSet
<1>3. CASE pc # "sort"
  <2>1. ToSet(addressMasks) = FoundMasks
    BY <1>1, <1>3, ListIs
  <2>2. QED
    BY <1>1, <2>1 DEF KeptAreNew, ToSet
<1>4. QED
  BY <1>2, <1>3

(* checkMask takes the 0 for a function when no group has an address left, *)
(* and only then: every group with an address counts to its zeros.         *)
LEMMA ZeroFound ==
  ASSUME physicalAddresses \in Seq(Seq(Masks)), errorPercentage \in 1 .. 100,
         {} \in FoundMasks
  PROVE  \A k \in DOMAIN physicalAddresses : physicalAddresses[k] = << >>
<1> DEFINE groups == physicalAddresses
           measured == {k \in DOMAIN groups : groups[k] # << >>}
           ones == {k \in measured : CountsAsOne(groups[k], {}, errorPercentage)}
<1>1. Cardinality(ones) = Cardinality(measured \ ones)
  BY DEF FoundMasks, Found, Accepts
<1>2. \A a : BankBit(a, {}) = 0
  BY FS_EmptySet DEF BankBit
<1>3. \A g : Errors(g, {}) = 0
  BY <1>2, FS_EmptySet DEF Errors
<1>4. \A g \in Seq(Masks) : ~ CountsAsOne(g, {}, errorPercentage)
  <2> SUFFICES ASSUME NEW g \in Seq(Masks)
               PROVE  ~ (0 > MaxErrors(g, errorPercentage))
    BY <1>2, <1>3 DEF CountsAsOne
  <2>1. Len(g) * errorPercentage \in Nat
    OBVIOUS
  <2>2. QED
    BY <2>1 DEF MaxErrors
<1>5. ones = {}
  BY <1>4
<1>6. IsFiniteSet(measured)
  <2>1. IsFiniteSet(1 .. Len(groups)) /\ measured \subseteq 1 .. Len(groups)
    BY IntervalSize
  <2> HIDE DEF measured
  <2>2. QED
    BY <2>1, FS_Subset
<1> HIDE DEF measured, ones
<1>7. measured = {}
  BY <1>1, <1>5, <1>6, FS_EmptySet
<1>8. QED
  BY <1>7 DEF measured

LEMMA KeptSize ==
  ASSUME UnifyInv
  PROVE  IsFiniteSet(Kept) /\ Cardinality(Kept) = Len(addressBitMasksForBanks)
<1> DEFINE s == addressBitMasksForBanks
           n == Len(s)
<1>1. s \in Seq(Masks) /\ Distinct(s)
  BY DEF UnifyInv, TypesRight, KeptDistinct
<1>2. /\ n \in Nat /\ s \in [1 .. n -> Masks] /\ DOMAIN s = 1 .. n
      /\ \A i, j \in 1 .. n : i < j => s[i] # s[j]
  <2>1. n \in Nat /\ s \in [1 .. n -> Masks] /\ DOMAIN s = 1 .. n
    BY <1>1
  <2>2. \A i, j \in 1 .. n : i < j => i # j
    BY <2>1
  <2>3. QED
    BY <1>1, <2>1, <2>2 DEF Distinct
<1>3. Kept = Range(s)
  BY DEF Kept, ToSet, Range
<1>4. IsFiniteSet(Kept)
  <2>1. Kept \subseteq Masks
    BY <1>2, <1>3 DEF Range
  <2>2. QED
    BY <2>1, MasksFinite
<1> HIDE DEF s, n
<1>5. Cardinality(Kept) = n
  BY <1>2, <1>3, EnumerationCovers
<1>6. QED
  BY <1>4, <1>5 DEF s, n

(* No mask kept is a sum of other masks kept: the loop of                  *)
(* setUnifiedAddressMasks keeps a mask only when sums lacks it.  It keeps  *)
(* 0 only when no group has an address left.                               *)
THEOREM UnificationIsIndependent ==
  Spec => []KeptIndependent
<1>1. UnifyInv => KeptIndependent
  <2> SUFFICES ASSUME UnifyInv PROVE KeptIndependent
    OBVIOUS
  <2>1. Independent(Kept)
    BY DEF UnifyInv
  <2>2. {} \in Kept => \A k \in DOMAIN physicalAddresses : physicalAddresses[k] = << >>
    <3> HAVE {} \in Kept
    <3>1. {} \in FoundMasks
      BY KeptFound
    <3>2. QED
      BY <3>1, ZeroFound DEF UnifyInv, TypesRight
  <2>3. QED
    BY <2>1, <2>2, KeptSize DEF KeptIndependent, Independent
<1>2. QED
  BY <1>1, UnifyInvariant, PTL

(* When the loop is over, every mask that a thread found is a sum of masks *)
(* kept: none was dropped that was needed.                                 *)
THEOREM UnificationForgetsNothing ==
  Spec => []KeptSpansFound
<1>1. UnifyInv => KeptSpansFound
  <2> SUFFICES ASSUME UnifyInv, pc \in {"verdict", "returned"}, NEW m \in FoundMasks
               PROVE  \E masks \in SUBSET Kept : SumOf(masks) = m
    BY DEF KeptSpansFound
  <2>1. /\ TypesRight /\ ListIsSorted /\ VisitedSpanned
        /\ current = Len(addressMasks) + 1 /\ pc # "sort"
    BY DEF UnifyInv, LoopRight
  <2>2. /\ m \in ToSet(addressMasks)
        /\ DOMAIN addressMasks = 1 .. Len(addressMasks) /\ Len(addressMasks) \in Nat
    BY <2>1, ListIs
  <2>3. PICK i \in DOMAIN addressMasks : m = addressMasks[i]
    BY <2>2 DEF ToSet
  <2>4. IsVisited(i)
    BY <2>1, <2>2 DEF IsVisited
  <2>5. m \in Span(Kept)
    BY <2>1, <2>3, <2>4 DEF VisitedSpanned
  <2>6. QED
    BY <2>5 DEF Span
<1>2. QED
  BY <1>1, UnifyInvariant, PTL

(* Which masks are kept does not depend on the order in which the threads  *)
(* found them: sort brings the numerically smaller ones to the front.      *)
THEOREM UnificationIgnoresSchedule ==
  Spec => []KeptIsScheduleIndependent
<1>1. UnifyInv => KeptIsScheduleIndependent
  <2> SUFFICES ASSUME UnifyInv, ComparableAsInt, pc \in {"verdict", "returned"}
               PROVE  Kept = {m \in FoundMasks :
                                m = {} \/ \A masks \in SUBSET {n \in FoundMasks : AsInt(n) < AsInt(m)} :
                                             SumOf(masks) # m}
    BY Zenon DEF KeptIsScheduleIndependent
  <2> DEFINE Smaller(m) == {n \in FoundMasks : AsInt(n) < AsInt(m)}
  <2>1. /\ TypesRight /\ ListIsSorted /\ KeptAreNew
        /\ current = Len(addressMasks) + 1 /\ pc # "sort"
    BY DEF UnifyInv, LoopRight
  <2>2. /\ ToSet(addressMasks) = FoundMasks
        /\ DOMAIN addressMasks = 1 .. Len(addressMasks) /\ Len(addressMasks) \in Nat
        /\ \A i \in DOMAIN addressMasks : addressMasks[i] \in Masks
        /\ \A i, j \in DOMAIN addressMasks :
             i < j => addressMasks[i] # addressMasks[j]
                      /\ AsInt(addressMasks[i]) <= AsInt(addressMasks[j])
    BY <2>1, ListIs
  <2>3. \A i \in DOMAIN addressMasks : addressMasks[i] \in FoundMasks
    BY <2>2 DEF ToSet
  <2>4. ASSUME NEW i \in DOMAIN addressMasks, NEW j \in DOMAIN addressMasks, i < j
        PROVE  AsInt(addressMasks[i]) < AsInt(addressMasks[j])
    <3>1. /\ addressMasks[i] \in Masks /\ addressMasks[j] \in Masks
          /\ addressMasks[i] # addressMasks[j]
          /\ AsInt(addressMasks[i]) <= AsInt(addressMasks[j])
      BY <2>2, <2>4
    <3>2. \A b \in addressMasks[i] \cup addressMasks[j] : b < IntBits
      BY <2>3 DEF ComparableAsInt
    <3>3. AsInt(addressMasks[i]) # AsInt(addressMasks[j])
      BY <3>1, <3>2, AsIntDiffers
    <3>4. AsInt(addressMasks[i]) \in Int /\ AsInt(addressMasks[j]) \in Int
      BY <3>1, AsIntIs
    <3>5. QED
      BY <3>1, <3>3, <3>4
  <2>5. ASSUME NEW j \in DOMAIN addressMasks
        PROVE  Smaller(addressMasks[j]) = Upto(addressMasks, j - 1)
    <3>1. \A i \in DOMAIN addressMasks : AsInt(addressMasks[i]) \in Int
      BY <2>2, AsIntIs
    <3>2. \A i : i \in 1 .. j - 1 <=> i \in DOMAIN addressMasks /\ i < j
      BY <2>2
    <3>3. ASSUME NEW i \in DOMAIN addressMasks
          PROVE  AsInt(addressMasks[i]) < AsInt(addressMasks[j]) <=> i < j
      <4>1. i < j \/ j < i \/ i = j
        BY <2>2
      <4>2. i \in Nat /\ j \in Nat
        BY <2>2
      <4>3. \A x, y \in Int : x < y => ~ (y < x) /\ ~ (x = y)
        OBVIOUS
      <4>4. QED
        BY <2>4, <3>1, <4>1, <4>2, <4>3
    <3>4. \A n : n \in Smaller(addressMasks[j]) <=>
                   \E i \in DOMAIN addressMasks : i < j /\ n = addressMasks[i]
      <4>1. \A n : n \in FoundMasks <=> \E i \in DOMAIN addressMasks : n = addressMasks[i]
        BY <2>2 DEF ToSet
      <4>2. QED
        BY <3>3, <4>1
    <3>5. \A n : n \in Upto(addressMasks, j - 1) <=>
                   \E i \in DOMAIN addressMasks : i < j /\ n = addressMasks[i]
      BY <3>2 DEF Upto
    <3> HIDE DEF Smaller
    <3>6. QED
      BY <3>4, <3>5, Zenon
  <2>6. \A m : NewAt(m) <=> addressMasks[m] = {} \/ addressMasks[m] \notin Span(Upto(addressMasks, m - 1))
    BY DEF NewAt
  <2>7. \A i \in DOMAIN addressMasks : IsVisited(i)
    BY <2>1, <2>2 DEF IsVisited
  <2>8. ASSUME NEW m
        PROVE  m \in Kept <=> m \in FoundMasks /\ (m = {} \/ m \notin Span(Smaller(m)))
    <3> HIDE DEF Smaller
    <3>1. m \in Kept <=> \E i \in DOMAIN addressMasks : NewAt(i) /\ m = addressMasks[i]
      BY <2>1, <2>7 DEF KeptAreNew
    <3>2. \A i \in DOMAIN addressMasks :
            NewAt(i) <=> addressMasks[i] = {} \/ addressMasks[i] \notin Span(Smaller(addressMasks[i]))
      BY <2>5, <2>6
    <3>3. m \in FoundMasks <=> \E i \in DOMAIN addressMasks : m = addressMasks[i]
      BY <2>2 DEF ToSet
    <3>4. QED
      BY <3>1, <3>2, <3>3
  <2>9. \A m : m \notin Span(Smaller(m)) <=> \A masks \in SUBSET Smaller(m) : SumOf(masks) # m
    <3> HIDE DEF Smaller
    <3>1. QED
      BY DEF Span
  <2>10. Kept = {m \in FoundMasks : m = {} \/ m \notin Span(Smaller(m))}
    <3> HIDE DEF Smaller
    <3>1. QED
      BY <2>8
  <2>11. Kept = {m \in FoundMasks : m = {} \/ \A masks \in SUBSET Smaller(m) : SumOf(masks) # m}
    <3> HIDE DEF Smaller
    <3>1. QED
      BY <2>9, <2>10
  <2>12. QED
    BY <2>11, Zenon
<1>2. QED
  BY <1>1, UnifyInvariant, PTL

-----------------------------------------------------------------------------
(* n masks that tell 2^n groups apart take every combination of values, so *)
(* any two of them agree on half of the groups.                            *)

(* The masks kept that are 1 for a group *)
Signature(k) == {m \in Kept : GroupVote(physicalAddresses[k], m) = 1}

(* Groups whose signatures differ in the mask a only *)
Flips(sig, D, a, P, Q) ==
  \A k \in P : \A l \in D : sig[l] = Xor(sig[k], {a}) => l \in Q

(* Every set of kept masks is the signature of one group. *)
Complete(sig, D) ==
  /\ sig \in [D -> SUBSET Kept]
  /\ \A k, l \in D : k # l => sig[k] # sig[l]
  /\ \A M \in SUBSET Kept : \E k \in D : sig[k] = M

(* Changing the value of one mask is a one-to-one map between groups. *)
LEMMA FlippingMatches ==
  ASSUME NEW D, IsFiniteSet(D), NEW sig, Complete(sig, D), NEW a \in Kept,
         NEW P, NEW Q, P \subseteq D, Q \subseteq D, Flips(sig, D, a, P, Q)
  PROVE  Cardinality(P) <= Cardinality(Q)
<1> DEFINE flip == [k \in P |-> CHOOSE l \in D : sig[l] = Xor(sig[k], {a})]
<1>1. ASSUME NEW k \in P
      PROVE  flip[k] \in Q /\ sig[flip[k]] = Xor(sig[k], {a})
  <2>1. Xor(sig[k], {a}) \in SUBSET Kept
    BY DEF Xor, Complete
  <2>2. \E l \in D : sig[l] = Xor(sig[k], {a})
    BY <2>1 DEF Complete
  <2>3. flip[k] \in D /\ sig[flip[k]] = Xor(sig[k], {a})
    BY <2>2
  <2> HIDE DEF flip
  <2>4. QED
    BY <2>3 DEF Flips
<1>2. flip \in [P -> Q]
  BY <1>1
<1> HIDE DEF flip
<1>3. ASSUME NEW k \in P, NEW l \in P, flip[k] = flip[l]
      PROVE  k = l
  <2>1. Xor(sig[k], {a}) = Xor(sig[l], {a})
    BY <1>1, <1>3
  <2>2. sig[k] = sig[l]
    BY <2>1 DEF Xor
  <2>3. QED
    BY <2>2 DEF Complete
<1>4. flip \in Injection(P, Q)
  BY <1>2, <1>3 DEF Injection, IsInjective
<1>5. IsFiniteSet(Q)
  BY FS_Subset
<1>6. QED
  BY <1>4, <1>5, FS_Injection

(* Success that tells all banks apart comes with masks that the log calls  *)
(* orthogonal, for any number of banks: what calculateBitMasks reports as  *)
(* a success although its masks are not orthogonal is no right result.     *)
THEOREM RightSuccessHalves ==
  Spec => []RightSuccessIsOrthogonal
<1>1. UnifyInv => RightSuccessIsOrthogonal
  <2> DEFINE groups == physicalAddresses
             s == addressBitMasksForBanks
             D == DOMAIN groups
             vote(k, m) == GroupVote(groups[k], m)
  <2> SUFFICES ASSUME UnifyInv, pc = "returned", success, AllToldApart,
                      NEW i \in DOMAIN s, NEW j \in DOMAIN s, i # j
               PROVE  2 * Cardinality({k \in D : vote(k, s[i]) = vote(k, s[j])}) = Len(groups)
    BY DEF RightSuccessIsOrthogonal, AreMasksOrthogonal, IsHalf
  <2>1. /\ 2^Len(s) = Len(groups) /\ Distinct(s)
        /\ groups \in Seq(Seq(Masks)) /\ s \in Seq(Masks)
    BY DEF UnifyInv, SuccessIsCount, TypesRight, KeptDistinct
  <2>2. IsFiniteSet(D) /\ Cardinality(D) = Len(groups) /\ Len(groups) \in Nat
    <3>1. D = 1 .. Len(groups) /\ Len(groups) \in Nat
      BY <2>1
    <3>2. QED
      BY <3>1, IntervalSize
  <2>3. s[i] \in Kept /\ s[j] \in Kept /\ s[i] # s[j]
    <3>1. s[i] # s[j]
      BY <2>1 DEF Distinct
    <3>2. QED
      BY <3>1 DEF Kept, ToSet
  <2>4. IsFiniteSet(Kept) /\ Cardinality(Kept) = Len(s)
    BY KeptSize
  <2> DEFINE sig == [k \in D |-> Signature(k)]
  <2>5. sig \in [D -> SUBSET Kept]
    BY DEF Signature
  <2>6. \A k, l \in D : k # l => sig[k] # sig[l]
    <3> SUFFICES ASSUME NEW k \in D, NEW l \in D, k # l
                 PROVE  Signature(k) # Signature(l)
      OBVIOUS
    <3>1. PICK m \in Kept : GroupVote(groups[k], m) # GroupVote(groups[l], m)
      BY DEF AllToldApart, TellsApart
    <3>2. \A g : GroupVote(g, m) \in {0, 1}
      BY DEF GroupVote
    <3>3. QED
      BY <3>1, <3>2 DEF Signature
  <2>7. IsFiniteSet(SUBSET Kept) /\ Cardinality(SUBSET Kept) = Cardinality(D)
    BY <2>1, <2>2, <2>4, FS_SUBSET
  <2> HIDE DEF sig
  <2>8. \A M \in SUBSET Kept : \E k \in D : sig[k] = M
    <3>1. sig \in Injection(D, SUBSET Kept)
      BY <2>5, <2>6 DEF Injection, IsInjective
    <3>2. sig \in Surjection(D, SUBSET Kept)
      BY <2>7, <3>1, FS_Injection
    <3>3. QED
      BY <3>2 DEF Surjection
  <2> DEFINE a == s[i]
             b == s[j]
             same == {k \in D : a \in sig[k] <=> b \in sig[k]}
             other == D \ same
  <2>9. a \in Kept /\ b \in Kept /\ a # b
    BY <2>3
  <2> HIDE DEF a, b
  <2>10. \A k \in D : \A l \in D : sig[l] = Xor(sig[k], {a}) => (k \in same <=> l \notin same)
    BY <2>9 DEF Xor
  <2>11. same \subseteq D /\ other \subseteq D /\ same \cap other = {} /\ D = same \cup other
    OBVIOUS
  <2>12. /\ \A k \in same : \A l \in D : sig[l] = Xor(sig[k], {a}) => l \in other
         /\ \A k \in other : \A l \in D : sig[l] = Xor(sig[k], {a}) => l \in same
    BY <2>10
  <2>13. {k \in D : vote(k, s[i]) = vote(k, s[j])} = same
    <3>1. ASSUME NEW k \in D
          PROVE  vote(k, s[i]) = vote(k, s[j]) <=> (a \in sig[k] <=> b \in sig[k])
      <4>1. \A m \in Kept : vote(k, m) \in {0, 1} /\ (m \in sig[k] <=> vote(k, m) = 1)
        BY DEF sig, Signature, GroupVote
      <4>2. vote(k, a) \in {0, 1} /\ vote(k, b) \in {0, 1}
            /\ (a \in sig[k] <=> vote(k, a) = 1) /\ (b \in sig[k] <=> vote(k, b) = 1)
        BY <2>9, <4>1
      <4> HIDE DEF vote
      <4>3. vote(k, a) = vote(k, b) <=> (a \in sig[k] <=> b \in sig[k])
        BY <4>2
      <4>4. QED
        BY <4>3 DEF a, b
    <3>2. QED
      BY <3>1
  <2> HIDE DEF same, other, D
  <2>14. Complete(sig, D) /\ Flips(sig, D, a, same, other) /\ Flips(sig, D, a, other, same)
    BY <2>5, <2>6, <2>8, <2>12 DEF Complete, Flips
  <2>15. Cardinality(same) <= Cardinality(other)
    BY <2>2, <2>9, <2>11, <2>14, FlippingMatches
  <2>16. Cardinality(other) <= Cardinality(same)
    BY <2>2, <2>9, <2>11, <2>14, FlippingMatches
  <2>17. /\ Cardinality(same) \in Nat /\ Cardinality(other) \in Nat
         /\ Cardinality(D) = Cardinality(same) + Cardinality(other)
    <3>1. IsFiniteSet(same) /\ IsFiniteSet(other)
      BY <2>2, <2>11, FS_Subset
    <3>2. QED
      BY <2>11, <3>1, DisjointSize
  <2>18. 2 * Cardinality(same) = Len(groups)
    <3> DEFINE x == Cardinality(same)
               y == Cardinality(other)
    <3>1. x \in Nat /\ y \in Nat /\ x <= y /\ y <= x /\ Len(groups) = x + y
      BY <2>2, <2>15, <2>16, <2>17
    <3> HIDE DEF x, y
    <3>2. 2 * x = Len(groups)
      BY <3>1
    <3>3. QED
      BY <3>2 DEF x
  <2>19. QED
    BY <2>13, <2>18
<1>2. QED
  BY <1>1, UnifyInvariant, PTL

=============================================================================
