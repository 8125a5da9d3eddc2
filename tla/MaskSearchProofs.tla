-------------------------- MODULE MaskSearchProofs --------------------------
(***************************************************************************)
(* Proofs about MaskSearch for any number of candidates, threads and any   *)
(* stride.  The inductive invariant says who holds the mutex, which        *)
(* candidates each thread walks through, and that a valid candidate is in  *)
(* the vector exactly when a thread that owns it is past it.               *)
(***************************************************************************)
EXTENDS MaskSearch, TLAPS

(* The candidates of one thread. *)
Share(t) == {p \in Positions : \E k \in Nat : p = t + k * Stride}

(* Every thread ends with the mask 0, which is checked like a candidate. *)
Walk(t) == Share(t) \cup {NoCandidate}

(* The thread has dealt with candidate p and left the critical section or, *)
(* if it is still inside, has already pushed it.                           *)
Past(t, p) ==
  /\ state[t] = 1
  /\ \/ p < maskCandidate[t]
     \/ p = maskCandidate[t] /\ pc[t] \in {"scan", "unlock", "done"}

MutexInv ==
  \A t \in Threads :
    /\ pc[t] \in {"load", "store", "unlock"} <=> mutex = t
    /\ pc[t] = "store" => seen[t] = validMasks

WalkInv ==
  \A t \in Threads :
    /\ pc[t] = "idle" => state[t] = 0
    /\ state[t] = 0 => maskCandidate[t] = 0 /\ pc[t] \in {"idle", "scan"}
    /\ state[t] = 1 => maskCandidate[t] \in Walk(t)
    /\ pc[t] \in {"lock", "load", "store", "unlock"} => maskCandidate[t] \in Valid
    /\ pc[t] = "done" => maskCandidate[t] = NoCandidate
    /\ maskCandidate[t] = NoCandidate => pc[t] \notin {"idle", "scan"}

FoundInv ==
  /\ \A t \in Threads : \A p \in Valid \cap Walk(t) : Past(t, p) => p \in Found
  /\ \A p \in Found : \E t \in Threads : p \in Walk(t) /\ Past(t, p)

MainInv ==
  /\ mainPc = "create" => \A t \in Threads : t >= mainIdx => pc[t] = "idle"
  /\ mainPc = "join" => \A t \in Threads : t < mainIdx => pc[t] = "done"
  /\ mainPc \in {"unify", "done"} => \A t \in Threads : pc[t] = "done"

IInv == TypeOK /\ MutexInv /\ WalkInv /\ FoundInv /\ MainInv /\ ReportedOnce

-----------------------------------------------------------------------------
(* Arithmetic of the strides. *)

(* Of two multiples of the stride, the one with the larger factor is at    *)
(* least a stride ahead: neighbouring candidates of a thread.              *)
LEMMA StrideStep ==
  ASSUME NEW j \in Nat, NEW k \in Nat, k < j
  PROVE  k * Stride + Stride <= j * Stride
<1>1. PICK d \in Nat : j = k + 1 + d
  <2>1. j - k - 1 \in Nat /\ j = k + 1 + (j - k - 1)
    OBVIOUS
  <2>2. QED
    BY <2>1
<1>2. j * Stride = k * Stride + Stride + d * Stride
  BY <1>1, SearchAssumption
<1>3. d * Stride >= 0
  BY SearchAssumption
<1>4. QED
  BY <1>2, <1>3, SearchAssumption

(* A thread leaves out none of its candidates when it advances.            *)
LEMMA NoneBetween ==
  ASSUME NEW t \in Threads, NEW p \in Share(t), NEW c \in Share(t), p < c + Stride
  PROVE  p <= c
<1>1. PICK j \in Nat : p = t + j * Stride
  BY DEF Share
<1>2. PICK k \in Nat : c = t + k * Stride
  BY DEF Share
<1>3. CASE k < j
  <2>1. k * Stride + Stride <= j * Stride
    BY <1>3, StrideStep
  <2>2. t \in Int /\ j * Stride \in Int /\ k * Stride \in Int /\ Stride \in Int
    BY SearchAssumption DEF Threads
  <2>3. QED
    BY <1>1, <1>2, <2>1, <2>2
<1>4. CASE j <= k
  <2>1. j = k \/ j * Stride + Stride <= k * Stride
    BY <1>4, StrideStep
  <2>2. t \in Int /\ j * Stride \in Int /\ k * Stride \in Int /\ Stride \in Nat
    BY SearchAssumption DEF Threads
  <2>3. QED
    BY <1>1, <1>2, <2>1, <2>2
<1>5. QED
  BY <1>3, <1>4

(* The next candidate of a thread is the next one of its share.            *)
LEMMA ShareStep ==
  ASSUME NEW t \in Threads, NEW c \in Share(t), c + Stride < NCandidates
  PROVE  c + Stride \in Share(t)
<1>1. PICK k \in Nat : c = t + k * Stride
  BY DEF Share
<1>2. c + Stride = t + (k + 1) * Stride
  BY <1>1, SearchAssumption DEF Threads
<1>3. c + Stride \in Positions
  <2>1. c \in Positions
    BY DEF Share
  <2>2. QED
    BY <2>1, SearchAssumption, NCandidatesAssumption DEF Positions
<1>4. QED
  BY <1>2, <1>3 DEF Share

(* With a stride at least as wide as there are threads, no two threads     *)
(* share a candidate.                                                      *)
LEMMA SharesDisjoint ==
  ASSUME Stride >= NThreads, NEW t \in Threads, NEW u \in Threads,
         NEW p \in Share(t), p \in Share(u)
  PROVE  t = u
<1>1. PICK j \in Nat : p = t + j * Stride
  BY DEF Share
<1>2. PICK k \in Nat : p = u + k * Stride
  BY DEF Share
<1>3. t \in Nat /\ u \in Nat /\ t < Stride /\ u < Stride
  BY SearchAssumption DEF Threads
<1>4. j * Stride \in Int /\ k * Stride \in Int
  BY SearchAssumption
<1>5. ~(j < k)
  BY <1>1, <1>2, <1>3, <1>4, StrideStep, SearchAssumption
<1>6. ~(k < j)
  BY <1>1, <1>2, <1>3, <1>4, StrideStep, SearchAssumption
<1>7. j = k
  BY <1>5, <1>6
<1>8. QED
  BY <1>1, <1>2, <1>3, <1>4, <1>7

(* With at least as many threads as the stride is wide, every candidate    *)
(* belongs to a thread.                                                    *)
LEMMA SharesCover ==
  ASSUME NThreads >= Stride, NEW p \in Positions
  PROVE  \E t \in Threads : p \in Share(t)
<1>1. p \in Nat /\ Stride \in Nat \ {0}
  BY SearchAssumption, NCandidatesAssumption DEF Positions
<1>2. p % Stride \in 0 .. Stride - 1 /\ p \div Stride \in Nat
  BY <1>1
<1>3. p = (p % Stride) + (p \div Stride) * Stride
  BY <1>1
<1>4. p % Stride \in Threads
  BY <1>2, SearchAssumption DEF Threads
<1>5. QED
  BY <1>2, <1>3, <1>4 DEF Share

-----------------------------------------------------------------------------
(* Type correctness. *)

LEMMA ConstantTypes ==
  /\ 0 \in Threads /\ Nobody \notin Threads
  /\ Threads \subseteq Nat /\ Positions \subseteq Nat
  /\ NoCandidate \in Nat \ {0} /\ NoCandidate \notin Positions
  /\ Valid \subseteq Positions \cup {NoCandidate} /\ Valid \subseteq Nat
  /\ Stride \in Nat \ {0} /\ NThreads \in Nat \ {0} /\ NCandidates \in Nat \ {0}
BY SearchAssumption, NCandidatesAssumption
   DEF Threads, Nobody, Positions, NoCandidate

LEMMA NextThread ==
  ASSUME NEW t \in Threads, t + 1 < NThreads
  PROVE  t + 1 \in Threads
BY SearchAssumption DEF Threads

(* The next candidate is further on, and a candidate or NoCandidate. *)
LEMMA AdvanceType ==
  ASSUME NEW c \in 0 .. NCandidates, NEW n \in Nat
  PROVE  Advance(c, n) \in 0 .. NCandidates
BY ConstantTypes DEF Advance, NoCandidate

LEMMA InitType == Init => TypeOK
BY ConstantTypes DEF Init, TypeOK

LEMMA NextType == TypeOK /\ WalkInv /\ [Next]_vars => TypeOK'
<1> SUFFICES ASSUME TypeOK, WalkInv, [Next]_vars
             PROVE  TypeOK'
  OBVIOUS
<1> USE ConstantTypes DEF TypeOK
<1>1. CASE Create
  <2>1. mainIdx' \in Threads
    BY <1>1, NextThread DEF Create
  <2>2. QED
    BY <1>1, <2>1 DEF Create
<1>2. ASSUME NEW t \in Threads, Scan(t)
      PROVE  TypeOK'
  <2> DEFINE n == IF state[t] = 0 THEN t ELSE Stride
             next == Advance(maskCandidate[t], n)
  <2>1. next \in 0 .. NCandidates
    <3>1. n \in Nat /\ maskCandidate[t] \in 0 .. NCandidates
      OBVIOUS
    <3>2. QED
      BY <3>1, AdvanceType
  <2>2. maskCandidate' \in [Threads -> 0 .. NCandidates]
    BY <1>2, <2>1 DEF Scan, Skip, IsValid
  <2>3. pc' \in [Threads -> {"idle", "scan", "lock", "load", "store", "unlock", "done"}]
    BY <1>2 DEF Scan, Skip, IsValid, LoopTest
  <2>4. state' \in [Threads -> {0, 1}]
    BY <1>2 DEF Scan, Skip, IsValid
  <2>5. QED
    BY <1>2, <2>2, <2>3, <2>4 DEF Scan, Skip, IsValid
<1>3. ASSUME NEW t \in Threads, Lock(t)
      PROVE  TypeOK'
  BY <1>3 DEF Lock, MayLock
<1>4. ASSUME NEW t \in Threads, Load(t)
      PROVE  TypeOK'
  BY <1>4 DEF Load
<1>5. ASSUME NEW t \in Threads, Store(t)
      PROVE  TypeOK'
  <2>1. maskCandidate[t] \in Valid
    BY <1>5 DEF Store, WalkInv
  <2>2. validMasks' \in Seq(Valid)
    BY <1>5, <2>1 DEF Store
  <2>3. QED
    BY <1>5, <2>2 DEF Store
<1>6. ASSUME NEW t \in Threads, Unlock(t)
      PROVE  TypeOK'
  BY <1>6 DEF Unlock, Released, LoopTest
<1>7. CASE Join
  <2>1. mainIdx' \in Threads
    BY <1>7, NextThread DEF Join, MayJoin
  <2>2. QED
    BY <1>7, <2>1 DEF Join, MayJoin
<1>8. CASE Unify
  BY <1>8 DEF Unify
<1>9. CASE UNCHANGED vars
  BY <1>9 DEF vars
<1>10. QED
  BY <1>1, <1>2, <1>3, <1>4, <1>5, <1>6, <1>7, <1>8, <1>9 DEF Next, Main, Thread

-----------------------------------------------------------------------------
(* What single actions do to the terms of the invariant. *)

(* A push adds the candidate of the thread and keeps everything else.      *)
LEMMA StorePushes ==
  ASSUME TypeOK, MutexInv, NEW t \in Threads, Store(t)
  PROVE  /\ validMasks' = Append(validMasks, maskCandidate[t])
         /\ Found' = Found \cup {maskCandidate[t]}
<1>1. validMasks' = Append(validMasks, maskCandidate[t])
  BY DEF Store, MutexInv
<1>2. validMasks \in Seq(Valid)
  BY DEF TypeOK
<1>3. /\ DOMAIN validMasks' = DOMAIN validMasks \cup {Len(validMasks) + 1}
      /\ \A i \in DOMAIN validMasks : validMasks'[i] = validMasks[i]
      /\ validMasks'[Len(validMasks) + 1] = maskCandidate[t]
  BY <1>1, <1>2
<1>4. QED
  BY <1>1, <1>3 DEF Found

(* What Scan(t) makes of the candidate of t. *)
LEMMA ScanMoves ==
  ASSUME TypeOK, WalkInv, NEW t \in Threads, Scan(t)
  PROVE  /\ state[t] = 0 => maskCandidate'[t] = (IF t < NCandidates THEN t ELSE NoCandidate)
         /\ state[t] = 1 =>
              /\ maskCandidate[t] \in Share(t)
              /\ maskCandidate'[t] = (IF maskCandidate[t] + Stride < NCandidates
                                      THEN maskCandidate[t] + Stride ELSE NoCandidate)
         /\ maskCandidate'[t] \in Walk(t)
         /\ state'[t] = 1
         /\ pc'[t] = (IF maskCandidate'[t] \in Valid THEN "lock"
                      ELSE IF maskCandidate'[t] = NoCandidate THEN "done" ELSE "scan")
<1>1. /\ state'[t] = 1
      /\ maskCandidate'[t] = Advance(maskCandidate[t], IF state[t] = 0 THEN t ELSE Stride)
      /\ pc'[t] = IF maskCandidate'[t] \in Valid THEN "lock"
                  ELSE IF maskCandidate'[t] = NoCandidate THEN "done" ELSE "scan"
  BY DEF Scan, Skip, IsValid, TypeOK, LoopTest
<1>2. state[t] \in {0, 1}
  BY DEF TypeOK
<1>3. CASE state[t] = 0
  <2>1. maskCandidate[t] = 0
    BY <1>3 DEF WalkInv
  <2>2. maskCandidate'[t] = IF t < NCandidates THEN t ELSE NoCandidate
    BY <1>1, <1>3, <2>1, ConstantTypes DEF Advance
  <2>3. t < NCandidates => t \in Share(t)
    <3>1. t \in Nat /\ t = t + 0 * Stride
      BY ConstantTypes
    <3>2. t < NCandidates => t \in Positions
      BY ConstantTypes, <3>1 DEF Positions
    <3>3. QED
      BY <3>1, <3>2 DEF Share
  <2>4. QED
    BY <1>1, <1>3, <2>2, <2>3 DEF Walk
<1>4. CASE state[t] = 1
  <2>1. maskCandidate[t] \in Share(t)
    <3>1. pc[t] = "scan"
      BY DEF Scan, Skip, IsValid
    <3>2. QED
      BY <1>4, <3>1 DEF WalkInv, Walk
  <2>2. maskCandidate'[t] = IF maskCandidate[t] + Stride < NCandidates
                            THEN maskCandidate[t] + Stride ELSE NoCandidate
    BY <1>1, <1>4 DEF Advance
  <2>3. QED
    BY <1>1, <1>4, <2>1, <2>2, ShareStep DEF Walk
<1>5. QED
  BY <1>2, <1>3, <1>4

(* Scan(t) passes by no valid candidate of the thread and leaves behind    *)
(* every one that the thread has passed before.                            *)
LEMMA ScanPast ==
  ASSUME TypeOK, WalkInv, NEW t \in Threads, Scan(t), NEW p \in Valid \cap Walk(t)
  PROVE  Past(t, p)' <=> Past(t, p)
<1> DEFINE c == maskCandidate[t]
           d == maskCandidate'[t]
<1>1. p \in Nat /\ p <= NCandidates /\ NoCandidate = NCandidates
  BY ConstantTypes DEF Walk, Share, Positions, NoCandidate
<1>2. /\ state[t] \in {0, 1} /\ state'[t] = 1 /\ c \in 0 .. NCandidates /\ pc[t] = "scan"
      /\ d \in 0 .. NCandidates
  <2>1. d \in Walk(t)
    BY ScanMoves
  <2>2. Walk(t) \subseteq 0 .. NCandidates
    BY ConstantTypes DEF Walk, Share, Positions, NoCandidate
  <2>3. state[t] \in {0, 1} /\ state'[t] = 1 /\ c \in 0 .. NCandidates /\ pc[t] = "scan"
    BY DEF TypeOK, Scan
  <2>4. QED
    BY <2>1, <2>2, <2>3
<1>3. pc'[t] = IF d \in Valid THEN "lock" ELSE IF d = NoCandidate THEN "done" ELSE "scan"
  BY ScanMoves
<1>4. p = d => pc'[t] = "lock"
  BY <1>3
<1>5. c # NoCandidate
  BY <1>2 DEF WalkInv
<1>6. p = NoCandidate => ~Past(t, p) /\ ~Past(t, p)'
  BY <1>1, <1>2, <1>4, <1>5 DEF Past
<1>7. ASSUME p # NoCandidate, state[t] = 0
      PROVE  ~Past(t, p)'
  <2>1. d = IF t < NCandidates THEN t ELSE NoCandidate
    BY <1>7, ScanMoves
  <2>2. t <= p
    <3>1. PICK k \in Nat : p = t + k * Stride
      BY <1>7 DEF Walk, Share
    <3>2. k * Stride \in Nat
      BY ConstantTypes
    <3>3. QED
      BY <3>1, <3>2, ConstantTypes
  <2>3. d = t
    BY <1>1, <1>7, <2>1, <2>2, ConstantTypes
  <2>4. QED
    BY <1>1, <1>4, <2>2, <2>3, ConstantTypes DEF Past
<1>8. ASSUME p # NoCandidate, state[t] = 1
      PROVE  Past(t, p)' <=> Past(t, p)
  <2>1. /\ c \in Share(t)
        /\ d = IF c + Stride < NCandidates THEN c + Stride ELSE NoCandidate
    BY <1>8, ScanMoves
  <2>2. p < d <=> p <= c
    <3>1. p < c + Stride => p <= c
      BY <1>8, <2>1, NoneBetween DEF Walk
    <3>2. c \in Nat /\ c < NCandidates
      BY <2>1, ConstantTypes DEF Share, Positions
    <3>3. QED
      BY <1>1, <1>8, <2>1, <3>1, <3>2, ConstantTypes
  <2>3. QED
    BY <1>1, <1>2, <1>4, <1>8, <2>2 DEF Past
<1>9. QED
  BY <1>2, <1>6, <1>7, <1>8 DEF Past

-----------------------------------------------------------------------------
(* The inductive invariant. *)

LEMMA InitInv == Init => IInv
<1> SUFFICES ASSUME Init
             PROVE  IInv
  OBVIOUS
<1> USE ConstantTypes DEF Init
<1>1. TypeOK
  BY InitType
<1>2. MutexInv /\ MainInv
  BY DEF MutexInv, MainInv
<1>3. WalkInv
  BY DEF WalkInv
<1>4. FoundInv /\ ReportedOnce
  BY DEF FoundInv, ReportedOnce, Found, Past
<1>5. QED
  BY <1>1, <1>2, <1>3, <1>4 DEF IInv

(* Only the holder of the mutex is inside the critical section, and it     *)
(* writes what it has read.                                                *)
LEMMA NextMutex == IInv /\ [Next]_vars => MutexInv'
<1> SUFFICES ASSUME IInv, [Next]_vars
             PROVE  MutexInv'
  OBVIOUS
<1> USE ConstantTypes DEF IInv, TypeOK, MutexInv
<1>1. CASE Create
  <2>1. pc[mainIdx] = "idle"
    BY <1>1 DEF Create, MainInv
  <2>2. QED
    BY <1>1, <2>1 DEF Create
<1>2. ASSUME NEW t \in Threads, Scan(t)
      PROVE  MutexInv'
  BY <1>2 DEF Scan, Skip, IsValid, LoopTest
<1>3. ASSUME NEW t \in Threads, Lock(t)
      PROVE  MutexInv'
  BY <1>3 DEF Lock, MayLock
<1>4. ASSUME NEW t \in Threads, Load(t)
      PROVE  MutexInv'
  BY <1>4 DEF Load
<1>5. ASSUME NEW t \in Threads, Store(t)
      PROVE  MutexInv'
  BY <1>5 DEF Store
<1>6. ASSUME NEW t \in Threads, Unlock(t)
      PROVE  MutexInv'
  BY <1>6 DEF Unlock, Released, LoopTest
<1>7. CASE Join \/ Unify \/ UNCHANGED vars
  BY <1>7 DEF Join, MayJoin, Unify, vars
<1>8. QED
  BY <1>1, <1>2, <1>3, <1>4, <1>5, <1>6, <1>7 DEF Next, Main, Thread

(* Every thread walks through its share of the candidates.                 *)
LEMMA NextWalk == IInv /\ [Next]_vars => WalkInv'
<1> SUFFICES ASSUME IInv, [Next]_vars
             PROVE  WalkInv'
  OBVIOUS
<1> USE ConstantTypes DEF IInv, TypeOK, WalkInv
<1>0. \A u \in Threads : Walk(u)' = Walk(u)
  BY DEF Walk, Share
<1>1. CASE Create
  <2>1. pc[mainIdx] = "idle"
    BY <1>1 DEF Create, MainInv
  <2>2. QED
    BY <1>0, <1>1, <2>1 DEF Create
<1>2. ASSUME NEW t \in Threads, Scan(t)
      PROVE  WalkInv'
  <2>1. /\ maskCandidate'[t] \in Walk(t) /\ state'[t] = 1
        /\ pc'[t] = IF maskCandidate'[t] \in Valid THEN "lock"
                    ELSE IF maskCandidate'[t] = NoCandidate THEN "done" ELSE "scan"
    BY <1>2, ScanMoves
  <2>2. \A u \in Threads \ {t} : /\ maskCandidate'[u] = maskCandidate[u]
                                 /\ state'[u] = state[u] /\ pc'[u] = pc[u]
    BY <1>2 DEF Scan, Skip, IsValid
  <2>3. QED
    <3>1. pc'[t] = "lock" => maskCandidate'[t] \in Valid
      BY <2>1
    <3>2. /\ pc'[t] = "done" => maskCandidate'[t] = NoCandidate
          /\ maskCandidate'[t] = NoCandidate => pc'[t] \notin {"idle", "scan"}
      BY <2>1
    <3>3. pc'[t] \in {"lock", "done", "scan"}
      BY <2>1
    <3>4. WalkInv!(t)'
      BY <1>0, <2>1, <3>1, <3>2, <3>3
    <3>5. ASSUME NEW u \in Threads \ {t}
          PROVE  WalkInv!(u)'
      BY <1>0, <2>2
    <3>6. QED
      BY <3>4, <3>5
<1>3. ASSUME NEW t \in Threads, Lock(t) \/ Load(t) \/ Store(t)
      PROVE  WalkInv'
  BY <1>0, <1>3 DEF Lock, MayLock, Load, Store
<1>4. ASSUME NEW t \in Threads, Unlock(t)
      PROVE  WalkInv'
  BY <1>0, <1>4 DEF Unlock, Released, LoopTest
<1>5. CASE Join \/ Unify \/ UNCHANGED vars
  BY <1>0, <1>5 DEF Join, MayJoin, Unify, vars
<1>6. QED
  BY <1>1, <1>2, <1>3, <1>4, <1>5 DEF Next, Main, Thread

(* main goes on only when the threads it waits for are done.               *)
LEMMA NextMain == IInv /\ [Next]_vars => MainInv'
<1> SUFFICES ASSUME IInv, [Next]_vars
             PROVE  MainInv'
  OBVIOUS
<1> USE ConstantTypes DEF IInv, TypeOK, MainInv
<1>1. CASE Create
  <2>1. CASE mainIdx + 1 < NThreads
    <3>1. mainPc' = "create" /\ mainIdx' = mainIdx + 1
      BY <1>1, <2>1 DEF Create
    <3>2. \A t \in Threads : t >= mainIdx + 1 => pc'[t] = "idle"
      BY <1>1 DEF Create, Threads
    <3>3. QED
      BY <3>1, <3>2
  <2>2. CASE ~(mainIdx + 1 < NThreads)
    <3>1. mainPc' = "join" /\ mainIdx' = 0
      BY <1>1, <2>2 DEF Create
    <3>2. QED
      BY <3>1 DEF Threads
  <2>3. QED
    BY <2>1, <2>2
<1>2. ASSUME NEW t \in Threads, Thread(t)
      PROVE  MainInv'
  <2>1. pc[t] # "idle" /\ pc[t] # "done" /\ pc'[t] # "idle" /\ UNCHANGED <<mainPc, mainIdx>>
    BY <1>2 DEF Thread, Scan, Skip, IsValid, Lock, MayLock, Load, Store, Unlock, Released, LoopTest
  <2>2. \A u \in Threads \ {t} : pc'[u] = pc[u]
    BY <1>2 DEF Thread, Scan, Skip, IsValid, Lock, MayLock, Load, Store, Unlock, Released
  <2>3. QED
    BY <2>1, <2>2
<1>3. CASE Join
  <2>1. \A t \in Threads : t < mainIdx + 1 => pc[t] = "done"
    BY <1>3 DEF Join, MayJoin, Threads
  <2>2. CASE mainIdx + 1 < NThreads
    <3>1. mainPc' = "join" /\ mainIdx' = mainIdx + 1 /\ pc' = pc
      BY <1>3, <2>2 DEF Join
    <3>2. QED
      BY <2>1, <3>1
  <2>3. CASE ~(mainIdx + 1 < NThreads)
    <3>1. mainPc' = "unify" /\ pc' = pc
      BY <1>3, <2>3 DEF Join
    <3>2. QED
      BY <2>1, <2>3, <3>1 DEF Threads
  <2>4. QED
    BY <2>2, <2>3
<1>4. CASE Unify \/ UNCHANGED vars
  BY <1>4 DEF Unify, vars
<1>5. QED
  BY <1>1, <1>2, <1>3, <1>4 DEF Next, Main

(* A step that leaves the vector and the pasts of all threads alone keeps  *)
(* FoundInv.                                                               *)
LEMMA SamePast ==
  ASSUME FoundInv, Found \subseteq Valid, UNCHANGED validMasks,
         \A t \in Threads : \A p \in Valid \cap Walk(t) : Past(t, p)' <=> Past(t, p)
  PROVE  FoundInv'
<1>1. Found' = Found
  BY DEF Found
<1>2. \A t \in Threads : Walk(t)' = Walk(t)
  BY DEF Walk, Share
<1>3. QED
  BY <1>1, <1>2 DEF FoundInv

(* A valid candidate is in the vector exactly when its thread is past it.  *)
LEMMA NextFound == IInv /\ [Next]_vars => FoundInv'
<1> SUFFICES ASSUME IInv, [Next]_vars
             PROVE  FoundInv'
  OBVIOUS
<1> USE ConstantTypes DEF IInv
<1>1. Found \subseteq Valid
  BY DEF TypeOK, Found
<1>2. CASE Create
  <2>1. pc[mainIdx] = "idle" /\ state[mainIdx] = 0 /\ mainIdx \in Threads
    BY <1>2 DEF Create, MainInv, WalkInv, TypeOK
  <2>2. \A t \in Threads : \A p \in Valid \cap Walk(t) : Past(t, p)' <=> Past(t, p)
    BY <1>2, <2>1 DEF Create, Past, TypeOK
  <2>3. UNCHANGED validMasks
    BY <1>2 DEF Create
  <2>4. QED
    BY <1>1, <2>2, <2>3, SamePast
<1>3. ASSUME NEW t \in Threads, Scan(t)
      PROVE  FoundInv'
  <2>1. \A u \in Threads \ {t} : \A p : Past(u, p)' <=> Past(u, p)
    BY <1>3 DEF Scan, Skip, IsValid, Past, TypeOK
  <2>2. \A p \in Valid \cap Walk(t) : Past(t, p)' <=> Past(t, p)
    BY <1>3, ScanPast
  <2>3. UNCHANGED validMasks
    BY <1>3 DEF Scan, Skip, IsValid
  <2>4. QED
    BY <1>1, <2>1, <2>2, <2>3, SamePast
<1>4. ASSUME NEW t \in Threads, Lock(t) \/ Load(t) \/ Unlock(t)
      PROVE  FoundInv'
  <2>1. \A u \in Threads : \A p \in Valid \cap Walk(u) : Past(u, p)' <=> Past(u, p)
    BY <1>4 DEF Lock, MayLock, Load, Unlock, Released, LoopTest, Past, TypeOK
  <2>2. UNCHANGED validMasks
    BY <1>4 DEF Lock, MayLock, Load, Unlock, Released
  <2>3. QED
    BY <1>1, <2>1, <2>2, SamePast
<1>5. ASSUME NEW t \in Threads, Store(t)
      PROVE  FoundInv'
  <2>1. Found' = Found \cup {maskCandidate[t]}
    BY <1>5, StorePushes
  <2>2. \A u \in Threads : \A p : Past(u, p)' <=> Past(u, p) \/ (u = t /\ p = maskCandidate[t])
    <3>1. state[t] = 1
      BY <1>5 DEF Store, WalkInv, TypeOK
    <3>2. QED
      BY <1>5, <3>1 DEF Store, Past, TypeOK
  <2>3. maskCandidate[t] \in Walk(t)
    <3>1. state[t] = 1 /\ maskCandidate[t] \in Valid
      BY <1>5 DEF Store, WalkInv, TypeOK
    <3>2. QED
      BY <3>1 DEF WalkInv
  <2>4. \A u \in Threads : Walk(u)' = Walk(u)
    BY DEF Walk, Share
  <2>5. QED
    BY <2>1, <2>2, <2>3, <2>4 DEF FoundInv
<1>6. CASE Join \/ Unify \/ UNCHANGED vars
  <2>1. \A t \in Threads : \A p \in Valid \cap Walk(t) : Past(t, p)' <=> Past(t, p)
    BY <1>6 DEF Join, MayJoin, Unify, vars, Past
  <2>2. UNCHANGED validMasks
    BY <1>6 DEF Join, MayJoin, Unify, vars
  <2>3. QED
    BY <1>1, <2>1, <2>2, SamePast
<1>7. QED
  BY <1>2, <1>3, <1>4, <1>5, <1>6 DEF Next, Main, Thread

(* A candidate that is about to be pushed is not in the vector: only its   *)
(* own thread could have pushed it, and that thread is not past it.        *)
LEMMA NextOnce == IInv /\ [Next]_vars => ReportedOnce'
<1> SUFFICES ASSUME IInv, [Next]_vars, Stride >= NThreads,
                    NEW i \in DOMAIN validMasks', NEW j \in DOMAIN validMasks',
                    validMasks'[i] = validMasks'[j], validMasks'[i] # NoCandidate
             PROVE  i = j
  BY DEF ReportedOnce, NoCandidate
<1>1. CASE UNCHANGED validMasks
  BY <1>1 DEF IInv, ReportedOnce
<1>2. ASSUME NEW t \in Threads, Store(t)
      PROVE  i = j
  <2> DEFINE c == maskCandidate[t]
  <2>1. validMasks' = Append(validMasks, c)
    BY <1>2, StorePushes DEF IInv
  <2>2. state[t] = 1 /\ c \in Valid /\ pc[t] = "store"
    BY <1>2 DEF Store, WalkInv, IInv, TypeOK
  <2>3. c \in Walk(t)
    BY <2>2, ConstantTypes DEF IInv, WalkInv
  <2>4. c # NoCandidate => c \notin Found
    <3>1. SUFFICES ASSUME c \in Found, c # NoCandidate
                   PROVE  FALSE
      OBVIOUS
    <3>2. PICK u \in Threads : c \in Walk(u) /\ Past(u, c)
      BY <3>1 DEF IInv, FoundInv
    <3>3. u = t
      BY <2>3, <3>1, <3>2, SharesDisjoint DEF Walk
    <3>4. c \in Nat
      BY <2>2, ConstantTypes
    <3>5. QED
      BY <2>2, <3>2, <3>3, <3>4 DEF Past
  <2>5. validMasks \in Seq(Valid)
    BY DEF IInv, TypeOK
  <2>6. c # NoCandidate => \A k \in DOMAIN validMasks : validMasks[k] # c
    BY <2>4 DEF Found
  <2>7. /\ DOMAIN validMasks' = DOMAIN validMasks \cup {Len(validMasks) + 1}
        /\ \A k \in DOMAIN validMasks : validMasks'[k] = validMasks[k]
        /\ validMasks'[Len(validMasks) + 1] = c
    BY <2>1, <2>5
  <2>8. QED
    BY <2>6, <2>7 DEF IInv, ReportedOnce
<1>3. QED
  BY <1>1, <1>2 DEF Next, Main, Thread, Create, Scan, Skip, IsValid, Lock, MayLock, Load, Unlock, Released, Join, MayJoin, Unify, vars

LEMMA NextInv == IInv /\ [Next]_vars => IInv'
BY NextType, NextMutex, NextWalk, NextFound, NextMain, NextOnce DEF IInv

LEMMA Invariance == Spec => []IInv
<1>1. QED
  BY InitInv, NextInv, PTL DEF Spec

-----------------------------------------------------------------------------
(* The theorems. *)

(* The search has the types it should have: in particular nothing but a    *)
(* candidate that passed checkMask ever gets into the vector.              *)
THEOREM SearchTyped == Spec => []TypeOK
BY Invariance, PTL DEF IInv

(* When the threads are done, every valid candidate is in the vector. *)
LEMMA AllFound ==
  ASSUME IInv, NThreads >= Stride, mainPc \in {"unify", "done"}
  PROVE  Found = Valid
<1>1. Found \subseteq Valid
  BY DEF IInv, TypeOK, Found
<1>2. ASSUME NEW p \in Valid
      PROVE  p \in Found
  <2>1. PICK t \in Threads : p \in Walk(t)
    <3>1. CASE p \in Positions
      BY <3>1, SharesCover DEF Walk
    <3>2. CASE p = NoCandidate
      BY <3>2, ConstantTypes DEF Walk
    <3>3. QED
      BY <3>1, <3>2, ConstantTypes
  <2>2. pc[t] = "done"
    BY DEF IInv, MainInv
  <2>3. maskCandidate[t] = NoCandidate /\ state[t] = 1
    BY <2>2 DEF IInv, WalkInv, TypeOK
  <2>4. p < NoCandidate \/ p = NoCandidate
    BY ConstantTypes DEF Positions, NoCandidate
  <2>5. Past(t, p)
    BY <2>2, <2>3, <2>4 DEF Past
  <2>6. QED
    BY <2>1, <2>5 DEF IInv, FoundInv
<1>3. QED
  BY <1>1, <1>2

(* No valid mask is missing when the masks are unified, for any number of  *)
(* threads at least as large as the stride and any interleaving of them.   *)
THEOREM SearchLosesNothing == Spec => []NothingLost
<1>1. IInv => NothingLost
  BY AllFound DEF NothingLost
<1>2. QED
  BY <1>1, Invariance, PTL

(* No mask is reported twice, for any stride at least as large as the      *)
(* number of threads.                                                      *)
THEOREM SearchReportsOnce == Spec => []ReportedOnce
BY Invariance, PTL DEF IInv

(* No push_back destroys what another thread has pushed. *)
THEOREM SearchKeepsPushes == Spec => PushesAreKept
<1> DEFINE Grows == /\ Len(validMasks) <= Len(validMasks')
                    /\ SubSeq(validMasks', 1, Len(validMasks)) = validMasks
<1>1. IInv /\ [Next]_vars => [Grows]_validMasks
  <2> SUFFICES ASSUME IInv, [Next]_vars, validMasks' # validMasks
               PROVE  Grows
    OBVIOUS
  <2>1. PICK t \in Threads : Store(t)
    BY DEF Next, Main, Thread, Create, Scan, Skip, IsValid, Lock, MayLock, Load, Unlock, Released, Join, MayJoin, Unify, vars
  <2>2. validMasks' = Append(validMasks, maskCandidate[t])
    BY <2>1, StorePushes DEF IInv
  <2>3. validMasks \in Seq(Valid)
    BY DEF IInv, TypeOK
  <2>4. QED
    BY <2>2, <2>3
<1>2. QED
  BY <1>1, Invariance, PTL DEF Spec, PushesAreKept

(* Once main unifies the masks, no thread is left to change them. *)
THEOREM SearchQuietAfterJoin == Spec => QuietAfterJoin
<1>1. IInv /\ [Next]_vars => [mainPc \notin {"unify", "done"}]_<<validMasks, mutex>>
  <2> SUFFICES ASSUME IInv, [Next]_vars, mainPc \in {"unify", "done"}
               PROVE  UNCHANGED <<validMasks, mutex>>
    OBVIOUS
  <2>1. \A t \in Threads : pc[t] = "done"
    BY DEF IInv, MainInv
  <2>2. QED
    BY <2>1 DEF Next, Main, Thread, Create, Scan, Skip, IsValid, Lock, MayLock, Load, Store, Unlock, Released, Join, MayJoin, Unify, vars
<1>2. QED
  BY <1>1, Invariance, PTL DEF Spec, QuietAfterJoin

(* The search implements the harvest: Store is Collect or a stutter, Unify *)
(* is HandOver, and every other step is a stutter.                         *)
THEOREM SearchImplementsHarvest ==
  ASSUME NThreads >= Stride
  PROVE  Spec => ImplementsHarvest
<1>1. Init => Harvest!HarvestInit
  BY DEF Init, Found, Harvest!HarvestInit
<1>2. IInv /\ [Next]_vars => [Harvest!HarvestNext]_Harvest!harvestVars
  <2> SUFFICES ASSUME IInv, [Next]_vars
               PROVE  Harvest!HarvestNext \/ UNCHANGED Harvest!harvestVars
    OBVIOUS
  <2> USE DEF Harvest!HarvestNext, Harvest!harvestVars
  <2>1. ASSUME NEW t \in Threads, Store(t)
        PROVE  Harvest!Collect \/ UNCHANGED Harvest!harvestVars
    <3>1. Found' = Found \cup {maskCandidate[t]} /\ maskCandidate[t] \in Valid
      BY <2>1, StorePushes DEF IInv, WalkInv, Store
    <3>2. mainPc # "done" /\ UNCHANGED mainPc
      BY <2>1 DEF IInv, MainInv, Store
    <3>3. QED
      BY <3>1, <3>2 DEF Harvest!Collect
  <2>2. CASE Unify
    <3>1. Found = Valid /\ Found' = Found
      BY <2>2, AllFound DEF Unify, Found
    <3>2. QED
      BY <2>2, <3>1 DEF Unify, Harvest!HandOver
  <2>3. ASSUME UNCHANGED validMasks, (mainPc = "done") <=> (mainPc' = "done")
        PROVE  UNCHANGED Harvest!harvestVars
    BY <2>3 DEF Found
  <2>4. CASE Create \/ Join \/ UNCHANGED vars
    BY <2>3, <2>4 DEF Create, Join, MayJoin, vars
  <2>5. ASSUME NEW t \in Threads, Scan(t) \/ Lock(t) \/ Load(t) \/ Unlock(t)
        PROVE  UNCHANGED Harvest!harvestVars
    BY <2>3, <2>5 DEF Scan, Skip, IsValid, Lock, MayLock, Load, Unlock, Released
  <2>6. QED
    BY <2>1, <2>2, <2>4, <2>5 DEF Next, Main, Thread
<1>3. QED
  BY <1>1, <1>2, Invariance, PTL DEF Spec, ImplementsHarvest, Harvest!HarvestSpec

=============================================================================
