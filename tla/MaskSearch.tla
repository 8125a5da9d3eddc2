----------------------------- MODULE MaskSearch -----------------------------
(***************************************************************************)
(* The concurrent search for address masks: AddressFunction::              *)
(* calculateBitMasks creates NThreads MaskThreads, each runs scanForMasks  *)
(* and appends its valid candidates to the shared vector validMasks under  *)
(* validMasksMutex, and the main thread joins them in order before it      *)
(* unifies the masks.  checkMask reads only data that nobody changes       *)
(* during the search, so it is the constant set Valid of positions.        *)
(***************************************************************************)
EXTENDS CandidateOrder, Sequences

CONSTANTS
  NThreads,  \* argument of calculateBitMasks, by default the number of CPUs
  Stride,    \* option -n, getNumberOfThreadsForMaskCalculation
  Valid      \* the candidates for which checkMask is true, as positions; the
             \* final 0 of each thread is one of them when all groups are empty

ASSUME SearchAssumption ==
  /\ NThreads \in Nat \ {0}
  /\ Stride \in Nat \ {0}
  /\ Valid \subseteq Positions \cup {NoCandidate}

Threads == 0 .. NThreads - 1

Nobody == NThreads       \* validMasksMutex when it is free

VARIABLES
  pc,              \* where each thread is, in the loop of scanForMasks
  state,           \* 0 until the thread has generated its first candidate
  maskCandidate,   \* the candidate each thread is working on
  seen,            \* validMasks as push_back has read it
  validMasks,      \* the shared vector
  mutex,           \* holder of validMasksMutex
  mainPc,          \* where calculateBitMasks is
  mainIdx          \* the thread it creates or joins next

vars == <<pc, state, maskCandidate, seen, validMasks, mutex, mainPc, mainIdx>>

(* The test of the while loop, reached by continue and after a push. *)
LoopTest(candidate) == IF candidate = NoCandidate THEN "done" ELSE "scan"

Init ==
  /\ pc = [t \in Threads |-> "idle"]
  /\ state = [t \in Threads |-> 0]
  /\ maskCandidate = [t \in Threads |-> 0]
  /\ seen = [t \in Threads |-> << >>]
  /\ validMasks = << >>
  /\ mutex = Nobody
  /\ mainPc = "create"
  /\ mainIdx = 0

(* new MaskThread: the constructor starts the thread, which runs at once. *)
Create ==
  /\ mainPc = "create"
  /\ pc' = [pc EXCEPT ![mainIdx] = "scan"]
  /\ IF mainIdx + 1 < NThreads
     THEN mainIdx' = mainIdx + 1 /\ mainPc' = "create"
     ELSE mainIdx' = 0 /\ mainPc' = "join"
  /\ UNCHANGED <<state, maskCandidate, seen, validMasks, mutex>>

(* A variant of Skip whose threads all start at the first candidate. *)
SkipNone(t) == IF state[t] = 0 THEN 0 ELSE Stride

Skip(t) == IF state[t] = 0 THEN t ELSE Stride

(* A variant of IsValid that trusts every candidate. *)
IsCandidate(candidate) == candidate # NoCandidate

IsValid(candidate) == candidate \in Valid

(* Generate the next candidate and check it: both use only local state.    *)
(* The 0 that ends the loop is checked, too, and pushed if it is valid.    *)
Scan(t) ==
  /\ pc[t] = "scan"
  /\ LET next == Advance(maskCandidate[t], Skip(t))
     IN  /\ maskCandidate' = [maskCandidate EXCEPT ![t] = next]
         /\ pc' = [pc EXCEPT ![t] = IF IsValid(next) THEN "lock" ELSE LoopTest(next)]
  /\ state' = [state EXCEPT ![t] = 1]
  /\ UNCHANGED <<seen, validMasks, mutex, mainPc, mainIdx>>

(* A variant of MayLock that does not wait for the mutex. *)
MayLockAlways == TRUE

MayLock == mutex = Nobody

Lock(t) ==
  /\ pc[t] = "lock" /\ MayLock
  /\ mutex' = t
  /\ pc' = [pc EXCEPT ![t] = "load"]
  /\ UNCHANGED <<state, maskCandidate, seen, validMasks, mainPc, mainIdx>>

(* push_back reads the size and the storage of the vector ... *)
Load(t) ==
  /\ pc[t] = "load"
  /\ seen' = [seen EXCEPT ![t] = validMasks]
  /\ pc' = [pc EXCEPT ![t] = "store"]
  /\ UNCHANGED <<state, maskCandidate, validMasks, mutex, mainPc, mainIdx>>

(* ... and later writes the new element and the new size. *)
Store(t) ==
  /\ pc[t] = "store"
  /\ validMasks' = Append(seen[t], maskCandidate[t])
  /\ pc' = [pc EXCEPT ![t] = "unlock"]
  /\ UNCHANGED <<state, maskCandidate, seen, mutex, mainPc, mainIdx>>

(* A variant of Released that leaves the mutex locked. *)
NotReleased == mutex

Released == Nobody

Unlock(t) ==
  /\ pc[t] = "unlock"
  /\ mutex' = Released
  /\ pc' = [pc EXCEPT ![t] = LoopTest(maskCandidate[t])]
  /\ seen' = [seen EXCEPT ![t] = << >>]
  /\ UNCHANGED <<state, maskCandidate, validMasks, mainPc, mainIdx>>

(* A variant of MayJoin that does not wait for the thread. *)
MayJoinAlways == TRUE

MayJoin == pc[mainIdx] = "done"

Join ==
  /\ mainPc = "join" /\ MayJoin
  /\ IF mainIdx + 1 < NThreads
     THEN mainIdx' = mainIdx + 1 /\ mainPc' = "join"
     ELSE mainIdx' = 0 /\ mainPc' = "unify"
  /\ UNCHANGED <<pc, state, maskCandidate, seen, validMasks, mutex>>

(* setUnifiedAddressMasks(&validMasks): the search is over. *)
Unify ==
  /\ mainPc = "unify"
  /\ mainPc' = "done"
  /\ UNCHANGED <<pc, state, maskCandidate, seen, validMasks, mutex, mainIdx>>

Thread(t) == Scan(t) \/ Lock(t) \/ Load(t) \/ Store(t) \/ Unlock(t)

Main == Create \/ Join \/ Unify

Next == Main \/ \E t \in Threads : Thread(t)

(* Every thread that can run does so eventually; nothing is assumed about  *)
(* which of several waiting threads gets the mutex.                        *)
Spec ==
  /\ Init /\ [][Next]_vars
  /\ WF_vars(Main) /\ \A t \in Threads : WF_vars(Thread(t))

-----------------------------------------------------------------------------

TypeOK ==
  /\ pc \in [Threads -> {"idle", "scan", "lock", "load", "store", "unlock", "done"}]
  /\ state \in [Threads -> {0, 1}]
  /\ maskCandidate \in [Threads -> 0 .. NCandidates]
  /\ seen \in [Threads -> Seq(Valid)]
  /\ validMasks \in Seq(Valid)
  /\ mutex \in Threads \cup {Nobody}
  /\ mainPc \in {"create", "join", "unify", "done"}
  /\ mainIdx \in Threads

Found == {validMasks[i] : i \in DOMAIN validMasks}

(* No valid mask is missing when the masks are unified, however the pushes *)
(* of the threads interleave: the strides leave no candidate out, no push  *)
(* overwrites another and no thread is joined too early.  It holds when at *)
(* least as many threads run as the stride is wide.                        *)
NothingLost == (NThreads >= Stride /\ mainPc \in {"unify", "done"}) => Found = Valid

(* A mask is reported once only: no two threads scan the same candidate    *)
(* and none scans it again.  It holds when the stride is at least as wide  *)
(* as there are threads, for all but the final 0, which each thread checks.*)
ReportedOnce ==
  Stride >= NThreads =>
    \A i, j \in DOMAIN validMasks :
      validMasks[i] = validMasks[j] /\ validMasks[i] # NoCandidate => i = j

(* The shared vector only grows: a mask once pushed stays in its place,    *)
(* whatever other threads do between the two halves of a push_back.        *)
PushesAreKept ==
  [][/\ Len(validMasks) <= Len(validMasks')
     /\ SubSeq(validMasks', 1, Len(validMasks)) = validMasks]_validMasks

(* Nobody touches the vector while main reads it in setUnifiedAddressMasks. *)
QuietAfterJoin == [][mainPc \notin {"unify", "done"}]_<<validMasks, mutex>>

(* The search ends: no thread waits for the mutex forever and main joins   *)
(* every thread, though the mutex itself need not be fair.                 *)
SearchEnds == <>(mainPc = "done")

(* With at least as many threads as the stride is wide, the threads        *)
(* together do what MaskHarvest promises: every push adds a valid mask or  *)
(* repeats one, and unifying waits for the last of them.                   *)
Harvest == INSTANCE MaskHarvest WITH
  found <- Found, handedOver <- mainPc = "done"

ImplementsHarvest == Harvest!HarvestSpec

(* config.cpp:266-267 documents option -n as the NUMBER of threads, so it  *)
(* should say who does the work and not which masks are found.             *)
ThreadOptionLosesNothing == mainPc \in {"unify", "done"} => Found = Valid

=============================================================================
