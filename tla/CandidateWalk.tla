---------------------------- MODULE CandidateWalk ----------------------------
(***************************************************************************)
(* What scanForMasks promises about the candidates of one thread: the      *)
(* first is the one at position threadId, each later one lies Stride       *)
(* positions further, and the walk ends when it leaves the candidates.     *)
(***************************************************************************)
EXTENDS CandidateOrder

CONSTANT Stride

VARIABLES threadId, started, position

walkVars == <<threadId, started, position>>

WalkInit ==
  /\ threadId \in Nat
  /\ started = FALSE
  /\ position = 0

WalkNext ==
  /\ position # NoCandidate
  /\ position' = Advance(position, IF started THEN Stride ELSE threadId)
  /\ started' = TRUE
  /\ UNCHANGED threadId

WalkSpec == WalkInit /\ [][WalkNext]_walkVars

=============================================================================
