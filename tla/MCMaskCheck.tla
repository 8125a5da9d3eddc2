---------------------------- MODULE MCMaskCheck ----------------------------
(***************************************************************************)
(* Instances of MaskCheck: clean measurements of a few addresses with      *)
(* several bits, and noisy ones of many addresses with one bit.            *)
(***************************************************************************)
EXTENDS MaskCheck

CONSTANTS
  CleanSize, NoisySize,   \* bounds: addresses in a group
  CleanPercentages, NoisyPercentages

Measurements(bits, size) ==
  [1 .. NGroups -> UNION {[1 .. n -> SUBSET bits] : n \in 0 .. size}]

Clean == Measurements(Bits, CleanSize) \X CleanPercentages

Noisy == Measurements({CHOOSE b \in Bits : TRUE}, NoisySize) \X NoisyPercentages

CleanAndNoisy == Clean \cup Noisy

=============================================================================
