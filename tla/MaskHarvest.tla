----------------------------- MODULE MaskHarvest -----------------------------
(***************************************************************************)
(* What calculateBitMasks needs from its threads, whatever their number    *)
(* and schedule: valid masks are collected one by one, and the collection  *)
(* is handed over once, when no valid mask is missing.                     *)
(***************************************************************************)
CONSTANT Valid           \* the candidates that pass checkMask

VARIABLES found, handedOver

harvestVars == <<found, handedOver>>

HarvestInit ==
  /\ found = {}
  /\ handedOver = FALSE

Collect ==
  /\ handedOver = FALSE
  /\ \E c \in Valid \ found : found' = found \cup {c}
  /\ UNCHANGED handedOver

HandOver ==
  /\ handedOver = FALSE
  /\ found = Valid
  /\ handedOver' = TRUE
  /\ UNCHANGED found

HarvestNext == Collect \/ HandOver

HarvestSpec == HarvestInit /\ [][HarvestNext]_harvestVars

=============================================================================
