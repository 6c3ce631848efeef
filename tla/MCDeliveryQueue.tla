--------------------------- MODULE MCDeliveryQueue ---------------------------
(***************************************************************************)
(* TLC instances of DeliveryQueue. Workers are interchangeable; messages   *)
(* are not, because claims take the oldest first.                          *)
(***************************************************************************)
EXTENDS DeliveryQueue, TLC

WorkerSymmetry == Permutations(Workers)
=============================================================================
