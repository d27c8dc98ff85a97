---------------------------- MODULE MCTransfer ----------------------------
(* Instances of the transfer coordinator for TLC. *)
EXTENDS TransferCoordinator, TLC

CONSTANTS k1, v1, v2, c1, c2, c3

Symmetry == Permutations(Callers) \cup Permutations(Values)
=============================================================================
