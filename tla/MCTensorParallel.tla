-------------------------- MODULE MCTensorParallel --------------------------
(***************************************************************************)
(* Four ranks, up to three batches (each may be too large) and exit.       *)
(***************************************************************************)
EXTENDS TensorParallel

=============================================================================
