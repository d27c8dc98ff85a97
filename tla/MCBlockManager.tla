-------------------------- MODULE MCBlockManager --------------------------
(* Instances of the block manager's contract for TLC. *)
EXTENDS BlockManager

CONSTANTS r1, r2, b1, b2, b3, b4

\* Two prompts that share their first page and differ in the second.
SharedPrompts == r1 :> <<0, 0, 1>> @@ r2 :> <<0, 0, 0>>

Symmetry == Permutations(Blocks)
=============================================================================
