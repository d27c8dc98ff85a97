------------------------------ MODULE MCRadix ------------------------------
(* Instances of the radix prefix cache for TLC. *)
EXTENDS RadixCache

CONSTANTS ka, kb, p1, p2, p3, p4

Symmetry == Permutations(Ids) \cup Permutations(Keys)
=============================================================================
