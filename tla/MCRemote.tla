------------------------------ MODULE MCRemote ------------------------------
(* Two prompts that share their first page. *)
EXTENDS RemoteRestore, TLC

CONSTANTS ka, kb, kc

MCPaths == {<<ka>>, <<ka, kb>>, <<ka, kc>>}
Symmetry == Permutations({kb, kc})
=============================================================================
