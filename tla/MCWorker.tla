------------------------------ MODULE MCWorker ------------------------------
(***************************************************************************)
(* A streaming and a non-streaming request on one inference worker that    *)
(* is started and stopped, or started again after its thread has ended.    *)
(***************************************************************************)
EXTENDS InferenceWorker

CONSTANTS r1, r2

MCRequests  == {r1, r2}
MCStreaming == {r1}
MCMaxTokens == [r \in MCRequests |-> IF r = r1 THEN 2 ELSE 1]
=============================================================================
