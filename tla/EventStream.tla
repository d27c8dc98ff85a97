---------------------------- MODULE EventStream ----------------------------
(***************************************************************************)
(* What a GenerationHandle promises its HTTP handler                       *)
(* (nanovllm/serve/engine_worker.py): text in contiguous pieces, then at   *)
(* most one final event and nothing after it; a request that finishes has  *)
(* streamed all of the text that the final event carries, unless that text *)
(* does not begin with what was streamed ("diverged").                     *)
(***************************************************************************)
EXTENDS Integers, Sequences

CONSTANTS
    Requests,
    Streaming,   \* the requests submitted with stream=True
    Lengths      \* the lengths a text can have

VARIABLE sent    \* the events put for each request

Final == {"finished", "diverged", "failed", "cancelled"}

Ended(r) == sent[r] # <<>> /\ sent[r][Len(sent[r])].kind \in Final

\* Characters sent so far.
TextEnd(r) == IF sent[r] = <<>> THEN 0 ELSE sent[r][Len(sent[r])].to

Init == sent = [r \in Requests |-> <<>>]

Put(r, event) == sent' = [sent EXCEPT ![r] = Append(@, event)]

TextDelta(r, to) ==
    /\ r \in Streaming /\ ~Ended(r)
    /\ to > TextEnd(r)
    /\ Put(r, [kind |-> "delta", from |-> TextEnd(r), to |-> to])

Finished(r, to) ==
    /\ ~Ended(r)
    /\ r \in Streaming => to = TextEnd(r)
    /\ Put(r, [kind |-> "finished", from |-> 0, to |-> to])

\* The last decode no longer begins with the text of an earlier one.
Diverged(r, to) ==
    /\ r \in Streaming /\ ~Ended(r)
    /\ TextEnd(r) > 0
    /\ Put(r, [kind |-> "diverged", from |-> 0, to |-> to])

GivenUp(r, kind) ==
    /\ ~Ended(r)
    /\ Put(r, [kind |-> kind, from |-> 0, to |-> 0])

Next == \E r \in Requests :
    \/ \E to \in Lengths : TextDelta(r, to) \/ Finished(r, to) \/ Diverged(r, to)
    \/ \E kind \in {"failed", "cancelled"} : GivenUp(r, kind)

Spec == Init /\ [][Next]_sent
=============================================================================
