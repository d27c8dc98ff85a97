---------------------------- MODULE PrefixIndex ----------------------------
(***************************************************************************)
(* What a radix prefix cache promises (nanovllm/engine/radix_cache.py): a  *)
(* partial map from page-aligned prefixes to block ids in which every      *)
(* prefix of an indexed prefix is indexed.  BlockManager uses it this way. *)
(***************************************************************************)
EXTENDS Integers, Sequences, Functions, SequencesExt

CONSTANTS Keys, Ids, MaxDepth

VARIABLE index

Paths == UNION {[1..n -> Keys] : n \in 1..MaxDepth}

Init == index = <<>>

\* The existing entry stays the canonical copy of its prefix.
Insert(keys, ids) ==
    index' = [p \in DOMAIN index \cup {SubSeq(keys, 1, n) : n \in 1..Len(keys)} |->
                 IF p \in DOMAIN index THEN index[p] ELSE ids[Len(p)]]

\* A removed block takes the prefixes that extend its own with it.
RemoveBlock(b) ==
    index' = Restrict(index, {p \in DOMAIN index :
                 \A q \in DOMAIN index : index[q] = b => ~IsPrefix(q, p)})

\* The blocks given to an insertion, read off its result.
Given(keys) == [n \in 1..Len(keys) |-> index'[SubSeq(keys, 1, n)]]

Next == \/ \E keys \in Paths :
             /\ {SubSeq(keys, 1, n) : n \in 1..Len(keys)} \subseteq DOMAIN index'
             /\ Range(Given(keys)) \subseteq Ids
             /\ Insert(keys, Given(keys))
        \/ \E b \in Ids : RemoveBlock(b)

Spec == Init /\ [][Next]_index
=============================================================================
