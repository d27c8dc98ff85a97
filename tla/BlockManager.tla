--------------------------- MODULE BlockManager ---------------------------
(***************************************************************************)
(* The paged KV cache of nanovllm/engine/block_manager.py together with    *)
(* the per-request fields of sequence.py that it reads and writes.         *)
(*                                                                         *)
(* Data abstraction.  A page is named by its chain key, the token prefix   *)
(* that ends with the page: compute_hash is modelled as concatenation, so  *)
(* two keys are equal exactly when the prefixes are (no xxh64 collision).  *)
(* Both prefix indexes, the dict of the hash backend and the radix tree,   *)
(* are a partial function from chain keys to blocks.  free_block_ids is a  *)
(* set: the deque's order and the tree's LRU stamps only decide which      *)
(* evictable page is reused, so every choice they may make is allowed.     *)
(* kv is a ghost: the prefix whose keys and values each slot really holds. *)
(*                                                                         *)
(* BMSpec is the contract of the class: any client may call any operation  *)
(* whose obligation (the conjuncts marked "caller") it meets.  Scheduler   *)
(* uses the ...Op operators, without the obligations, and is checked to    *)
(* implement BMSpec.                                                       *)
(***************************************************************************)
EXTENDS Integers, Sequences, FiniteSets, Functions, TLC

CONSTANTS
    Seqs,        \* requests
    Blocks,      \* physical KV pages
    BlockSize,   \* tokens per page
    Backend,     \* "hash" or "radix"
    Token,       \* vocabulary
    Sampled,     \* tokens the model may emit
    Prompt,      \* Prompt[s]: prompt tokens of request s
    MaxLen       \* bound on the length of a request

ASSUME SeqsAssumption == IsFiniteSet(Seqs)
ASSUME BlocksAssumption == IsFiniteSet(Blocks)
ASSUME BlockSizeAssumption == BlockSize \in Nat /\ BlockSize >= 2
ASSUME BackendAssumption == Backend \in {"hash", "radix"}
ASSUME PromptAssumption == Prompt \in [Seqs -> Seq(Token) \ {<<>>}]
ASSUME SampledAssumption == Sampled \subseteq Token
ASSUME MaxLenAssumption == MaxLen \in Nat

VARIABLES
    tokens,          \* token_ids
    blockTable,      \* block_table
    numCached,       \* num_cached_tokens
    numPhysical,     \* num_physical_cached_tokens
    numScheduled,    \* num_scheduled_tokens
    logical,         \* kv_block_logical_indices, counted from 1
    compressed,      \* kv_compressed
    freeBlocks,      \* free_block_ids
    usedBlocks,      \* used_block_ids
    refCount,        \* Block.ref_count
    blockHash,       \* Block.hash, <<>> for -1
    index,           \* hash_to_block_id or the radix tree
    pendingMatches,  \* pending_matches
    pendingResume,   \* pending_resume_matches
    kv               \* ghost: prefix held by every slot, <<>> for none

seqVars == <<tokens, blockTable, numCached, numPhysical, numScheduled,
             logical, compressed>>
poolVars == <<freeBlocks, usedBlocks, refCount, blockHash, index>>
planVars == <<pendingMatches, pendingResume>>
bmVars == <<seqVars, poolVars, planVars, kv>>

NoHash == <<>>
Junk == [j \in 1..BlockSize |-> <<>>]

BMInit ==
    /\ tokens = Prompt
    /\ blockTable = [s \in Seqs |-> <<>>]
    /\ numCached = [s \in Seqs |-> 0]
    /\ numPhysical = [s \in Seqs |-> 0]
    /\ numScheduled = [s \in Seqs |-> 0]
    /\ logical = [s \in Seqs |-> <<>>]
    /\ compressed = [s \in Seqs |-> FALSE]
    /\ freeBlocks = Blocks
    /\ usedBlocks = {}
    /\ refCount = [b \in Blocks |-> 0]
    /\ blockHash = [b \in Blocks |-> NoHash]
    /\ index = <<>>
    /\ pendingMatches = <<>>
    /\ pendingResume = <<>>
    /\ kv = [b \in Blocks |-> Junk]

---------------------------------------------------------------------------
(* Lookups *)

Pages(n) == (n + BlockSize - 1) \div BlockSize

NumBlocks(s) == Pages(Len(tokens[s]))

\* compute_hash chained over the first i pages of s.
ChainKey(s, i) == SubSeq(tokens[s], 1, i * BlockSize)

\* The hash backend also compares the block's own tokens; the tree does not.
Hit(key) ==
    /\ key \in DOMAIN index
    /\ Backend = "hash" => blockHash[index[key]] = key

\* At least one token is always computed.
CacheableBlocks(s) == NumBlocks(s) - 1

MatchLength(s) ==
    CHOOSE n \in 0..CacheableBlocks(s) :
        /\ \A i \in 1..n : Hit(ChainKey(s, i))
        /\ n = CacheableBlocks(s) \/ ~Hit(ChainKey(s, n + 1))

LookupCachedBlocks(s) == [i \in 1..MatchLength(s) |-> index[ChainKey(s, i)]]

InUse(ids) == {i \in DOMAIN ids : ids[i] \in usedBlocks}

\* num_new_blocks of can_allocate: pages taken from the free pool.
PlannedAllocationPages(s, ids) == NumBlocks(s) - Cardinality(InUse(ids))

CanAllocate(s) ==
    PlannedAllocationPages(s, LookupCachedBlocks(s)) <= Cardinality(freeBlocks)

Retained(s) == Len(blockTable[s])

\* The cached pages that extend the retained ones, when those are canonical.
ResumeSuffix(s) ==
    LET ids == LookupCachedBlocks(s)
    IN  IF Retained(s) <= Len(ids) /\ SubSeq(ids, 1, Retained(s)) = blockTable[s]
        THEN SubSeq(ids, Retained(s) + 1, Len(ids))
        ELSE <<>>

CanResume(s) ==
    NumBlocks(s) - Retained(s) - Cardinality(InUse(ResumeSuffix(s)))
        <= Cardinality(freeBlocks)

\* dict updates: the entries of f, and those of g that f does not have.
Overlay(f, g) == [x \in DOMAIN f \cup DOMAIN g |-> IF x \in DOMAIN f THEN f[x] ELSE g[x]]

Pop(dict, s) == Restrict(dict, DOMAIN dict \ {s})

\* Slip: the page is asked for one token early.
EarlyNeedsPage(s) == Len(tokens[s]) % BlockSize = 0

\* A decode step of s starts a new page.
NeedsPage(s) == Len(tokens[s]) % BlockSize = 1

CanAppend(s) == NeedsPage(s) => freeBlocks # {}

---------------------------------------------------------------------------
(* _allocate_block: what it reuses and what that evicts *)

\* Slip: a reused page stays in the index.
EvictNothing(idx, B) == idx

\* The index once the blocks of B have been reset.  remove_block drops the
\* whole subtree below a reused block.
EvictFrom(idx, B) ==
    Restrict(idx,
        IF Backend = "hash"
        THEN {p \in DOMAIN idx : ~ \E b \in B : blockHash[b] = p /\ idx[p] = b}
        ELSE {p \in DOMAIN idx :
                ~ \E q \in DOMAIN idx : /\ idx[q] \in B
                                        /\ Len(q) <= Len(p)
                                        /\ SubSeq(p, 1, Len(q)) = q})

\* n pages in the order _allocate_block may return them from pool: the radix
\* backend reuses an indexed page only when every free page is indexed.
FreshPages(n, pool) ==
    {f \in [1..n -> pool] :
        /\ IsInjective(f)
        /\ Backend = "radix" =>
             \A i \in 1..n :
                LET gone  == {f[j] : j \in 1..(i-1)}
                    blank == (pool \ gone) \ Range(EvictFrom(index, gone))
                IN  blank # {} => f[i] \in blank}

\* Slip: the pages taken stay on the free list.
TakeWithoutPopping(s, ids, fresh) ==
    LET claimed == Range(ids)
        new     == Range(fresh)
    IN  /\ blockTable' = [blockTable EXCEPT ![s] = @ \o ids \o fresh]
        /\ freeBlocks' = freeBlocks \ claimed
        /\ usedBlocks' = usedBlocks \cup claimed \cup new
        /\ refCount' = [b \in Blocks |->
              IF b \in claimed \cup new THEN refCount[b] + 1 ELSE refCount[b]]
        /\ blockHash' = [b \in Blocks |->
              IF b \in new THEN NoHash ELSE blockHash[b]]
        /\ index' = EvictFrom(index, new)
        /\ kv' = [b \in Blocks |-> IF b \in new THEN Junk ELSE kv[b]]

\* Claim the cached pages ids, then take the pages fresh, for request s.
TakePages(s, ids, fresh) ==
    LET claimed == Range(ids)
        new     == Range(fresh)
    IN  /\ blockTable' = [blockTable EXCEPT ![s] = @ \o ids \o fresh]
        /\ freeBlocks' = (freeBlocks \ claimed) \ new
        /\ usedBlocks' = usedBlocks \cup claimed \cup new
        /\ refCount' = [b \in Blocks |->
              CASE b \in new -> 1
                [] b \in claimed \ new ->
                     IF b \in usedBlocks THEN refCount[b] + 1 ELSE 1
                [] OTHER -> refCount[b]]
        /\ blockHash' = [b \in Blocks |->
              IF b \in new THEN NoHash ELSE blockHash[b]]
        /\ index' = EvictFrom(index, new)
        /\ kv' = [b \in Blocks |-> IF b \in new THEN Junk ELSE kv[b]]

\* Slip: a page is freed whoever else still maps it.
DropShared(B) ==
    /\ refCount' = [b \in Blocks |->
          IF b \in B THEN refCount[b] - 1 ELSE refCount[b]]
    /\ freeBlocks' = freeBlocks \cup B
    /\ usedBlocks' = usedBlocks \ B
    /\ UNCHANGED <<blockHash, index, kv>>

\* Drop one reference to every page of B held by a request.
DropPages(B) ==
    LET gone == {b \in B : refCount[b] = 1}
    IN  /\ refCount' = [b \in Blocks |->
              IF b \in B THEN refCount[b] - 1 ELSE refCount[b]]
        /\ freeBlocks' = freeBlocks \cup gone
        /\ usedBlocks' = usedBlocks \ gone
        /\ UNCHANGED <<blockHash, index, kv>>

---------------------------------------------------------------------------
(* Operations, one per method *)

\* can_allocate, successful: the plan is kept for allocate.
CanAllocateOp(s) ==
    /\ CanAllocate(s)
    /\ pendingMatches' =
         Overlay([r \in {s} |-> LookupCachedBlocks(s)], pendingMatches)
    /\ UNCHANGED <<seqVars, poolVars, pendingResume, kv>>

\* can_allocate without enough pages, or a plan the scheduler gives up.
ForgetPlanOp(s) ==
    /\ pendingMatches' = Pop(pendingMatches, s)
    /\ UNCHANGED <<seqVars, poolVars, pendingResume, kv>>

AllocatePlan(s, n) ==
    IF s \in DOMAIN pendingMatches /\ Len(pendingMatches[s]) = n
    THEN pendingMatches[s]
    ELSE LookupCachedBlocks(s)

\* allocate; the caller schedules k tokens with it (none for a restore).
AllocateOp(s, n, k) ==
    /\ blockTable[s] = <<>>
    /\ Len(AllocatePlan(s, n)) = n
    /\ LET ids == AllocatePlan(s, n)
       IN \E fresh \in FreshPages(NumBlocks(s) - n, freeBlocks \ Range(ids)) :
            TakePages(s, ids, fresh)
    /\ logical' = [logical EXCEPT ![s] = [i \in 1..NumBlocks(s) |-> i]]
    /\ numCached' = [numCached EXCEPT ![s] = n * BlockSize]
    /\ numPhysical' = [numPhysical EXCEPT ![s] = n * BlockSize]
    /\ numScheduled' = [numScheduled EXCEPT ![s] = k]
    /\ pendingMatches' = Pop(pendingMatches, s)
    /\ UNCHANGED <<tokens, compressed, pendingResume>>

CanResumeOp(s) ==
    /\ CanResume(s)
    /\ pendingResume' = Overlay([r \in {s} |-> ResumeSuffix(s)], pendingResume)
    /\ UNCHANGED <<seqVars, poolVars, pendingMatches, kv>>

CannotResumeOp(s) ==
    /\ ~CanResume(s)
    /\ pendingResume' = Pop(pendingResume, s)
    /\ UNCHANGED <<seqVars, poolVars, pendingMatches, kv>>

ResumeOp(s) ==
    LET ids     == pendingResume[s]
        missing == NumBlocks(s) - Retained(s) - Len(ids)
    IN  /\ s \in DOMAIN pendingResume
        /\ \E fresh \in FreshPages(missing, freeBlocks \ Range(ids)) :
             TakePages(s, ids, fresh)
        /\ logical' = [logical EXCEPT ![s] = [i \in 1..NumBlocks(s) |-> i]]
        /\ numCached' = [numCached EXCEPT ![s] = @ + Len(ids) * BlockSize]
        /\ numPhysical' = [numPhysical EXCEPT ![s] = @ + Len(ids) * BlockSize]
        /\ pendingResume' = Pop(pendingResume, s)
        /\ UNCHANGED <<tokens, numScheduled, compressed, pendingMatches>>

\* commit_restored_prefix, after the pages fetched for positions up to n were
\* imported into the reserved blocks (import_kv_page).
CommitRestoredPrefixOp(s, n) ==
    LET first == (numCached[s] \div BlockSize) + 1
        keys  == {ChainKey(s, i) : i \in 1..n}
        page(key) == blockTable[s][Len(key) \div BlockSize]
        added == [key \in keys |-> page(key)]
    IN  /\ kv' = [b \in Blocks |->
              IF \E i \in first..n : blockTable[s][i] = b
              THEN LET i == CHOOSE i \in first..n : blockTable[s][i] = b
                   IN  [j \in 1..BlockSize |->
                          SubSeq(tokens[s], 1, (i - 1) * BlockSize + j)]
              ELSE kv[b]]
        /\ IF Backend = "hash"
           THEN /\ index' = Overlay(added, index)
                /\ blockHash' = [b \in Blocks |->
                      IF \E key \in keys : page(key) = b
                      THEN CHOOSE key \in keys : page(key) = b
                      ELSE blockHash[b]]
           ELSE /\ index' = Overlay(index, added)
                /\ UNCHANGED blockHash
        /\ numCached' = [numCached EXCEPT ![s] = n * BlockSize]
        /\ numPhysical' = [numPhysical EXCEPT ![s] = n * BlockSize]
        /\ UNCHANGED <<tokens, blockTable, numScheduled, logical, compressed,
                       freeBlocks, usedBlocks, refCount, planVars>>

\* What deallocate does to the request and the pool.
ReleaseAll(s) ==
    /\ DropPages(Range(blockTable[s]))
    /\ blockTable' = [blockTable EXCEPT ![s] = <<>>]
    /\ logical' = [logical EXCEPT ![s] = <<>>]
    /\ numCached' = [numCached EXCEPT ![s] = 0]
    /\ numPhysical' = [numPhysical EXCEPT ![s] = 0]
    /\ compressed' = [compressed EXCEPT ![s] = FALSE]
    /\ pendingResume' = Pop(pendingResume, s)
    /\ UNCHANGED tokens

DeallocateOp(s) == ReleaseAll(s) /\ UNCHANGED <<numScheduled, pendingMatches>>

\* Slip: cancelling forgets the pages.
CancelKeepingPages(s) ==
    /\ numScheduled' = [numScheduled EXCEPT ![s] = 0]
    /\ pendingMatches' = Pop(pendingMatches, s)
    /\ UNCHANGED <<tokens, blockTable, numCached, numPhysical, logical,
                   compressed, poolVars, pendingResume, kv>>

\* Scheduler.cancel also forgets the plan and the scheduled tokens.
CancelOp(s) ==
    /\ ReleaseAll(s)
    /\ numScheduled' = [numScheduled EXCEPT ![s] = 0]
    /\ pendingMatches' = Pop(pendingMatches, s)

\* reclaim_suffix
ReclaimSuffixOp(s, keep) ==
    /\ DropPages({blockTable[s][i] : i \in (keep + 1)..Retained(s)})
    /\ blockTable' = [blockTable EXCEPT ![s] = SubSeq(@, 1, keep)]
    /\ logical' = [logical EXCEPT ![s] = SubSeq(@, 1, keep)]
    /\ numCached' = [numCached EXCEPT ![s] = keep * BlockSize]
    /\ numPhysical' = [numPhysical EXCEPT ![s] = keep * BlockSize]
    /\ pendingResume' = Pop(pendingResume, s)
    /\ UNCHANGED <<tokens, numScheduled, compressed, pendingMatches>>

\* Ascending position lists with which a table of n pages can be thinned out.
KeepLists(n) ==
    {f \in UNION {[1..m -> 1..n] : m \in 1..(n - 1)} :
        \A i, j \in DOMAIN f : i < j => f[i] < f[j]}

\* _compress_keep_positions
CompressOp(s, keep) ==
    LET dropped == (1..Retained(s)) \ Range(keep)
        lost    == Cardinality(dropped) * BlockSize
    IN  /\ DropPages({blockTable[s][i] : i \in dropped})
        /\ blockTable' = [blockTable EXCEPT
              ![s] = [k \in DOMAIN keep |-> blockTable[s][keep[k]]]]
        /\ logical' = [logical EXCEPT
              ![s] = [k \in DOMAIN keep |-> logical[s][keep[k]]]]
        /\ numPhysical' = [numPhysical EXCEPT
              ![s] = @ - (IF lost < @ THEN lost ELSE @)]
        /\ compressed' = [compressed EXCEPT ![s] = TRUE]
        /\ UNCHANGED <<tokens, numCached, numScheduled, planVars>>

\* may_append, with the single token that a decode step schedules.
MayAppendOp(s) ==
    /\ IF NeedsPage(s)
       THEN /\ \E fresh \in FreshPages(1, freeBlocks) :
                 TakePages(s, <<>>, fresh)
            /\ logical' = [logical EXCEPT ![s] = Append(@, NumBlocks(s))]
       ELSE UNCHANGED <<blockTable, poolVars, kv, logical>>
    /\ numScheduled' = [numScheduled EXCEPT ![s] = 1]
    /\ UNCHANGED <<tokens, numCached, numPhysical, compressed, planVars>>

\* A prefill chunk of k tokens for a request that already owns its table.
ScheduleOp(s, k) ==
    /\ numScheduled' = [numScheduled EXCEPT ![s] = k]
    /\ UNCHANGED <<tokens, blockTable, numCached, numPhysical, logical,
                   compressed, poolVars, planVars, kv>>
---------------------------------------------------------------------------
(* Execution: slot_mapping of prepare_prefill and prepare_decode *)

ScheduledPositions(s) == (numCached[s] + 1)..(numCached[s] + numScheduled[s])

SlotOf(p) == ((p - 1) % BlockSize) + 1

\* Slip: prefill writes the last page too.
LastPageFor(s, p, isPrefill) == blockTable[s][Retained(s)]

\* prepare_decode writes the last page, prepare_prefill the page of the position.
PageFor(s, p, isPrefill) ==
    IF isPrefill THEN blockTable[s][((p - 1) \div BlockSize) + 1]
                 ELSE blockTable[s][Retained(s)]

KVWrites(S, isPrefill) ==
    UNION {{[block |-> PageFor(s, p, isPrefill), slot |-> SlotOf(p),
             prefix |-> SubSeq(tokens[s], 1, p)] : p \in ScheduledPositions(s)}
           : s \in S}

RunOp(S, isPrefill) ==
    LET W == KVWrites(S, isPrefill)
    IN  /\ kv' = [b \in Blocks |-> [j \in 1..BlockSize |->
              IF \E w \in W : w.block = b /\ w.slot = j
              THEN (CHOOSE w \in W : w.block = b /\ w.slot = j).prefix
              ELSE kv[b][j]]]
        /\ UNCHANGED <<seqVars, poolVars, planVars>>

\* hash_blocks: publish the pages completed by this step.
HashBlocks(s) ==
    LET first == (numCached[s] \div BlockSize) + 1
        last  == (numCached[s] + numScheduled[s]) \div BlockSize
        chain == IF first = 1 THEN <<>> ELSE blockHash[blockTable[s][first - 1]]
        hash(i) == chain \o SubSeq(tokens[s], (first - 1) * BlockSize + 1,
                                              i * BlockSize)
        full  == {ChainKey(s, i) : i \in 1..last}
    IN  IF compressed[s] \/ last < first
        THEN UNCHANGED <<blockHash, index>>
        ELSE IF Backend = "hash"
        THEN /\ blockHash' = [b \in Blocks |->
                   IF \E i \in first..last : blockTable[s][i] = b
                   THEN hash(CHOOSE i \in first..last : blockTable[s][i] = b)
                   ELSE blockHash[b]]
             /\ index' = Overlay([key \in {hash(i) : i \in first..last} |->
                                    blockTable[s][CHOOSE i \in first..last :
                                                     hash(i) = key]], index)
        ELSE /\ index' = Overlay(index, [key \in full |->
                                           blockTable[s][Len(key) \div BlockSize]])
             /\ UNCHANGED blockHash

\* The part of Scheduler.postprocess that concerns one request, up to the
\* sampled token t; a chunk that leaves prompt tokens to compute yields none.
PostprocessOp(s, isPrefill, t) ==
    LET done == numCached[s] + numScheduled[s]
    IN  /\ HashBlocks(s)
        /\ numCached' = [numCached EXCEPT ![s] = done]
        /\ numPhysical' = [numPhysical EXCEPT ![s] = @ + numScheduled[s]]
        /\ numScheduled' = [numScheduled EXCEPT ![s] = 0]
        /\ tokens' = IF isPrefill /\ done < Len(tokens[s])
                     THEN tokens
                     ELSE [tokens EXCEPT ![s] = Append(@, t)]
        /\ UNCHANGED <<blockTable, logical, compressed, freeBlocks, usedBlocks,
                       refCount, planVars, kv>>
---------------------------------------------------------------------------
(* The contract: every operation with what its caller must guarantee *)

Idle(s) == numScheduled[s] = 0

\* Only the newest token of s has no KV yet.
NewestMissing(s) == numCached[s] + 1 = Len(tokens[s])

\* ... nor a page, if it starts one.
DecodeReady(s) ==
    /\ NewestMissing(s)
    /\ blockTable[s] # <<>>
    /\ Retained(s) = Pages(numPhysical[s])

PlanAllocation(s) ==
    /\ blockTable[s] = <<>>
    /\ CanAllocateOp(s) \/ ForgetPlanOp(s)

\* caller: the plan still describes the cache, and the pool can serve it.
Allocate(s, n, k) ==
    /\ Idle(s)
    /\ AllocatePlan(s, n) = LookupCachedBlocks(s)
    /\ CanAllocate(s)
    /\ k \in 0..(Len(tokens[s]) - n * BlockSize)
    /\ AllocateOp(s, n, k)

PlanResume(s) ==
    /\ ~compressed[s]
    /\ CanResumeOp(s) \/ CannotResumeOp(s)

\* caller: as for Allocate, and a partial table holds computed pages only.
Resume(s) ==
    /\ Idle(s) /\ ~compressed[s] /\ blockTable[s] # <<>>
    /\ s \in DOMAIN pendingResume
    /\ pendingResume[s] = ResumeSuffix(s)
    /\ CanResume(s)
    /\ Retained(s) < NumBlocks(s) => numCached[s] = Retained(s) * BlockSize
    /\ ResumeOp(s)

\* The two tests commit_restored_prefix makes; caller: nothing was computed
\* into the reserved pages.
CommitRestoredPrefix(s, n) ==
    /\ numCached[s] \div BlockSize < n /\ n < NumBlocks(s)
    /\ Retained(s) = NumBlocks(s)
    /\ Idle(s) /\ ~compressed[s] /\ numCached[s] % BlockSize = 0
    /\ CommitRestoredPrefixOp(s, n)

\* caller: the request is in no batch.
Deallocate(s) == Idle(s) /\ DeallocateOp(s)

Cancel(s) == CancelOp(s)

\* The two tests reclaim_suffix makes; caller: table positions are pages.
ReclaimSuffix(s, keep) ==
    /\ keep <= Retained(s)
    /\ keep * BlockSize <= numCached[s]
    /\ Idle(s) /\ ~compressed[s]
    /\ ReclaimSuffixOp(s, keep)

\* caller: the page being filled is kept.
Compress(s, keep) ==
    /\ Idle(s) /\ DecodeReady(s)
    /\ keep[Len(keep)] = Retained(s)
    /\ CompressOp(s, keep)

MayAppend(s) ==
    /\ Idle(s) /\ DecodeReady(s) /\ CanAppend(s)
    /\ MayAppendOp(s)

Schedule(s, k) ==
    /\ Idle(s) /\ ~compressed[s] /\ Retained(s) = NumBlocks(s)
    /\ k \in 1..(Len(tokens[s]) - numCached[s])
    /\ ScheduleOp(s, k)

\* caller: every member of the batch was scheduled, in the batch's mode.
Run(S, isPrefill) ==
    /\ S # {} /\ \A s \in S : ~Idle(s)
    /\ IF isPrefill THEN \A s \in S : ~compressed[s]
                    ELSE \A s \in S : NewestMissing(s)
    /\ RunOp(S, isPrefill)

\* caller: the batch was run.
Postprocess(s, isPrefill, t) ==
    /\ ~Idle(s)
    /\ IF isPrefill THEN ~compressed[s] ELSE NewestMissing(s)
    /\ \A w \in KVWrites({s}, isPrefill) : kv[w.block][w.slot] = w.prefix
    /\ Len(tokens[s]) < MaxLen
    /\ PostprocessOp(s, isPrefill, t)

BMNext ==
    \/ \E s \in Seqs :
        \/ PlanAllocation(s)
        \/ PlanResume(s)
        \/ Resume(s)
        \/ Deallocate(s)
        \/ Cancel(s)
        \/ MayAppend(s)
        \/ \E n \in 0..CacheableBlocks(s), k \in 0..MaxLen : Allocate(s, n, k)
        \/ \E n \in 1..CacheableBlocks(s) : CommitRestoredPrefix(s, n)
        \/ \E keep \in 0..Retained(s) : ReclaimSuffix(s, keep)
        \/ \E keep \in KeepLists(Retained(s)) : Compress(s, keep)
        \/ \E k \in 1..MaxLen : Schedule(s, k)
        \/ \E p \in BOOLEAN, t \in Sampled : Postprocess(s, p, t)
    \/ \E S \in SUBSET Seqs, p \in BOOLEAN : Run(S, p)

BMSpec == BMInit /\ [][BMNext]_bmVars

---------------------------------------------------------------------------
(* Properties *)

Keys == Seq(Token)

Holders(b) == {s \in Seqs : b \in Range(blockTable[s])}

\* No page is leaked, freed twice or freed while a request still maps it: the
\* free and used pools partition the pages, ref_count counts exactly the
\* tables that map a page, and no table maps a page twice.
PoolConsistent ==
    /\ freeBlocks \cap usedBlocks = {}
    /\ freeBlocks \cup usedBlocks = Blocks
    /\ \A b \in Blocks : /\ refCount[b] = Cardinality(Holders(b))
                         /\ b \in freeBlocks <=> refCount[b] = 0
    /\ \A s \in Seqs : IsInjective(blockTable[s])

\* Every token counted in num_cached_tokens whose page is still mapped has its
\* own KV in the slot attention will read, whatever was shared, preempted,
\* restored, compressed or recycled before.
CachedPrefixIntact ==
    \A s \in Seqs : \A i \in DOMAIN blockTable[s] : \A j \in 1..BlockSize :
        LET p == (logical[s][i] - 1) * BlockSize + j
        IN  p <= numCached[s] =>
              kv[blockTable[s][i]][j] = SubSeq(tokens[s], 1, p)

\* A page the prefix cache can hand out holds exactly the KV of the prefix it
\* is indexed under, free or in use.
IndexedPageIntact ==
    \A key \in DOMAIN index : \A j \in 1..BlockSize :
        kv[index[key]][j] = SubSeq(key, 1, Len(key) - BlockSize + j)

\* The slots the next forward pass writes lie in pages that no other request
\* maps and that the prefix cache does not offer.
WritesArePrivate ==
    \A s \in Seqs : \A p \in ScheduledPositions(s) :
        LET b == PageFor(s, p, ~compressed[s])
        IN  Holders(b) = {s} /\ b \notin Range(index)

\* A decode step attends over exactly the mapped tokens: context_lens fits the
\* last page of the table and the new token's slot follows the cached ones,
\* also after pages were dropped from the middle.
AttentionWindow ==
    \A s \in Seqs : ~Idle(s) /\ NewestMissing(s) =>
        /\ (numPhysical[s] \div BlockSize) + 1 = Retained(s)
        /\ SlotOf(numPhysical[s] + 1) = SlotOf(Len(tokens[s]))
=============================================================================
