# nano-vllm-qos in TLA+

TLA+ specifications of the core of nano-vllm-qos: the paged KV cache, the QoS
scheduler that drives it, the radix prefix index, the coordinator of remote KV
transfers, the service that writes pages back, catalogues and restores them, the
inference worker between HTTP handlers and the engine thread, and the ranks of
tensor-parallel execution. Each specification is model-checked with TLC on small
instances. The safety invariants of the page pool, the scheduler, the transfer
coordinator, the restore service, the worker and the ranks are also proved with
TLAPS, for every number of pages, requests, keys, callers, paths and ranks.

`PROJECT.json` lists components, runs, hazards, findings and theorems, and maps
every definition to the source lines it models.

## The system

An HTTP service (`nanovllm/serve`) hands chat requests to an `InferenceWorker`,
which owns one engine thread. That thread admits and cancels requests between
steps and calls `LLMEngine.step`: poll finished remote restores, ask the
`Scheduler` for a batch, run the model, and postprocess the sampled tokens. The
scheduler keeps its requests' KV pages in a `BlockManager`, which shares pages of
equal prefixes through a hash table or a `RadixPrefixCache`. Pages can also be
fetched from a remote store: `RemoteKVRestoreService` runs an asyncio loop in
its own thread, in which an `AsyncKVTransferCoordinator` serialises the I/O on
every object key. With tensor parallelism, every call of the model runner is
repeated by the other ranks, which read it from shared memory.

| part | state | operations | what can go wrong |
|---|---|---|---|
| block manager | free and used pages, reference counts, prefix index, stored plans | plan and allocate, resume, reclaim a suffix, compress, append, hash, restore | a page leaked, freed twice, reused while mapped, indexed under the wrong prefix |
| sequence | tokens, block table, cached, physical and scheduled counts | changed by the two above | counts that disagree with the table |
| scheduler | waiting, running, pending restores, limits | add, cancel, schedule, preempt, postprocess | no progress although there is work; a request lost between queues; limits exceeded |
| policies | none (FCFS), clocks and estimates (PALS) | pick a request, a victim, a kept prefix, a reserve | starvation, useless preemption |
| radix cache | nodes, parents, children, block locations, access order | match, insert, remove, LRU victim | pointers and locations that drift apart |
| transfer coordinator | per key: state, generation, payload, current task, waiters | get, put, evict, close | a late result published over a newer one, a caller that waits for ever |
| restore service, catalog | in-flight writes, catalog, snapshots | write back, save, load, plan a restore | a catalog that lists pages the store does not have |
| inference worker | incoming queue, active requests, event queue and cancel flag of each request | start, stop, submit, cancel, admit, step, deliver | a request that gets no final event or two, text repeated or left out, a lost wake-up, work for a client that has left |
| HTTP handlers | where each response is | submit, read events, poll, disconnect | a client that waits for ever |
| model runner | KV tensors | prepare slots, run, import and export pages | writes to a page somebody else reads |
| tensor-parallel ranks | shared buffer, one event per rank | write and read a call, run, exit | a call lost, repeated or read half; ranks that wait for each other for ever |

The engine thread runs every handler of scheduler and block manager to its end,
so the hard part there is not preemption by threads but long histories: partial
prefills, retained prefixes, restores in flight, compression and sharing
combined. Real concurrency is in the coordinator (callers, tasks, worker
threads, cancellations), between the restore thread and the engine, between
HTTP handlers and the engine thread, and between the ranks.

## Modules

| module | models | role |
|---|---|---|
| `BlockManager` | `block_manager.py`, the fields of `sequence.py` it uses, slot mapping of `model_runner.py` | `BMSpec`, the contract: any client that meets the stated obligations |
| `Scheduler` | `scheduler.py`, `kv_admission.py`, `kv_reclaim.py`, policies of `qos.py`, `LLMEngine.step`, clean-up of `engine_worker.py` | extends `BlockManager`; implements `BMSpec` |
| `PrefixIndex` | what the radix cache promises | abstract map from prefixes to blocks |
| `RadixCache` | `radix_cache.py` | heap of nodes; implements `PrefixIndex` |
| `TransferCoordinator` | `transfer_coordinator.py` and the backend it calls | one entry per key, any number of callers |
| `RemoteRestore` | `remote_restore.py`, snapshots of `remote_catalog.py`, write-back and exit of `llm_engine.py` | engine thread, I/O loop, backend, crashes and restarts |
| `EventStream` | what a `GenerationHandle` promises its handler | abstract sequence of events |
| `InferenceWorker` | `engine_worker.py`, the chat handler of `app.py` | handlers, engine thread, control; implements `EventStream` |
| `TensorParallel` | `ModelRunner.__init__`, `call`, `write_shm`, `read_shm`, `loop`, `exit`; start and join of `llm_engine.py` | rank 0 and the others |
| `BlockManagerProofs`, `SchedulerProofs`, `SchedulerProgressProofs`, `RadixCacheProofs`, `TransferCoordinatorProofs`, `RemoteRestoreProofs`, `InferenceWorkerProofs`, `TensorParallelProofs` | | TLAPS proofs |
| `MC...` | | constants for TLC |

### BlockManager

Each method is an operator `...Op` with the effect of the whole method. The
contract adds to each what its caller must guarantee (comments "caller"), for
example that a plan stored by `can_allocate` still describes the cache when
`allocate` uses it. `BMNext` lets an arbitrary client call anything within the
contract; that the scheduler never leaves it is the property `BMSpec` of the
scheduler runs, and a theorem of `SchedulerProofs`.

Abstractions:

* A page is named by the token prefix that ends with it. `compute_hash` is
  injective here, so a 64-bit hash collision is out of scope.
* The free list is a set. Its order, and the radix tree's access stamps, only
  decide which evictable page is reused, and every choice is allowed, except
  that the radix backend prefers pages that are not indexed. When every free
  page is indexed the model lets it take any of them; the code takes the least
  recently used leaf.
* `kv` is a ghost variable: for every slot of every page, the prefix whose keys
  and values were last written there. Nothing reads it except properties and
  the contract's "the batch was run". `CachedPrefixIntact` and
  `IndexedPageIntact` compare it with what the bookkeeping claims.
* An import that fails half-way, and a model run that raises, leave `kv` alone.
  What they may have written lies in pages that only the failed request maps and
  that are not indexed; `ReservedPagesHidden` and `WritesArePrivate` say so.

### Scheduler

`pc` names the point of `_schedule_once` the engine thread has reached; every
loop iteration and every call into the block manager is one action. `loop` holds
the locals. `Break`, `Continue`, `Defer`, `NoRoom` are the exits of the prefill
loop. An exception raised by `schedule` is the state `pc = "error"`.

* FCFS is exact. PALS compares latency budgets made from wall-clock time and
  running averages; each of its choices is open, which covers every clock.
* `SLOAwareKVReclaimPolicy` keeps a share of the prefix that depends on the
  budget: any number of pages up to its cap.
* `compress_query_aware` ranks middle pages by token overlap: any choice of the
  right number.
* `_start_remote_restore` finds no candidate, starts a restore of any length, or
  raises after reserving; a restore ends in success or failure at any poll.
* `RunRaises` is `model_runner` failing; the worker then cancels everything.
* `inPrefill` is `Sequence.is_prefill`, which decides what a sequence is pickled
  as for the other ranks (`RemoteTokens`).

### RadixCache and PrefixIndex

The tree is a heap of node objects with explicit parents, children and
`block_locations`. A call is its loop: `op` says which loop runs, `keys`,
`blocks`, `node`, `position` and `matched` are the locals, and each iteration is a
step (`MatchFollow`, `InsertFollow`, `InsertSplit`, `CompressMerge`, ...), so the
properties are checked in the middle of a call too. The branch of `insert` that
splits an edge is `InsertSplit` followed by `InsertLeaf` for the rest of the keys:
after the split the new node has no child for them. Calls do not overlap; the
engine thread is the only caller.

* `older` gives for each node the nodes accessed before it. `_touch` moves a node
  to the end, which is all that is used of `clock` and `last_access`.
* `Subtree(n)` is what the recursion of `_drop_subtree` reaches: the smallest set
  that holds `n` and the children of its members. Nodes that are dropped or merged
  away leave the heap.
* `path` is a ghost: the keys from the root through the edge of a node. Only the
  properties read it and each step keeps it up to date; that it is the path, namely
  the parent's path and the own edge, is part of the proved invariant.
* `IndexOfTree` is the refinement mapping: the prefix that ends on an edge maps to
  the block at that place. `ImplementsPrefixIndex` is the specification of
  `PrefixIndex` under it.

`MayInsert` is how `hash_blocks` calls `insert`: ids are distinct, and an id that
is already indexed is indexed at that very prefix.

### TransferCoordinator

No lock body awaits, so each is one step. Every operation that reaches the
backend gets the key's next generation and is chained behind the one before, so
a task is its key and generation. A backend call may fail, with or without
having taken effect. The ghosts `seen` and `held` record the values a key held
while a call waited and whether the call's answer was one of them.

The backend is external. It is a map whose puts overwrite and whose removes
delete, as `InMemoryKVStore` is.

### RemoteRestore

Two threads and a store. `engine.pc` is what the engine thread is doing
(exporting a page, publishing, sweeping its batches, flushing saves); `io` lists
the calls it has handed to the loop, with the stage of their futures. A page is
its token prefix, since object keys and the radix index are both derived from
it; the catalog is a prefix-closed set, a snapshot its leaves.

* The coordinator appears by its contract, which `TransferCoordinator` is about:
  calls start in order, I/O on one object is chained (`Turn`), a get is answered
  by a resident entry, joins what is in flight, or fetches; a superseded
  operation answers None.
* `_process_remote_writebacks` walks over a copy of the list, one batch per step,
  while the loop goes on. `exit` does the same, waiting.
* `Crash` may let calls that are at the backend take effect. Everything in memory
  goes. `Restart` loads what is stored, or nothing: a failed, late, corrupted or
  foreign catalog object all leave an empty catalog.
* Only one process runs at a time: the repository's documentation excludes
  several writers of one catalog.
* Cancelling a restore leaves its fetches running; one that had not started yet
  may not run in the code, which changes nothing that is checked.
* `register_existing_prefix` trusts its caller that the pages exist.
* The backend may drop pages (`StoreEvicts`) but not the catalog object; a dropped
  catalog is one more way to restart with an empty one.

### InferenceWorker and EventStream

Three kinds of actors. A handler submits (two steps: the check that the worker is
alive, and the put), starts its body, and reads events; a client may leave
wherever the code would notice. The engine thread is `_run`, one step for every
queue operation, engine call and event put; `pc` and `todo` say which loop it is
in. `control` is the caller of `start` and `stop`, one at a time, as in the
application's lifespan; a `stop()` that times out is covered by letting the caller
go on while the thread lives.

* The engine is what the worker sees of it: a set of requests, steps that give
  some of them a token and finish some, and calls that may raise.
* Text is counted in tokens. After `n` tokens a prefix of any length up to `n`
  may be stable, which is what cutting at the replacement character leaves. A
  tokenizer may also decode more tokens to a text that does not begin with what was
  sent. In the middle of a request the code then sends nothing, as if nothing more
  were stable; at its end it sends no tail, and the event is `"diverged"`, a
  `GenerationFinished` whose text the stream does not add up to.
* Requests of a batch are visited in any order.
* `GenerationEventQueue.put` is two steps: the item is queued, then the waiters
  registered at that time are woken (`unwoken`, `Notify`). The handler registers
  and looks at the queue in one step (`Look`) and waits in another (`Await`); a
  put between registering and looking has the same effect as one before both.
* An exception in `_finish`, after the request left `active`, is recorded in
  `dropped`; a `cancel_request` that raises inside `_fail_active` or the finally
  clause leaves the request in the engine (`stranded`).
* A streaming response whose client leaves before the body starts never runs its
  finally clause, so the request is not cancelled and runs to its end.

`ImplementsEventStream` is the specification of `EventStream`, with `sent` as
the events put for each request: contiguous pieces, at most one final event,
nothing after it, and a finished stream that has sent all of its text.

### TensorParallel

Rank 0 writes the length, then the data, then sets one event after the other; the
others wait, read the length, read the data, clear their event and execute. The
buffer's content is the number of the write it comes from, so a torn or repeated
message is visible. `run` returns on rank 0 when every rank has launched its
collectives, since the sampler reads logits gathered from all of them; on the
other ranks it returns at once. This is what keeps the buffer safe: `write_shm`
itself waits for nobody, and a method without a collective (`export_kv_page`,
`import_kv_page`) would break `Lockstep`. `LLMEngine.__init__` refuses remote KV
together with tensor parallelism, so no such call is made. A barrier is left by
each rank in its own step after all have arrived. Errors inside `run` are left
out: what unmatched collectives do is not in the source.

## Runs

| run | bounds | shows |
|---|---|---|
| `pool` | 2 requests sharing prefixes, 3 pages of 2 tokens, lengths up to `MaxLen`, radix index | the contract keeps the pool consistent, cached and indexed pages intact, writes private and decode windows aligned |
| `scheduler_core` | 3 requests (two share two pages), 4 pages, hash index, PALS, restores, failures | no scheduler error, queues and pages accounted for, batches well formed, the other ranks get the tokens they prefill, `BMSpec` implemented |
| `scheduler_pressure` | 3 requests of which two can outgrow 4 pages together, PALS, radix, compression, lookahead, 2 residents | no scheduler error, the resident limit and `BMSpec` under preemption and compression |
| `scheduler_live` | 3 requests, 3 pages, FCFS, restores | every step ends, every request is answered |
| `transfer` | 3 callers, 1 key, 1 payload | entries agree with the backend, answers are honest, waiters are counted, every call returns |
| `remote_safety` | 3 prefixes on 2 branches, 4 coordinator calls, 2 processes, a backend that drops pages | catalogs list written pages only, marks are cleared, the newest save wins, exit loses nothing |
| `remote_live` | the same prefixes, 4 calls, 1 process, a backend that drops pages | the engine thread always gets on |
| `radix_tree` | 2 page keys, 4 blocks, depth 3 | after every iteration the tree is linked and is the prefix map; `match` finds the longest prefix; an eviction costs one page |
| `worker` | a streaming request of 2 tokens and a polling one of 1, 2 calls of start or stop, 1 request stranded | events whole and once, engine and worker agree, a cancel is noticed within a step, every client is answered |
| `tensor_parallel` | 4 ranks, 3 batches and exit | ranks repeat rank 0's calls in lockstep; exit ends all |
| `transfer_close` | 3 callers, 1 key, 2 payloads | finding: a fetch can start after `close()` |
| `radix_compressed` | as `radix_tree` | finding: `validate()`'s one-child assertion fails |

Bounds. Two tokens per page make page boundaries, partial and full pages happen
within a few steps. The caches hold fewer pages than the requests want together
and at least what one of them may need, as admission guarantees, so sharing,
preemption, self-preemption, retained prefixes and eviction of indexed pages all
occur. `Sampled` has one token: two requests with one prompt prefix then also
generate equal pages. Three callers are the fewest with an operation that
supersedes one that another caller has joined. Keys of the coordinator do not
interact, so one is enough; the proofs cover any number of keys and payloads. A
tree of depth 3 over two keys has splits at every position and merges of nodes with and without grandchildren.

Four coordinator calls are enough for two batches that share a page of which one
write fails, for a batch, its save and the restore of one of its pages, and for a
batch, a crash and a second batch on the reloaded catalog. A batch counts for the
save it will make. With five calls and a backend that keeps its pages (3.8 million
states) the same invariants hold.

One request of the worker streams two tokens, so there is a delta before the last
step and a tail after it; the other one ends with its first token, so a step can
finish one and not the other. Two control calls are start and stop, or a start
that failed or a thread that died and another start, which finds the requests the
first left in the queue. A start that finds the stop marker of a `stop()` on a dead
thread is the third call: the safety theorems cover it, and with three calls and no
stranded request (393 thousand states) all four properties hold too. Four ranks
make the events set early, in the middle and last different; two batches before
exit are the fewest in which a message could be overwritten unread, and each batch
may be too large.

Deadlock is checked in all runs in which the system does not end: `Quiet` is the
intended rest. After `exit` no rank does anything, and a stopped worker whose
clients are gone has no next step either; in `worker` and `tensor_parallel`
the liveness properties take the place of the deadlock check.

Fairness. `scheduler_live` assumes that the engine thread keeps running
(`WF(Engine)`: one thread, no lock around its steps) and that a transfer ends,
well or badly (`WF(Transfers)`: backend calls return). Nothing is assumed about
clients. Under PALS with open choices a request can be passed over for ever, so
`EveryRequestAnswered` is about FCFS. `transfer` assumes that the event
loop runs ready tasks and that backend calls return. `remote_live` assumes the
same and that the engine thread goes on with an operation it has begun; it does
not count on any timeout. `worker` assumes that the engine thread and the event
loop go on, and `TokensArrive`: a request that stays in the engine gets its next
token. `scheduler_live` is evidence of that for FCFS; for PALS, the default of
`nanovllm.serve`, it is an assumption, and one that the code supports in that all
budgets age at the same rate. It assumes nothing of clients,
and it does not count on the 0.25 s timeout of the polling handler.
`tensor_parallel` assumes that every process runs and that `exit` is called, as
`atexit` does.

What `EveryRequestEnds` excepts is what the code does: a request whose `_finish`
raised, and a request still in the queue when the thread ends, have no final
event. A streaming client of either waits until it gives up.

## Proofs

Each component's proofs are in a module of their own, which extends the
component's specification. A property is proved as `Spec => []P` from an
inductive invariant `IndInv` of which `P` is a part or a consequence: almost none
of the properties is inductive by itself. TLC checked every `IndInv` before it was
proved. All assumptions are the named `ASSUME`s of the specifications, which
every run evaluates: no bound of the runs is among them, and constants such as
`MaxLen`, `MaxIO` or `MaxWrites` may have any value.

| theorems of | about | for every |
|---|---|---|
| `BlockManagerProofs` | `PoolConsistent`, `CachedPrefixIntact`, `IndexedPageIntact`, `WritesArePrivate`, `AttentionWindow` | set of requests and pages, page size of at least 2, prompt, both index backends |
| `SchedulerProofs` | `BMSpec` and through it the five above, `QueuesMatchStatus`, `NoOrphanPages`, `RanksSeeTheTokens`, `ReservedPagesHidden` | the same, and all limits, both policies, both reclaim policies, all compressions, restores and failures or none |
| `SchedulerProgressProofs` | `NoSchedulerError`, `BatchWellFormed`, `ResidentLimit` | the same |
| `RadixCacheProofs` | `ImplementsPrefixIndex`, `MatchIsLongestPrefix`, `TreeIsLinked`, `EvictionTakesOnePage` | set of page keys and of block ids, depth |
| `TransferCoordinatorProofs` | `TypeOK`, `InFlightHasTask`, `SettledAgreesWithBackend`, `AnswersWereHeld`, `WaitersCounted` | set of keys, payloads, finite set of callers |
| `RemoteRestoreProofs` | `CatalogBacked`, `SavedCatalogBacked`, `InflightOwned`, `LatestSaveWins`, `ExitKeepsWrites`, `MissingExplained` | finite set of paths, any number of calls and processes |
| `InferenceWorkerProofs` | `EngineHoldsActive`, `CancelledRunsOneMoreStep`, `ImplementsEventStream`, `NoLostWakeup` | set of requests, token limits, number of starts and stops |
| `TensorParallelProofs` | `Lockstep`, `NoRankCrashes` | number of ranks and of calls |

### Block manager

`IndInv` joins the three properties about pages to what makes them inductive:

* `TableInv`: a table is either *whole* (position `i` is page `i`, physical and
  cached counts agree, a scheduled request has all its pages) or *thinned* (pages
  are gone from the middle, the page being filled is the last, and the physical
  count agrees with the cached one modulo the page size). Everything that uses
  positions as page numbers depends on which of the two it is.
* `OpenPagesPrivate`: a page with a position still to be computed is mapped by one
  request and not indexed. This is why `run` and an import cannot damage what
  another request or the index relies on; `WritesArePrivate` follows from it.
* `HashesAgree`: with the hash table, `block.hash` is the key of every entry and
  of every completed page of a whole table. `hash_blocks` chains from the hash of
  the page before, so without this a page could be indexed under a wrong prefix.

There is one lemma per operation and invariant part. `PoolConsistent` counts
holders with the theorems on finite cardinalities; the pages a lookup returns are
distinct because each holds its own prefix (`IndexedPageIntact`), which is what
keeps a page from being claimed twice by one table.

### Scheduler

The scheduler extends the block manager, so its invariant `SInv` is `IndInv` of the
block manager together with `SchedInv`, and the two are proved at the same time:
`SchedInv` says enough about every request to meet the obligations that the
contract puts on the caller of each operation, and the contract keeps `IndInv`.
`Spec => BMSpec` is then immediate, and with it all that is proved of `BMSpec`.
The parts of `SchedInv`:

* `QueueInv`: the queue of a request is the one its status names, except for the
  request the handler has in hand (taken from the running queue, reserved for a
  restore that could not start, answered and about to leave). `QueuesMatchStatus`
  is this at the points where no request is in hand.
* `BatchInv`: exactly the members of the batch have tokens scheduled. A member of a
  prefill batch is complete and running, or it is a waiting chunk, and then the
  token budget is used up. This is why the loop that goes on never picks, evicts or
  releases a member of the batch it builds.
* `RequestInv`: what the status of a request says about its table. A waiting
  request has something to compute, and a table that is not full holds computed
  pages only; a pending one has a full table; a running one that is not in the
  batch is ready to decode; only running requests are compressed; and a request
  that is to be prefilled has `is_prefill` set (`RanksSeeTheTokens`).
* `CurInv`: what the handler knows about the request in hand. Between `can_allocate`
  and `allocate`, and between `can_resume` and `resume`, the stored plan is what a
  new look would find. After a restore that could not start, the pages that were
  reserved are those a second `allocate` will find (`Reserved`): the cached ones
  are still indexed and enough pages are free again. Without it `allocate` could
  raise after `submit` did.
* `RunInv`: a batch that was run has its KV in place until it is postprocessed.

`NoSchedulerError` needs a second layer, `ProgressInv`, inductive relative to
`SInv`. The handler is *starving* when nothing runs, nothing is pending and nothing
is scheduled. A starving prefill loop has a waiting request, has put nobody off,
and has its whole budget left. If `can_allocate` fails, some waiting request
retains pages (otherwise the cache is empty, and `_admit` only lets requests in
that fit an empty cache), and the loop turns to those. `_ensure_resume_capacity`
evicts the others one by one, then the request's own pages, after which the
cache is empty. A decode loop that preempted its last request retries once, and
in the second pass nothing runs.

`BatchWellFormed` follows from `LimitInv`: the running totals of the scheduled tokens
end at `num_batched_tokens`, and every member after the first is complete.
`ResidentLimit` follows from `ResidentInv`, which counts the requests that own
pages: they never exceed `max_num_active_seqs`, and while the prefill loop has a
request without pages in hand they are fewer. In the loop the code's resident
count is at least their number, and between steps it is equal to it.

What the proofs assume of the configuration is in the `ASSUME`s of `BlockManager`
and `Scheduler`: finitely many requests and pages, pages of at least 2 tokens,
positive limits, and `AdmissionAssumption`, the comparison of a request's greatest
length with the capacity of the cache that admission makes.

Proving it changed the model in one place. The two arms of
`ShouldSchedulePrefill` for an empty candidate set and for FCFS or an idle running
queue overlapped; TLC takes the first, in TLA+ either could be meant. They are
disjoint now.

### Transfer coordinator

`IndInv` adds:

* `GenerationCounts`: the generation of a key is the number of its tasks, so the
  newest task is the current one and `generation[k] = g` means "not superseded";
* `Chained`: a task past "queued" has only finished tasks before it, so at most
  one task per key is between its I/O and its end;
* `LastIOAgrees`: between its I/O and its end the newest task holds what the
  backend holds: nothing can have been written in between, because what was
  started later waits for it;
* `SettledIsDone`: a key that is not in flight has no unfinished task, so the
  backend cannot change under a settled entry;
* `ValueFitsKind`, `WaitersSee`: what a task may answer is what its waiters saw.

With these, each step is one lemma: starting an operation (`EntryLaunch`), its
I/O (`EntryIO`), its end (`EntryFinish`), and the same for calls. A settled entry
changes only by its newest task ending, which publishes what the backend holds.
`WaitersCounted` is inductive relative to `IndInv`: every step moves one call into
or out of the set of waiting ones, or none. So the `max(0, ...)` with which the
code guards the counter never takes effect.

### Restore service

`IndInv` has two halves. `StoreInv` is about the loop and the store: a successful
put left its page, a snapshot on its way lists written pages only, calls start in
order and saves end in order, and the last save carries the current catalog. The
last two give `LatestSaveWins`. `EngineInv` is about the engine thread: the writes
of a batch together with the catalog make up its path (`Covers`), a mark belongs
to a batch, and a path submitted for write-back is in a batch or registered and
saved, unless something failed. `ExitKeepsWrites` follows, since exit ends with no
batch and no unresolved call.

`MissingExplained` needs a second layer, `FetchInv`, which is inductive relative to
`IndInv`: only listed pages are fetched; a put submitted after a fetch of its page
comes from `publish_prefix`; operations on one object end in order; and a fetch
that joins another joins the newest. Hence a fetch can be superseded only by
`publish_prefix`, and otherwise reads the store after the write that listed its
page.

### Radix tree

`IndInv` has five parts. `TypeOK` includes that the heap is finite. `LinkInv`: the
path of a node is its parent's path and its own edge, no edge is empty, and parent
pointers and children dictionaries are each other's inverse. `LocationInv`:
`block_locations` is the inverse of the nodes' block ids, so no block is in two
places. `OrderInv`: `last_access` is a strict linear order. `CallInv` is what the
locals of a loop mean: the path of `node` agrees with the first `position` keys,
`matched` is what the index says of them, a finished match knows that nothing
longer is indexed, and an insertion may still be made.

*Paths instead of recursion.* `Under(n, m)`, "the path of `m` goes through `n`",
replaces reachability. `OneOwner`, the lemma the rest stands on, says that no
prefix ends on the edges of two nodes; it takes a shortest prefix that does and
shows that one shorter by a page would too. `SubtreeIs` shows that the set
`_drop_subtree` visits is what lies under its node, by taking a node of least
depth under `n` outside a set closed under children.

*Refinement.* The walks, splits and merges are `Quiet`: they keep `IndInv` and
leave `IndexOfTree` alone. For a split or a merge that is the work of
`SplitIndexed` and `MergeIndexed`: every prefix still ends on some edge, with the
same block there. `InsertLeaf` is the one step of an insertion that changes the
map, and is `Insert` of the prefix map; `InsertNothing` is a stutter because all
prefixes were there. The first step of `remove_block`, which detaches the subtree
and cuts the edge, is `RemoveBlock` of the prefix map, and `_compress`
after it is invisible. For each step that changes the tree the proof has the same
layout: what the step does to each node (`SplitIs`), the situation it happens in
(`SplitSettingIs`), and one lemma for each part of the invariant.

*Eviction.* Every node has a leaf under it (a node with the fewest nodes below).
With the pages below an eligible one eligible too, the last page of such a leaf is eligible,
so there is a candidate, the oldest candidate exists because the order is linear,
its deepest eligible block is the last page of a leaf, and no indexed prefix goes
on beyond that page.

That an inner node has at least two children is not part of the invariant and is
not true (`radix_compressed`).

### Inference worker

`Once` says that a request passes through the incoming queue once, so nothing was
done for it when the thread takes it out. `EngineInv` follows what the engine holds
through the phases of `_run`; `TextInv` says that what was put for a request which
is still owed its final event is exactly its text up to `emitted`; `LimitInv` that
a request that reaches its token limit is among the step's outputs.
`ImplementsEventStream` is proved step by step: every event put extends the
stream by a piece that begins where the last one ended, or ends it, whatever the
tokenizer makes of longer token sequences, and nothing is put for a request that is
no longer owed anything. `NoLostWakeup` is the safety part of `EveryRequestEnds`.

### Tensor parallelism

`Progress(k)` follows rank `k` through the one call that may be outstanding. That
there is never more than one rests on the counts of launched collectives:
the gather of rank 0 waits for all of them, so a rank that has launched has read
its message and cleared its event before rank 0 writes the next one.
`NoRankCrashes` uses a second invariant, about the two barriers.

### Induction

Where an argument over lengths or positions was needed (a least page, the last
save, the longest match), it is made by taking a least or greatest counterexample
of a set of numbers, since the induction theorems cannot be instantiated.

### Only model-checked

* All liveness (`EveryCallReturns`, `EngineReturns`, `EveryRequestEnds`,
  `EveryRankExits`, `StepEnds`, `EveryRequestAnswered`): fairness and `ENABLED`
  are outside the prover.

Every other property of a passing run is a theorem. `BlockManager` uses the radix
tree by what `PrefixIndex` promises, and `TreeRefinesPrefixIndex` shows that the
tree keeps that promise; that the two specifications compose is argued here and not
a theorem, since `BlockManager` calls the index inside larger steps.

## Findings

* `transfer_close`: `get` checks `_ensure_open` once. A `get` that waited for an
  eviction loops and may start a fetch after `close()` saw every task done, up to
  and including after the backend was closed.
* `radix_compressed`: inserting a longer prefix below a stored one creates an
  inner node with a single child, which `validate()` asserts never exists. The map
  the tree represents is right all the same (`radix_tree`).

## Observations

Behaviour met while modelling that no document of the repository contradicts:

* `submit` can enqueue behind the stop marker, or after the thread has died; the
  request is answered only if the worker is started again.
* `stop()` on a thread that has died leaves `_STOP` in the queue; the next
  `start()` gives a worker that stops at once.
* `_cancel_requests` is outside the loop's `try`: if `cancel_request` raises, the
  engine thread ends.
* When `_finish` raises, `_fail_active` reports the failure to every active
  request except the one it happened to.
* If `run` raises on rank 0 with tensor parallelism, the other ranks have already
  been told to run; the worker goes on all the same.

## Not modelled

`PROJECT.json` lists every component. Left out for good: tensor kernels, the
page codec, HTTP parsing and formatting, authentication, metrics, tracing, the
mock engine, and the Transformers demonstration server under `scripts`, which uses
none of the engine. Floating-point cost models (the PALS budgets, the transfer
planner) are replaced by all their possible answers: a specification of the
formulas would repeat them. The tiered radix cache of `hierarchical_cache.py` is
one `RadixPrefixCache` per tier and adds no state of its own. A page that does not
decode is one of the ways a restore fails.

## What could follow

1. The composition of `InferenceWorker` with `Scheduler` in place of the set of
   requests that stands for the engine.
2. A `BlockManager` that holds a `RadixCache` instead of the prefix map, so that the
   choice of the reused page is the one of `lru_leaf_block`.
