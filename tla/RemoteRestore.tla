---------------------------- MODULE RemoteRestore ----------------------------
(***************************************************************************)
(* RemoteKVRestoreService and RemotePrefixCatalog (remote_restore.py), the *)
(* snapshots of remote_catalog.py, and the engine thread's side of them in *)
(* llm_engine.py: write-backs, restores, catalog saves, exit and restart.  *)
(*                                                                         *)
(* Data abstraction.  A page is the token prefix that ends with it, which  *)
(* is what make_kv_page_key and the radix index are keyed by; its envelope *)
(* is determined by that prefix.  The catalog is a prefix-closed set of    *)
(* pages (the handles below a radix tree, see RadixCache).                 *)
(*                                                                         *)
(* The coordinator is used by its contract: calls reach an object's entry  *)
(* in the order of submission, I/O on one object happens in that order, a  *)
(* get is answered by the entry or by the operation in flight.             *)
(***************************************************************************)
EXTENDS Integers, Sequences, FiniteSets, Functions, SequencesExt

CONSTANTS
    Paths,            \* page sequences that requests complete
    MinPrefixBlocks,  \* remote_kv_min_prefix_blocks
    StoreEvicts,      \* whether the backend drops pages by itself
    MaxIO,            \* bound on coordinator calls
    MaxLives          \* bound on processes

ASSUME PathsAssumption ==
    IsFiniteSet(Paths) /\ \A p \in Paths : p # <<>> /\ p \in Seq(Range(p))
ASSUME MinPrefixAssumption == MinPrefixBlocks \in Nat \ {0}
ASSUME StoreEvictsAssumption == StoreEvicts \in BOOLEAN
ASSUME BoundsAssumption == MaxIO \in Nat /\ MaxLives \in Nat

VARIABLES
    stored,        \* pages the backend holds
    savedCatalog,  \* the catalog object: leaf paths, or why there are none
    catalog,       \* RemotePrefixCatalog
    inflight,      \* _inflight_writes: page -> call
    batches,       \* pending_remote_writebacks
    saves,         \* _pending_catalog_saves
    restores,      \* pending restores' transfers
    io,            \* coordinator calls of this process, in submission order
    engine,        \* the engine thread
    lives,         \* processes started so far
    spent,         \* bound: what earlier processes used of MaxIO
    lost,          \* ghost: pages the backend dropped
    republished,   \* ghost: pages publish_prefix wrote in this process
    owed,          \* ghost: paths submitted for write-back in this process
    hurt           \* ghost: some I/O of this process failed or timed out

storeVars == <<stored, savedCatalog, lost>>
serviceVars == <<catalog, inflight, batches, saves, restores>>
ghostVars == <<republished, owed, hurt>>
procVars == <<lives, spent>>
vars == <<storeVars, serviceVars, io, engine, procVars, ghostVars>>

Pages(path) == Prefixes(path) \ {<<>>}
PageSeq(path) == [i \in 1..Len(path) |-> SubSeq(path, 1, i)]
AllPages == UNION {Pages(path) : path \in Paths}

\* The pages of one path in F, shortest prefix first.
InOrder(F) ==
    {f \in [1..Cardinality(F) -> F] :
        /\ Range(f) = F
        /\ \A i, j \in DOMAIN f : i < j => Len(f[i]) < Len(f[j])}

CatalogKey == <<>>
\* No snapshot has an empty path. Unreadable: corrupted, or of another engine.
NoCatalog == {<<>>}
Unreadable == {<<>>, <<"unreadable">>}

\* snapshot: one record for every leaf of the tree.
Snapshot(pages) == {p \in pages : ~ \E q \in pages : IsStrictPrefix(p, q)}

\* merge_snapshot of what decode accepts.
Merge(saved) ==
    IF saved \in {NoCatalog, Unreadable} THEN {} ELSE UNION {Pages(p) : p \in saved}

Idle == [pc |-> "idle"]

Init ==
    /\ stored = {}
    /\ savedCatalog \in {NoCatalog, Unreadable}
    /\ catalog = {} /\ inflight = <<>>
    /\ batches = <<>> /\ saves = <<>> /\ restores = {}
    /\ io = <<>>
    /\ engine = [pc |-> "down"]
    /\ lives = 0 /\ spent = 0
    /\ lost = {} /\ republished = {} /\ owed = {} /\ hurt = FALSE

---------------------------------------------------------------------------
(* Calls of the coordinator *)

PutCall(key, value) ==
    [op |-> "put", key |-> key, value |-> value, stage |-> "new", task |-> 0]
GetCall(key) ==
    [op |-> "get", key |-> key, value |-> {}, stage |-> "new", task |-> 0]

Failed(i) == io[i].stage = "failed"
Resolved(i) == io[i].stage \in {"ok", "missing", "failed"}

\* The operation an object's entry stands for; 0 before the first one.
Newest(key) ==
    LET ops == {i \in DOMAIN io : io[i].key = key /\ io[i].task = i}
    IN  IF ops = {} THEN 0 ELSE CHOOSE i \in ops : \A j \in ops : j <= i

\* The coroutine of call i runs on the loop and takes the entry's lock.
Start(i) ==
    LET n == Newest(io[i].key)
        flying == n # 0 /\ io[n].stage = "open"
        resident == n # 0 /\ io[n].stage = "ok"
    IN  /\ io[i].stage = "new" /\ \A j \in 1..(i - 1) : io[j].stage # "new"
        /\ IF io[i].op = "get" /\ resident
           THEN io' = [io EXCEPT ![i].stage = "ok"]
           ELSE io' = [io EXCEPT
                  ![i].stage = "open",
                  ![i].task = IF io[i].op = "get" /\ flying THEN n ELSE i]
        /\ UNCHANGED <<storeVars, serviceVars, engine, procVars, ghostVars>>

\* Slip: operations on one object overlap.
TurnAtOnce(i) == io[i].stage = "open" /\ io[i].task = i

\* Operation i has its turn: what was started on the object before it is over.
Turn(i) ==
    /\ io[i].stage = "open" /\ io[i].task = i
    /\ \A j \in 1..(i - 1) : io[j].key = io[i].key /\ io[j].task = j => Resolved(j)

\* The puts of W reach the backend.
Written(W) ==
    LET pages == {io[i].key : i \in W} \ {CatalogKey}
        snaps == {io[i].value : i \in {j \in W : io[j].key = CatalogKey}}
    IN  /\ stored' = stored \cup pages
        /\ savedCatalog' = IF snaps = {} THEN savedCatalog
                           ELSE CHOOSE s \in snaps : TRUE
        /\ UNCHANGED lost

\* Call i ends with result, and so do the gets that joined it, with answer.
Resolve(i, result, answer) ==
    io' = [j \in DOMAIN io |->
             CASE j = i -> [io[j] EXCEPT !.stage = result]
               [] j # i /\ io[j].task = i -> [io[j] EXCEPT !.stage = answer]
               [] OTHER -> io[j]]

\* A superseded operation answers None.
Answer(i, result) == IF Newest(io[i].key) = i THEN result ELSE "missing"

PutSucceeds(i) ==
    /\ Turn(i) /\ io[i].op = "put"
    /\ Written({i})
    /\ Resolve(i, "ok", Answer(i, "ok"))
    /\ UNCHANGED <<serviceVars, engine, procVars, ghostVars>>

GetSucceeds(i) ==
    LET found == Answer(i, IF io[i].key \in stored THEN "ok" ELSE "missing")
    IN  /\ Turn(i) /\ io[i].op = "get"
        /\ Resolve(i, found, found)
        /\ UNCHANGED <<storeVars, serviceVars, engine, procVars, ghostVars>>

\* A failed put may have reached the backend.
IOFails(i) ==
    /\ Turn(i)
    /\ \/ io[i].op = "put" /\ Written({i})
       \/ UNCHANGED storeVars
    /\ Resolve(i, "failed", "failed")
    /\ hurt' = TRUE
    /\ UNCHANGED <<serviceVars, engine, procVars, republished, owed>>

Evicted(p) ==
    /\ StoreEvicts
    /\ stored' = stored \ {p} /\ lost' = lost \cup {p}
    /\ UNCHANGED <<savedCatalog, serviceVars, io, engine, procVars, ghostVars>>

\* run_coroutine_threadsafe for a list of calls.
Submit(calls) == io' = io \o calls

\* The bound: calls made so far, with the saves that batches will submit.
Used == spent + Len(io) + Len(batches)
RoomFor(n) == Used + n <= MaxIO

---------------------------------------------------------------------------
(* Publishing *)

\* _schedule_catalog_save; what is registered has this engine's identity.
ScheduleCatalogSave(pages) ==
    /\ Submit(<<PutCall(CatalogKey, Snapshot(pages))>>)
    /\ saves' = Append(saves, Len(io'))

\* catalog.register keeps the pages that are listed already.
Register(path) ==
    /\ catalog' = catalog \cup Pages(path)
    /\ ScheduleCatalogSave(catalog')

RegisterExistingPrefix(path) ==
    /\ engine = Idle /\ RoomFor(1)
    /\ Pages(path) \subseteq stored
    /\ Register(path)
    /\ UNCHANGED <<storeVars, inflight, batches, restores, engine, procVars, ghostVars>>

\* publish_prefix writes every page, then blocks on the futures.
PublishPrefix(path) ==
    /\ engine = Idle /\ RoomFor(Len(path) + 1)
    /\ Submit([k \in 1..Len(path) |-> PutCall(PageSeq(path)[k], {})])
    /\ engine' = [pc |-> "publishing", path |-> path,
                  puts |-> (Len(io) + 1)..(Len(io) + Len(path))]
    /\ republished' = republished \cup Pages(path)
    /\ UNCHANGED <<storeVars, serviceVars, procVars, owed, hurt>>

\* Slip: the prefix is registered without waiting for its pages.
PublishAtOnce ==
    /\ engine.pc = "publishing"
    /\ Register(engine.path)
    /\ engine' = Idle
    /\ UNCHANGED <<storeVars, inflight, batches, restores, procVars, ghostVars>>

PublishReturns ==
    /\ engine.pc = "publishing" /\ \A i \in engine.puts : io[i].stage = "ok"
    /\ Register(engine.path)
    /\ engine' = Idle
    /\ UNCHANGED <<storeVars, inflight, batches, restores, procVars, ghostVars>>

PublishRaises ==
    /\ engine.pc = "publishing" /\ \E i \in engine.puts : Failed(i)
    /\ engine' = Idle
    /\ UNCHANGED <<storeVars, serviceVars, io, procVars, ghostVars>>

PublishTimesOut ==
    /\ engine.pc = "publishing" /\ \E i \in engine.puts : ~Resolved(i)
    /\ engine' = Idle /\ hurt' = TRUE
    /\ UNCHANGED <<storeVars, serviceVars, io, procVars, republished, owed>>

---------------------------------------------------------------------------
(* Write-backs: one pass of _enqueue_remote_writebacks *)

Unpublished(path) == Pages(path) \ catalog

\* A failed write is forgotten, to be tried again.
ForgetFailed(path) ==
    LET retry == {p \in Unpublished(path) \cap DOMAIN inflight : Failed(inflight[p])}
    IN  inflight' = Restrict(inflight, DOMAIN inflight \ retry)

\* The step completed the last pages of path for an uncompressed request.
PagesRequiringWrite(path) ==
    /\ engine = Idle
    /\ Len(path) >= MinPrefixBlocks
    /\ ForgetFailed(path)
    /\ RoomFor(1 + Cardinality(Unpublished(path) \ DOMAIN inflight'))
    /\ engine' = [pc |-> "exporting", path |-> path,
                  required |-> Unpublished(path) \ DOMAIN inflight']
    /\ UNCHANGED <<storeVars, catalog, batches, saves, restores, io, procVars,
                   ghostVars>>

ExportFails ==
    /\ engine.pc = "exporting" /\ engine.required # {}
    /\ engine' = Idle /\ hurt' = TRUE
    /\ UNCHANGED <<storeVars, serviceVars, io, procVars, republished, owed>>

\* The pages were exported meanwhile; writes in flight are joined.
SubmitWriteback ==
    LET path == engine.path
        plan == Unpublished(path)
        new  == plan \ DOMAIN inflight
    IN  /\ engine.pc = "exporting"
        /\ engine' = Idle
        /\ IF plan = {} \/ ~(new \subseteq engine.required)
           THEN UNCHANGED <<inflight, batches, io, owed>>
           ELSE \E fresh \in InOrder(new) :
                /\ Submit([k \in DOMAIN fresh |-> PutCall(fresh[k], {})])
                /\ inflight' = [p \in DOMAIN inflight \cup new |->
                      IF p \in new
                      THEN Len(io) + (CHOOSE k \in DOMAIN fresh : fresh[k] = p)
                      ELSE inflight[p]]
                /\ batches' = Append(batches,
                      [path |-> path, writes |-> {inflight'[p] : p \in plan}])
                /\ owed' = owed \cup {path}
        /\ UNCHANGED <<storeVars, catalog, saves, restores, procVars, republished, hurt>>

---------------------------------------------------------------------------
(* _process_remote_writebacks and exit *)

BatchFailed(batch) == \E i \in batch.writes : Failed(i)
\* Slip: one written page is enough.
BatchBegun(batch) == \E i \in batch.writes : io[i].stage = "ok"

BatchWritten(batch) == \A i \in batch.writes : io[i].stage = "ok"
Done(batch) == BatchFailed(batch) \/ BatchWritten(batch)

\* Slip: the batch goes, its marks stay.
SettleList(batch) == batches' = RemoveFirst(batches, batch) /\ UNCHANGED inflight

\* The entries of _inflight_writes that the batch ends.
Settle(batch) ==
    /\ inflight' = Restrict(inflight,
                      {p \in DOMAIN inflight : inflight[p] \notin batch.writes})
    /\ batches' = RemoveFirst(batches, batch)

CompleteWriteback(batch) == BatchWritten(batch) /\ Register(batch.path) /\ Settle(batch)

FailWriteback(batch) == Settle(batch) /\ UNCHANGED <<catalog, saves, io>>

\* step() and exit() walk over a copy of the list.
ProcessRemoteWritebacks(exiting) ==
    /\ engine = Idle
    /\ engine' = [pc |-> "sweeping", todo |-> batches, exiting |-> exiting]
    /\ UNCHANGED <<storeVars, serviceVars, io, procVars, ghostVars>>

Advance == engine' = [engine EXCEPT !.todo = Tail(@)]

\* Slip: exit does not wait for its batches.
SweepNoWait ==
    LET batch == Head(engine.todo)
    IN  /\ engine.pc = "sweeping" /\ engine.todo # <<>>
        /\ \/ CompleteWriteback(batch)
           \/ BatchFailed(batch) /\ FailWriteback(batch)
           \/ ~Done(batch) /\ UNCHANGED <<catalog, inflight, batches, saves, io>>
        /\ Advance
        /\ UNCHANGED <<storeVars, restores, procVars, ghostVars>>

\* Slip: a failed batch is waited for.
SweepWaitsForFailed ==
    LET batch == Head(engine.todo)
    IN  /\ engine.pc = "sweeping" /\ engine.todo # <<>>
        /\ \/ CompleteWriteback(batch)
           \/ /\ ~Done(batch) /\ ~engine.exiting
              /\ UNCHANGED <<catalog, inflight, batches, saves, io>>
        /\ Advance
        /\ UNCHANGED <<storeVars, restores, procVars, ghostVars>>

\* A batch that is done ends, one that is not is left for the next step, or,
\* by exit, waited for.
SweepOne ==
    LET batch == Head(engine.todo)
    IN  /\ engine.pc = "sweeping" /\ engine.todo # <<>>
        /\ \/ CompleteWriteback(batch)
           \/ BatchFailed(batch) /\ FailWriteback(batch)
           \/ /\ ~Done(batch) /\ ~engine.exiting
              /\ UNCHANGED <<catalog, inflight, batches, saves, io>>
        /\ Advance
        /\ UNCHANGED <<storeVars, restores, procVars, ghostVars>>

SweepTimesOut ==
    /\ engine.pc = "sweeping" /\ engine.todo # <<>>
    /\ engine.exiting /\ ~Done(Head(engine.todo))
    /\ FailWriteback(Head(engine.todo))
    /\ Advance
    /\ hurt' = TRUE
    /\ UNCHANGED <<storeVars, restores, procVars, republished, owed>>

\* flush_catalog_saves; exit goes on with close.
SweepEnd ==
    /\ engine.pc = "sweeping" /\ engine.todo = <<>>
    /\ saves' = SelectSeq(saves, LAMBDA i : ~Resolved(i))
    /\ engine' = IF engine.exiting THEN [pc |-> "flushing"] ELSE Idle
    /\ UNCHANGED <<storeVars, catalog, inflight, batches, restores, io, procVars,
                   ghostVars>>

\* flush_catalog_saves(wait_for_all=True)
FlushOne ==
    /\ engine.pc = "flushing" /\ saves # <<>> /\ Resolved(Head(saves))
    /\ saves' = Tail(saves)
    /\ UNCHANGED <<storeVars, catalog, inflight, batches, restores, io, engine,
                   procVars, ghostVars>>

FlushTimesOut ==
    /\ engine.pc = "flushing" /\ saves # <<>> /\ ~Resolved(Head(saves))
    /\ saves' = Tail(saves) /\ hurt' = TRUE
    /\ UNCHANGED <<storeVars, catalog, inflight, batches, restores, io, engine,
                   procVars, republished, owed>>

\* The coordinator's close waits until no I/O is left.
Close ==
    /\ engine.pc = "flushing" /\ saves = <<>>
    /\ \A i \in DOMAIN io : Resolved(i)
    /\ engine' = [pc |-> "closed"]
    /\ inflight' = <<>>
    /\ UNCHANGED <<storeVars, catalog, batches, saves, restores, io, procVars, ghostVars>>

\* ... for ten seconds; exit closes the backend all the same.
CloseTimesOut ==
    /\ engine.pc = "flushing" /\ saves = <<>>
    /\ \E i \in DOMAIN io : ~Resolved(i)
    /\ engine' = [pc |-> "closed"] /\ hurt' = TRUE
    /\ UNCHANGED <<storeVars, serviceVars, io, procVars, republished, owed>>

---------------------------------------------------------------------------
(* Restores *)

Matched(path) == {p \in Pages(path) : Pages(p) \subseteq catalog}

\* plan_restore and submit_restore: path is the cacheable part of a request of
\* which local pages are cached here.  The planner may also decline.
StartRestore(path, local) ==
    LET wanted == {p \in Matched(path) : Len(p) > local}
    IN  /\ engine = Idle /\ RoomFor(Cardinality(wanted))
        /\ wanted # {}
        /\ \E pages \in InOrder(wanted) :
             Submit([k \in DOMAIN pages |-> GetCall(pages[k])])
        /\ restores' = restores \cup {(Len(io) + 1)..Len(io')}
        /\ UNCHANGED <<storeVars, catalog, inflight, batches, saves, engine, procVars,
                       ghostVars>>

RestoreDone(gets) ==
    \/ \E i \in gets : io[i].stage \in {"missing", "failed"}
    \/ \A i \in gets : Resolved(i)

\* The engine polls a finished transfer, or its request was cancelled.
EndRestore(gets, cancelled) ==
    /\ engine = Idle
    /\ cancelled \/ RestoreDone(gets)
    /\ restores' = restores \ {gets}
    /\ UNCHANGED <<storeVars, catalog, inflight, batches, saves, io, engine, procVars,
                   ghostVars>>

---------------------------------------------------------------------------
(* Crash and restart *)

\* The process ends; calls that were at the backend may still take effect.
Crash ==
    /\ engine.pc # "down"
    /\ \E W \in SUBSET {i \in DOMAIN io : Turn(i) /\ io[i].op = "put"} : Written(W)
    /\ catalog' = {} /\ inflight' = <<>>
    /\ batches' = <<>> /\ saves' = <<>> /\ restores' = {}
    /\ io' = <<>>
    /\ engine' = [pc |-> "down"]
    /\ republished' = {} /\ owed' = {} /\ hurt' = FALSE
    /\ spent' = Used /\ UNCHANGED lives

\* _load_persistent_catalog: every failure leaves an empty catalog.
Restart ==
    /\ engine.pc = "down" /\ lives < MaxLives
    /\ catalog' \in {Merge(savedCatalog), {}}
    /\ engine' = Idle
    /\ lives' = lives + 1
    /\ UNCHANGED <<spent, storeVars, inflight, batches, saves, restores, io, ghostVars>>

\* Nothing more to do.
Quiet ==
    /\ engine.pc = "down" /\ lives = MaxLives
    /\ UNCHANGED vars

Loop == \E i \in DOMAIN io : Start(i) \/ PutSucceeds(i) \/ GetSucceeds(i) \/ IOFails(i)

\* What an engine thread that has begun an operation does next.
EngineStep ==
    \/ PublishReturns \/ PublishRaises \/ SubmitWriteback
    \/ SweepOne \/ SweepEnd \/ FlushOne \/ Close

Timeouts ==
    PublishTimesOut \/ ExportFails \/ SweepTimesOut \/ FlushTimesOut \/ CloseTimesOut

Client ==
    \/ \E path \in Paths :
        \/ RegisterExistingPrefix(path)
        \/ PublishPrefix(path)
        \/ PagesRequiringWrite(path)
        \/ \E local \in 0..(Len(path) - 1) : StartRestore(path, local)
    \/ \E gets \in restores, cancelled \in BOOLEAN : EndRestore(gets, cancelled)
    \/ \E exiting \in BOOLEAN : ProcessRemoteWritebacks(exiting)

Next ==
    \/ Loop \/ EngineStep \/ Timeouts \/ Client
    \/ \E p \in stored : Evicted(p)
    \/ Crash \/ Restart \/ Quiet

Spec == Init /\ [][Next]_vars

\* Backend calls return, the loop runs, and the engine thread is not stopped in
\* the middle of an operation.  No timeout is counted on.
FairSpec == Spec /\ WF_vars(Loop) /\ WF_vars(EngineStep)

---------------------------------------------------------------------------
(* Properties *)

\* The catalog lists only pages that were written, whichever writes of a batch
\* failed, were shared with other batches or were retried.
CatalogBacked == catalog \subseteq stored \cup lost

\* A crash leaves no stored catalog that points to a page never written.
SavedCatalogBacked == Merge(savedCatalog) \subseteq stored \cup lost

\* A page is marked as being written only while some batch will clear the mark:
\* a stale mark would keep the page from ever being written.
InflightOwned ==
    \A p \in DOMAIN inflight : \E b \in Range(batches) : inflight[p] \in b.writes

\* A planned restore finds its pages, unless the backend dropped them or
\* publish_prefix superseded the fetch.
MissingExplained ==
    \A i \in DOMAIN io : io[i].stage = "missing" => io[i].key \in lost \cup republished

\* Once the last catalog save has succeeded the stored snapshot is the catalog:
\* no older snapshot overtakes it, and nothing is registered without a save.
LatestSaveWins ==
    LET ids == {i \in DOMAIN io : io[i].key = CatalogKey}
    IN  \A i \in ids : io[i].stage = "ok" /\ (\A j \in ids : j <= i) =>
            savedCatalog = Snapshot(catalog)

\* If nothing failed or timed out, exit leaves every prefix submitted for
\* write-back in the stored catalog.
ExitKeepsWrites ==
    engine.pc = "closed" /\ ~hurt => owed \subseteq Merge(savedCatalog)

\* The engine thread does not block for ever on its own futures, even when no
\* timeout comes to its help.
EngineReturns ==
    (engine.pc # "idle") ~> (engine.pc \in {"idle", "closed", "down"})
=============================================================================
