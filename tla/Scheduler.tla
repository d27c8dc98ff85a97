----------------------------- MODULE Scheduler -----------------------------
(***************************************************************************)
(* The step loop of nanovllm/engine/scheduler.py and LLMEngine.step over   *)
(* the block manager.  One engine thread runs add, cancel, schedule, run   *)
(* and postprocess, so a handler is never interrupted; pc names the point  *)
(* of _schedule_once it has reached and every loop iteration, and every    *)
(* call into the block manager, is one step.  Restores are fetched by the  *)
(* transfer thread and are picked up where the code polls them.            *)
(*                                                                         *)
(* Policies.  "fcfs" is FCFSPolicy.  "pals" orders requests by a latency   *)
(* budget computed from wall-clock time and EWMA estimates: every choice   *)
(* it could make is allowed.                                               *)
(***************************************************************************)
EXTENDS BlockManager, SequencesExt

CONSTANTS
    NoSeq,              \* no current request
    Policy,             \* scheduling_policy
    MaxNumSeqs,         \* max_num_seqs
    MaxNumBatched,      \* max_num_batched_tokens
    MaxActive,          \* max_num_active_seqs, 0 for None
    Lookahead,          \* kv_admission_lookahead
    MaxTokens,          \* MaxTokens[s]: max_tokens of request s
    Priority,           \* Priority[s]: qos.priority of request s
    Eos,                \* eos
    ReclaimPolicy,      \* kv_reclaim_policy
    TargetFree,         \* kv_reclaim_target_free_blocks
    Compression,        \* kv_compression_policy
    SinkBlocks, RecentBlocks, ImportanceBlocks,
    TriggerFree,        \* trigger_free_ratio * number of blocks, rounded down
    Remote,             \* a remote_restore_service is configured
    MayFail             \* engine steps may raise

ASSUME PolicyAssumption == Policy \in {"fcfs", "pals"}
ASSUME LimitsAssumption ==
    /\ MaxNumSeqs \in Nat \ {0} /\ MaxNumBatched \in Nat \ {0}
    /\ MaxActive \in Nat /\ Lookahead \in Nat
    /\ TargetFree \in Nat \ {0} /\ TriggerFree \in Nat
    /\ {SinkBlocks, RecentBlocks, ImportanceBlocks} \subseteq Nat \ {0}
ASSUME ReclaimAssumption == ReclaimPolicy \in {"recompute", "slo_aware"}
ASSUME CompressionAssumption ==
    Compression \in {"none", "sink_recent", "query_aware"}
\* _admit rejects longer requests: max_model_len is at most the cache's capacity.
ASSUME AdmissionAssumption ==
    \A s \in Seqs : /\ MaxTokens[s] \in Nat \ {0}
                    /\ Len(Prompt[s]) + MaxTokens[s] <=
                         Cardinality(Blocks) * BlockSize
                    /\ Len(Prompt[s]) + MaxTokens[s] <= MaxLen
ASSUME NoSeqAssumption == NoSeq \notin Seqs

VARIABLES
    status,     \* Sequence.status, "new" before add
    waiting,    \* deque
    running,    \* deque
    pending,    \* pending_restores: request -> total_cached_blocks
    attempted,  \* remote_restore_attempted
    inPrefill,  \* Sequence.is_prefill
    pc,         \* control point of the engine thread
    loop        \* locals of _schedule_once

schedVars == <<status, waiting, running, pending, attempted, inPrefill>>
vars == <<bmVars, schedVars, pc, loop>>

Fresh == [scheduled |-> <<>>, batched |-> 0, deferred |-> {},
          residentOnly |-> FALSE, retryPrefill |-> FALSE, second |-> FALSE,
          isPrefill |-> FALSE, cur |-> NoSeq, hit |-> 0]

Init ==
    /\ BMInit
    /\ status = [s \in Seqs |-> "new"]
    /\ waiting = <<>>
    /\ running = <<>>
    /\ pending = <<>>
    /\ attempted = [s \in Seqs |-> FALSE]
    /\ inPrefill = [s \in Seqs |-> TRUE]
    /\ pc = "idle"
    /\ loop = Fresh

Resident(s) == blockTable[s] # <<>>
Residents(q) == {s \in Range(q) : Resident(s)}
ResidentCount == Len(running) + Cardinality(DOMAIN pending)
                   + Cardinality(Residents(waiting))
IsFinished == waiting = <<>> /\ running = <<>> /\ DOMAIN pending = {}

---------------------------------------------------------------------------
(* The policy's answers *)

ShouldSchedulePrefill(S) ==
    CASE S = {}                                         -> {FALSE}
      [] S # {} /\ (Policy = "fcfs" \/ running = <<>>)  -> {TRUE}
      [] OTHER                                          -> BOOLEAN

\* The candidate of S, a part of the queue q, that comes first.
SelectFirst(q, S) ==
    {q[i] : i \in {i \in DOMAIN q :
        q[i] \in S /\ (Policy = "fcfs" => \A j \in 1..(i - 1) : q[j] \notin S)}}
SelectVictim(q) == IF Policy = "fcfs" THEN {Last(q)} ELSE Range(q)

\* KVReclaimPolicy.plan and SLOAwareKVReclaimPolicy.plan: the kept ratio
\* depends on the latency budget, so any prefix up to the cap may be kept.
KeepBlocks(s) ==
    LET minReclaim == Max({1, TargetFree - Cardinality(freeBlocks)})
        maxKeep    == Max({0, Retained(s) - minReclaim})
    IN  IF ReclaimPolicy = "recompute" THEN {0}
        ELSE 0..Min({numCached[s] \div BlockSize, maxKeep})

\* growth_pages and priority_reserve_pages
GrowthPages(cached, owned, future) == Max({0, Pages(cached + future) - owned})

PriorityReserve(s) ==
    LET left(r, n) == Max({0, MaxTokens[r] - (Len(tokens[r]) - Len(Prompt[r])) - n})
        ahead(r)   == Min({Lookahead, left(r, IF Idle(r) THEN 0 ELSE 1)})
        growth(r)  == GrowthPages(numPhysical[r] + numScheduled[r], Retained(r),
                                  ahead(r))
        rivals     == {r \in Range(running) : Priority[r] >= Priority[s]}
    IN  MapThenSumSet(growth, rivals)
          + GrowthPages(Len(tokens[s]), NumBlocks(s), Min({Lookahead, left(s, 1)}))

\* Slip: the recent pages are not kept.
KeepOnlySinks(s) ==
    LET n == Retained(s)
    IN  IF \/ Compression = "none"
           \/ Cardinality(freeBlocks) > TriggerFree
           \/ n <= SinkBlocks + RecentBlocks
        THEN {}
        ELSE {f \in KeepLists(n) : Range(f) = 1..SinkBlocks}

\* compress_sink_recent and compress_query_aware: the pages kept.  The token
\* overlap that ranks the middle pages is left open.
CompressionKeeps(s) ==
    LET n      == Retained(s)
        window == (1..SinkBlocks) \cup ((n - RecentBlocks + 1)..n)
        extra  == IF Compression = "query_aware" THEN ImportanceBlocks ELSE 0
    IN  IF \/ Compression = "none"
           \/ Cardinality(freeBlocks) > TriggerFree
           \/ n <= SinkBlocks + RecentBlocks + extra
        THEN {}
        ELSE {f \in KeepLists(n) : /\ window \subseteq Range(f)
                                   /\ Cardinality(Range(f) \ window) = extra}

---------------------------------------------------------------------------
(* Between steps: the worker admits and cancels requests *)

Add(s) ==
    /\ pc = "idle" /\ status[s] = "new"
    /\ status' = [status EXCEPT ![s] = "waiting"]
    /\ waiting' = Append(waiting, s)
    /\ UNCHANGED <<bmVars, running, pending, attempted, inPrefill, pc, loop>>

\* cancel
CancelRequest(s) ==
    /\ s \in Range(waiting) \cup Range(running) \cup DOMAIN pending
    /\ waiting' = RemoveFirst(waiting, s)
    /\ running' = RemoveFirst(running, s)
    /\ pending' = Pop(pending, s)
    /\ CancelOp(s)
    /\ status' = [status EXCEPT ![s] = "cancelled"]
    /\ UNCHANGED <<attempted, inPrefill, loop>>

CancelIdle(s) == pc = "idle" /\ CancelRequest(s) /\ UNCHANGED pc

\* LLMEngine.step is only entered with work to do.
StartStep ==
    /\ pc = "idle" /\ ~IsFinished
    /\ pc' = "step"
    /\ UNCHANGED <<bmVars, schedVars, loop>>

---------------------------------------------------------------------------
(* Restores polled by _process_ready_remote_restores *)

CompleteRestore(s) ==
    /\ pc \in {"step", "waitAny"} /\ s \in DOMAIN pending
    /\ CommitRestoredPrefixOp(s, pending[s])
    /\ status' = [status EXCEPT ![s] = "waiting"]
    /\ pending' = Pop(pending, s)
    /\ waiting' = Append(waiting, s)
    /\ pc' = "step"
    /\ UNCHANGED <<running, attempted, inPrefill, loop>>

FailRestore(s) ==
    /\ pc \in {"step", "waitAny"} /\ s \in DOMAIN pending
    /\ DeallocateOp(s)
    /\ status' = [status EXCEPT ![s] = "waiting"]
    /\ pending' = Pop(pending, s)
    /\ waiting' = <<s>> \o waiting
    /\ pc' = "step"
    /\ UNCHANGED <<running, attempted, inPrefill, loop>>

---------------------------------------------------------------------------
(* _schedule_once, prefill phase *)

\* Entry of the first or of the retried pass.
Enter(second) ==
    \E prefill \in ShouldSchedulePrefill(Range(waiting)) :
        /\ pc' = IF prefill THEN "prefill" ELSE "decode"
        /\ loop' = [Fresh EXCEPT !.second = second]

Schedule_ ==
    /\ pc = "step"
    /\ Enter(FALSE)
    /\ UNCHANGED <<bmVars, schedVars>>

\* The prefill loop goes on, to its head.
Continue(l) == pc' = "prefill" /\ loop' = [l EXCEPT !.cur = NoSeq, !.hit = 0]

\* Slip: the loop goes on where it has to stop.
BreakContinues(l) == Continue(l)

\* Slip: the batch is handed over without is_prefill.
BreakAsDecode(l) == /\ pc' = IF l.scheduled # <<>> THEN "run" ELSE "decode"
                    /\ loop' = [l EXCEPT !.cur = NoSeq, !.hit = 0]

\* The prefill loop breaks: run what was scheduled or go on to decode.
Break(l) == IF l.scheduled # <<>>
            THEN /\ pc' = "run"
                 /\ loop' = [l EXCEPT !.isPrefill = TRUE, !.cur = NoSeq, !.hit = 0]
            ELSE /\ pc' = "decode"
                 /\ loop' = [l EXCEPT !.cur = NoSeq, !.hit = 0]

AtResidentLimit == MaxActive > 0 /\ ResidentCount >= MaxActive

\* Slip: the resident limit is not applied.
EligibleUnlimited ==
    (IF loop.residentOnly THEN Residents(waiting) ELSE Range(waiting)) \ loop.deferred

Eligible ==
    (IF loop.residentOnly \/ AtResidentLimit THEN Residents(waiting) ELSE Range(waiting))
        \ loop.deferred

\* The policy is asked again whenever admission narrowed the candidates.
StillPrefers ==
    IF loop.deferred # {} \/ AtResidentLimit
    THEN ShouldSchedulePrefill(Eligible)
    ELSE {Eligible # {}}

Remaining == MaxNumBatched - loop.batched

\* Head of the loop, up to the test of the token budget.
SelectPrefill ==
    /\ pc = "prefill"
    /\ UNCHANGED <<bmVars, schedVars>>
    /\ IF waiting = <<>> \/ Len(loop.scheduled) >= MaxNumSeqs
       THEN Break(loop)
       ELSE \E prefers \in StillPrefers :
              IF ~prefers \/ Remaining = 0
              THEN Break(loop)
              ELSE \E s \in SelectFirst(waiting, Eligible) :
                     /\ pc' = IF Resident(s) THEN "ensure" ELSE "allocate"
                     /\ loop' = [loop EXCEPT !.cur = s]

\* _ensure_resume_capacity: one can_resume test ...
EnsureResume ==
    LET s == loop.cur
    IN  /\ pc = "ensure"
        /\ UNCHANGED schedVars
        /\ \/ /\ CanResumeOp(s)
              /\ pc' = IF Resident(s) THEN "resume" ELSE "allocate"
              /\ UNCHANGED loop
           \/ /\ CannotResumeOp(s)
              /\ IF Resident(s) THEN pc' = "evict" /\ UNCHANGED loop
                                ELSE Break(loop)

\* ... and the reclaim that follows a failed one: another waiting request's
\* retained prefix, else, when nothing is decoding, its own.
EvictRetained ==
    LET s      == loop.cur
        others == Residents(waiting) \ {s}
    IN  /\ pc = "evict"
        /\ UNCHANGED schedVars
        /\ \/ \E v \in others :
                ReclaimSuffixOp(v, 0) /\ pc' = "ensure" /\ UNCHANGED loop
           \/ /\ others = {} /\ running # <<>>
              /\ Break(loop)
              /\ UNCHANGED bmVars
           \/ /\ others = {} /\ running = <<>>
              /\ ReclaimSuffixOp(s, 0)
              /\ pc' = "ensure"
              /\ UNCHANGED loop

Resume_ ==
    /\ pc = "resume"
    /\ ResumeOp(loop.cur)
    /\ pc' = "admit"
    /\ UNCHANGED <<schedVars, loop>>

\* A deferred request is skipped until too many were.
Defer(s) ==
    LET l == [loop EXCEPT !.deferred = @ \cup {s}]
    IN  IF Cardinality(l.deferred) < MaxNumSeqs THEN Continue(l) ELSE Break(l)

\* Slip: nothing turns to the requests that hold pages already.
NoRoomGivesUp(s) == IF Lookahead > 0 /\ running # <<>> THEN Defer(s) ELSE Break(loop)

\* can_allocate failed: prefer partial prefills, look further, or stop.
NoRoom(s) ==
    IF running = <<>> /\ Residents(waiting) # {}
    THEN Continue([loop EXCEPT !.residentOnly = TRUE])
    ELSE IF Lookahead > 0 /\ running # <<>> THEN Defer(s) ELSE Break(loop)

\* can_allocate and the admission checks behind it.
TryAllocate ==
    LET s        == loop.cur
        ids      == LookupCachedBlocks(s)
        reserved == /\ Lookahead > 0 /\ running # <<>>
                    /\ Cardinality(freeBlocks) - PlannedAllocationPages(s, ids)
                         < PriorityReserve(s)
    IN  /\ pc = "allocate"
        /\ UNCHANGED schedVars
        /\ \/ /\ ~CanAllocate(s)
              /\ ForgetPlanOp(s)
              /\ NoRoom(s)
           \/ /\ CanAllocate(s) /\ reserved
              /\ ForgetPlanOp(s)
              /\ Defer(s)
           \/ /\ ~reserved
              /\ CanAllocateOp(s)
              /\ pc' = IF Remote /\ ~attempted[s] THEN "restore" ELSE "admit"
              /\ loop' = [loop EXCEPT !.hit = Len(ids)]

\* Slip: a request may be sent to a restore any number of times.
ReserveAgain(s) ==
    /\ AllocateOp(s, loop.hit, 0)
    /\ status' = [status EXCEPT ![s] = "waiting_for_kv"]
    /\ UNCHANGED <<attempted, inPrefill>>

\* reserve_restore and the flags _start_remote_restore sets around it.
ReserveRestore(s) ==
    /\ AllocateOp(s, loop.hit, 0)
    /\ attempted' = [attempted EXCEPT ![s] = TRUE]
    /\ status' = [status EXCEPT ![s] = "waiting_for_kv"]
    /\ UNCHANGED inPrefill

\* _start_remote_restore: no candidate, a submitted restore, or a submit that
\* raises after the pages were reserved.
SkipRestore ==
    /\ pc = "restore"
    /\ pc' = "admit"
    /\ UNCHANGED <<bmVars, schedVars, loop>>

StartRestore ==
    LET s == loop.cur
    IN  /\ pc = "restore"
        /\ \E total \in (loop.hit + 1)..CacheableBlocks(s) :
             pending' = [r \in DOMAIN pending \cup {s} |->
                           IF r = s THEN total ELSE pending[r]]
        /\ ReserveRestore(s)
        /\ waiting' = RemoveFirst(waiting, s)
        /\ UNCHANGED running
        /\ Continue(loop)

ReserveThenRaise ==
    LET s == loop.cur
    IN  /\ pc = "restore"
        /\ loop.hit < CacheableBlocks(s)
        /\ ReserveRestore(s)
        /\ pc' = "abortRestore"
        /\ UNCHANGED <<waiting, running, pending, loop>>

AbortRestore ==
    LET s == loop.cur
    IN  /\ pc = "abortRestore"
        /\ DeallocateOp(s)
        /\ status' = [status EXCEPT ![s] = "waiting"]
        /\ pc' = "admit"
        /\ UNCHANGED <<waiting, running, pending, attempted, inPrefill, loop>>

\* Slip: an admitted request is not taken from the waiting queue.
EnqueueTwice(s, complete) ==
    /\ status' = [status EXCEPT ![s] = IF complete THEN "running" ELSE @]
    /\ running' = IF complete THEN Append(running, s) ELSE running
    /\ UNCHANGED waiting

\* A fully scheduled prompt moves to the running queue.
Enqueue(s, complete) ==
    IF complete
    THEN /\ status' = [status EXCEPT ![s] = "running"]
         /\ waiting' = RemoveFirst(waiting, s)
         /\ running' = Append(running, s)
    ELSE UNCHANGED <<status, waiting, running>>

\* allocate raises "prefix cache changed between capacity check and allocation".
Raise ==
    /\ pc' = "error"
    /\ UNCHANGED <<bmVars, status, waiting, running, loop>>

\* Slip: any request may be chunked.
FitsAlways(need) == TRUE

\* The request fits the token budget, or is the first and may be chunked.
Fits(need) == Remaining >= need \/ loop.scheduled = <<>>

\* The common tail: only the first request may be chunked.
Admit ==
    LET s      == loop.cur
        cached == IF Resident(s) THEN numCached[s] ELSE loop.hit * BlockSize
        need   == Len(tokens[s]) - cached
        k      == Min({need, Remaining})
    IN  /\ pc = "admit"
        /\ UNCHANGED <<pending, attempted, inPrefill>>
        /\ \/ /\ ~Fits(need)
              /\ Break(loop)
              /\ UNCHANGED <<bmVars, status, waiting, running>>
           \/ /\ Fits(need)
              /\ IF ~Resident(s) /\ Len(AllocatePlan(s, loop.hit)) # loop.hit
                 THEN Raise
                 ELSE /\ IF Resident(s) THEN ScheduleOp(s, k)
                                        ELSE AllocateOp(s, loop.hit, k)
                      /\ Enqueue(s, k = need)
                      /\ Continue([loop EXCEPT !.scheduled = Append(@, s),
                                               !.batched = @ + k])

---------------------------------------------------------------------------
(* _schedule_once, decode phase *)

\* Pop the most urgent request and compress its middle pages under pressure.
SelectDecode ==
    /\ pc = "decode"
    /\ running # <<>> /\ Len(loop.scheduled) < MaxNumSeqs
    /\ \E s \in SelectFirst(running, Range(running)) :
        /\ running' = RemoveFirst(running, s)
        /\ IF CompressionKeeps(s) = {}
           THEN UNCHANGED bmVars
           ELSE \E keep \in CompressionKeeps(s) : CompressOp(s, keep)
        /\ loop' = [loop EXCEPT !.cur = s]
    /\ pc' = "append"
    /\ UNCHANGED <<status, waiting, pending, attempted, inPrefill>>

\* Slip: is_prefill is not set again.
PreemptAsDecode(v) ==
    /\ IF compressed[v]
       THEN DeallocateOp(v)
       ELSE \E keep \in KeepBlocks(v) : ReclaimSuffixOp(v, keep)
    /\ status' = [status EXCEPT ![v] = "waiting"]
    /\ waiting' = <<v>> \o waiting
    /\ UNCHANGED inPrefill

\* preempt: what v loses, and its place at the head of the waiting queue.
Preempt(v) ==
    /\ IF compressed[v]
       THEN DeallocateOp(v)
       ELSE \E keep \in KeepBlocks(v) : ReclaimSuffixOp(v, keep)
    /\ status' = [status EXCEPT ![v] = "waiting"]
    /\ inPrefill' = [inPrefill EXCEPT ![v] = TRUE]
    /\ waiting' = <<v>> \o waiting

\* No page for s: preempt another decoding request, or s itself.
AppendPressure ==
    LET s == loop.cur
    IN  /\ pc = "append" /\ ~CanAppend(s)
        /\ IF running # <<>>
           THEN \E v \in SelectVictim(running) :
                  /\ Preempt(v)
                  /\ running' = RemoveFirst(running, v)
                  /\ UNCHANGED <<pc, loop>>
           ELSE /\ Preempt(s)
                /\ loop' = [loop EXCEPT !.retryPrefill = TRUE, !.cur = NoSeq]
                /\ pc' = "decode"
                /\ UNCHANGED running
        /\ UNCHANGED <<pending, attempted>>

Append_ ==
    LET s == loop.cur
    IN  /\ pc = "append" /\ CanAppend(s)
        /\ MayAppendOp(s)
        /\ loop' = [loop EXCEPT !.scheduled = Append(@, s), !.cur = NoSeq]
        /\ inPrefill' = [inPrefill EXCEPT ![s] = FALSE]
        /\ pc' = "decode"
        /\ UNCHANGED <<status, waiting, running, pending, attempted>>

\* End of the decode loop: run, wait for a restore, retry once, or raise.
DecodeEnd ==
    /\ pc = "decode"
    /\ running = <<>> \/ Len(loop.scheduled) >= MaxNumSeqs
    /\ UNCHANGED <<bmVars, status, waiting, pending, attempted, inPrefill>>
    /\ CASE loop.scheduled # <<>> ->
              /\ running' = loop.scheduled \o running
              /\ pc' = "run"
              /\ UNCHANGED loop
         [] loop.scheduled = <<>> /\ DOMAIN pending # {} ->
              /\ pc' = "waitAny"
              /\ loop' = Fresh
              /\ UNCHANGED running
         [] loop.scheduled = <<>> /\ DOMAIN pending = {} /\ loop.retryPrefill
              /\ ~loop.second ->
              Enter(TRUE) /\ UNCHANGED running
         [] OTHER -> pc' = "error" /\ UNCHANGED <<running, loop>>

---------------------------------------------------------------------------
(* Execution and postprocess *)

RunModel ==
    /\ pc = "run"
    /\ RunOp(Range(loop.scheduled), loop.isPrefill)
    /\ pc' = "post"
    /\ UNCHANGED <<schedVars, loop>>

Stops(s, t) == t = Eos \/ Len(tokens[s]) + 1 = Len(Prompt[s]) + MaxTokens[s]

\* One iteration of postprocess; a finished request is retired next.
PostprocessOne ==
    LET s     == Head(loop.scheduled)
        chunk == loop.isPrefill
                   /\ numCached[s] + numScheduled[s] < Len(tokens[s])
    IN  /\ pc = "post" /\ loop.scheduled # <<>>
        /\ \E t \in Sampled :
             /\ PostprocessOp(s, loop.isPrefill, t)
             /\ IF ~chunk /\ Stops(s, t)
                THEN /\ status' = [status EXCEPT ![s] = "finished"]
                     /\ pc' = "finish"
                ELSE UNCHANGED <<status, pc>>
        /\ loop' = [loop EXCEPT !.scheduled = Tail(@), !.cur = s]
        /\ UNCHANGED <<waiting, running, pending, attempted, inPrefill>>

Finish ==
    /\ pc = "finish"
    /\ DeallocateOp(loop.cur)
    /\ running' = RemoveFirst(running, loop.cur)
    /\ pc' = "post"
    /\ UNCHANGED <<status, waiting, pending, attempted, inPrefill, loop>>

EndStep ==
    /\ pc = "post" /\ loop.scheduled = <<>>
    /\ pc' = "idle"
    /\ loop' = Fresh
    /\ UNCHANGED <<bmVars, schedVars>>

\* model_runner raises; the worker then cancels every request it knows of.
RunRaises ==
    /\ MayFail /\ pc = "run"
    /\ pc' = "failActive"
    /\ UNCHANGED <<bmVars, schedVars, loop>>

FailActive(s) == pc = "failActive" /\ CancelRequest(s) /\ UNCHANGED pc

FailEnd ==
    /\ pc = "failActive" /\ IsFinished
    /\ pc' = "idle"
    /\ loop' = Fresh
    /\ UNCHANGED <<bmVars, schedVars>>

Quiet ==
    /\ pc = "idle" /\ \A s \in Seqs : status[s] \in {"finished", "cancelled"}
    /\ UNCHANGED vars

---------------------------------------------------------------------------
PrefillStep ==
    \/ Schedule_ \/ SelectPrefill \/ EnsureResume \/ EvictRetained \/ Resume_
    \/ TryAllocate \/ SkipRestore \/ StartRestore \/ ReserveThenRaise
    \/ AbortRestore \/ Admit

DecodeStep == SelectDecode \/ AppendPressure \/ Append_ \/ DecodeEnd

RunStep == RunModel \/ PostprocessOne \/ Finish \/ EndStep

Engine ==
    \/ StartStep \/ PrefillStep \/ DecodeStep \/ RunStep
    \/ FailEnd \/ \E s \in Seqs : FailActive(s)

Transfers == \E s \in Seqs : CompleteRestore(s) \/ FailRestore(s)

Client == \E s \in Seqs : Add(s) \/ CancelIdle(s)

Next == Engine \/ Transfers \/ Client \/ RunRaises \/ Quiet

Spec == Init /\ [][Next]_vars

\* The engine thread keeps running and a transfer ends, well or badly.
FairSpec == Spec /\ WF_vars(Engine) /\ WF_vars(Transfers)

---------------------------------------------------------------------------
(* Properties *)

Queued == Range(waiting) \cup Range(running) \cup DOMAIN pending

\* A request the admission test lets in is never answered with a scheduler
\* error: whatever mix of partial prefills, retained prefixes, restores and
\* preemptions holds the cache, schedule() finds work or something to wait for.
\* ("no runnable request fits", "scheduler retry failed to make progress",
\* "prefix cache changed between capacity check and allocation".)
NoSchedulerError == pc # "error"

\* Wherever a handler starts, every live request sits in exactly one of the
\* three queues, the one its status names, and every queued request is live.
QueuesMatchStatus ==
    pc \in {"idle", "step", "waitAny", "run", "failActive"} =>
        /\ IsInjective(waiting \o running)
        /\ \A s \in Seqs :
            /\ s \in Range(waiting) <=> status[s] = "waiting"
            /\ s \in Range(running) <=> status[s] = "running"
            /\ s \in DOMAIN pending <=> status[s] = "waiting_for_kv"

\* Pages belong to live requests only: finishing, cancelling, failing a
\* restore or failing the whole engine step gives every page back.
NoOrphanPages ==
    \A s \in Seqs : Resident(s) =>
        \/ status[s] \in {"waiting", "running", "waiting_for_kv"}
        \/ pc = "finish" /\ loop.cur = s

Scheduled == Range(loop.scheduled)

\* The running totals of the scheduled tokens stay within the budget.
WithinBudget(batch) ==
    \E total \in [0..Len(batch) -> 0..MaxNumBatched] :
        /\ total[0] = 0
        /\ \A i \in 1..Len(batch) : total[i] = total[i - 1] + numScheduled[batch[i]]

\* A batch handed to the model has distinct members with at least one token
\* each, within both limits, and only its first member may be left incomplete.
BatchWellFormed ==
    pc = "run" =>
        /\ IsInjective(loop.scheduled)
        /\ Len(loop.scheduled) \in 1..MaxNumSeqs
        /\ \A s \in Scheduled : numScheduled[s] > 0
        /\ loop.isPrefill =>
            /\ WithinBudget(loop.scheduled)
            /\ \A i \in 2..Len(loop.scheduled) :
                 LET s == loop.scheduled[i]
                 IN  numCached[s] + numScheduled[s] = Len(tokens[s])
        /\ ~loop.isPrefill => \A s \in Scheduled : NewestMissing(s)

\* Sequence.__getstate__ and __setstate__: the tokens the other ranks of a
\* tensor-parallel run receive with a scheduled request.
RemoteTokens(s) == IF inPrefill[s] THEN tokens[s] ELSE <<>>

\* The other ranks prefill the same tokens as rank 0: a request that was
\* decoding, was preempted and is prefilled again is sent with all its tokens.
RanksSeeTheTokens ==
    pc = "run" /\ loop.isPrefill =>
        \A s \in Scheduled :
            LET slice(ts) == SubSeq(ts, numCached[s] + 1, numCached[s] + numScheduled[s])
            IN  numCached[s] + numScheduled[s] <= Len(RemoteTokens(s))
                /\ slice(RemoteTokens(s)) = slice(tokens[s])

\* max_num_active_seqs bounds the requests that own pages at any step boundary.
ResidentLimit == MaxActive > 0 /\ pc = "idle" => ResidentCount <= MaxActive

\* While a restore is in flight its reserved pages stay out of the prefix
\* cache and out of every other table, so a half-imported page is never read.
ReservedPagesHidden ==
    \A s \in DOMAIN pending :
        \A i \in ((numCached[s] \div BlockSize) + 1)..Retained(s) :
            LET b == blockTable[s][i]
            IN  Holders(b) = {s} /\ b \notin Range(index)

\* An engine step ends: neither the prefill loop, the eviction loop nor the
\* append loop can spin.
StepEnds == (pc = "step") ~> (pc \in {"idle", "waitAny"})

\* Under FCFS every admitted request is answered, however often it is chunked,
\* preempted or sent to a restore.
EveryRequestAnswered ==
    \A s \in Seqs :
        (status[s] = "waiting") ~> (status[s] \in {"finished", "cancelled"})
=============================================================================
